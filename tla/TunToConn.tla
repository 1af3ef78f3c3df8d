------------------------------ MODULE TunToConn ------------------------------
(***************************************************************************)
(* The path of packets from the tun device to one peer connection in      *)
(* io.c.  tun_io's EPOLLIN half runs read_tun_and_xmit, which reads        *)
(* packets until read fails, looks each destination up in live_sockets     *)
(* and calls write_to_conn: a packet without a connection is dropped and   *)
(* counted; otherwise fill_ring copies it into the connection's tx ring    *)
(* with read_from_tun_buff (all or nothing: NOT_ENOUGH_SPACE is a drop)    *)
(* and pushes the ring to the socket at once with write_passthru_to_conn.  *)
(* What the socket does not take waits in the tx ring for conn_io, whose   *)
(* EPOLLOUT half runs drain_ring with send_bl_batch (io.c 982-987).        *)
(*                                                                         *)
(* Sockets are registered edge-triggered (EPOLLET, io.c 250): the          *)
(* connection gets an EPOLLOUT event only when its send buffer, after a   *)
(* send that could not queue everything, gains room again; it gets other   *)
(* events whenever the peer sends.  The peer's socket buffer holds Window  *)
(* bytes; `inflight` of them are not yet read by the peer.                 *)
(*                                                                         *)
(* Bytes are numbered in the order they are copied into the tx ring, so    *)
(* the ring always holds bytes head+1 .. head+Occupied(r) (the ring is a   *)
(* FIFO, as the RingIO run shows) and `wire` lists the bytes the socket    *)
(* accepted, in order.  One step is one pass of fill_ring or drain_ring,   *)
(* or one read of the tun device.                                          *)
(***************************************************************************)
EXTENDS Integers, Sequences, SequencesExt

CONSTANTS Sz,            \* CONN_RING_SZ, the tx ring's capacity
          Lens,          \* lengths of the packets read from tun
          ReadCap,       \* r_buff.capacity, the size of a tun read
          MaxPkts,       \* bound on the packets read from tun
          Window,        \* room in the connection's socket send buffer
          MaxWire,       \* bound on the bytes the socket accepts
          SendAdvances   \* FALSE: send_bl_batch as written (`start += sent`)

VARIABLES pc,        \* "idle", "tun" (read loop), "fill" (write_to_conn), "drain"
          r,         \* the connection's tx ring d.conn.tx
          head,      \* bytes that left the tx ring
          made,      \* bytes copied into the tx ring
          pkt,       \* conn_bound_pkt_t: [len, aw] (already_written)
          fret,      \* fill_ring's ret in write_to_conn
          ffull,     \* fill_ring's local `full`
          pkts,      \* lengths of the packets read from tun, in order
          fwd,       \* lengths of the packets copied into the tx ring
          drop,      \* ctx->c_world_tx: [p |-> drop_p, b |-> drop_b]
          wire,      \* byte numbers the socket accepted, in order
          inflight,  \* bytes in the socket buffer the peer has not read
          nospace,   \* a send could not queue everything (SOCK_NOSPACE)
          evOut      \* an EPOLLOUT edge is pending for the connection

vars == <<pc, r, head, made, pkt, fret, ffull, pkts, fwd, drop, wire,
          inflight, nospace, evOut>>

TX == INSTANCE Ring

MinOf(a, b) == IF a <= b THEN a ELSE b

SumSeq(s) == FoldLeft(LAMBDA a, b : a + b, 0, s)

(* Byte numbers from p + 1 to p + n.                                       *)
Ids(p, n) == [i \in 1 .. n |-> p + i]

(* What a non-blocking send of n bytes queues with `used` bytes in flight. *)
Accepts(used, n) == MinOf(n, Window - used)

(***************************************************************************)
(* read_from_tun_buff shown a span of `cap` bytes and `add` more past the  *)
(* wrap: on its first invocation it refuses a packet that does not fit in  *)
(* both; else it copies what the span takes and says OK until the packet   *)
(* is all copied.                                                          *)
(***************************************************************************)
CopyLen(p, cap) == MinOf(p.len - p.aw, cap)

Refuses(p, cap, add) == p.aw = 0 /\ p.len > CopyLen(p, cap) + add

(***************************************************************************)
(* write_passthru_to_conn sends the second span only when the first went   *)
(* out whole; `written` is the tracker send_bl_batch is given.              *)
(***************************************************************************)
SendsSecondNever(written, len1, len2) == FALSE

SendsSecond(written, len1, len2) == written = len1 /\ len2 > 0

(* The tracker update of send_bl_batch after `sent` bytes went out.        *)
Tracked(sent) == IF SendAdvances THEN sent ELSE 0

(***************************************************************************)
(* write_passthru_to_conn on the spans of ring rr: the bytes the socket    *)
(* took and what the function returns.                                      *)
(***************************************************************************)
Passthru(rr) ==
    LET len1 == TX!PushSpans(rr)[1]
        len2 == TX!PushSpans(rr)[2]
        s1   == IF len1 > 0 THEN Accepts(inflight, len1) ELSE 0
        w1   == Tracked(s1)
        s2   == IF SendsSecond(w1, len1, len2)
                THEN Accepts(inflight + s1, len2) ELSE 0
    IN  [written |-> w1 + Tracked(s2),
         wire    |-> wire \o Ids(head, s1) \o Ids(head + len1, s2),
         sent    |-> s1 + s2,
         short   |-> s1 < len1 \/ (SendsSecond(w1, len1, len2) /\ s2 < len2)]

(* Seeded fault: the NULL-destination drop counts the packet only.         *)
DropForgetsBytes(d, len) == [d EXCEPT !.p = @ + 1]

(* write_to_conn's drop: c_world_tx.drop_p++ and drop_b += len.            *)
Drop(d, len) == [d EXCEPT !.p = @ + 1, !.b = @ + len]

Init ==
    /\ pc = "idle"
    /\ r = TX!InitRing
    /\ head = 0
    /\ made = 0
    /\ pkt = [len |-> 0, aw |-> 0]
    /\ fret = "EXHAUSTED"
    /\ ffull = FALSE
    /\ pkts = <<>>
    /\ fwd = <<>>
    /\ drop = [p |-> 0, b |-> 0]
    /\ wire = <<>>
    /\ inflight = 0
    /\ nospace = FALSE
    /\ evOut = FALSE

(* epoll reports the tun device readable: tun_io runs read_tun_and_xmit.   *)
TunEvent ==
    /\ pc = "idle"
    /\ Len(pkts) < MaxPkts
    /\ pc' = "tun"
    /\ UNCHANGED <<r, head, made, pkt, fret, ffull, pkts, fwd, drop, wire,
                   inflight, nospace, evOut>>

(***************************************************************************)
(* One read of read_tun_and_xmit's loop: a packet of L bytes, of which     *)
(* read returns at most r_buff.capacity, for the connection or for an      *)
(* address with none (batab_get returns NULL: the drop of write_to_conn).  *)
(***************************************************************************)
TunRead ==
    /\ pc = "tun"
    /\ Len(pkts) < MaxPkts
    /\ \E L \in Lens, toConn \in BOOLEAN :
          /\ pkts' = Append(pkts, L)
          /\ IF toConn
             THEN /\ pc' = "fill"
                  /\ pkt' = [len |-> MinOf(L, ReadCap), aw |-> 0]
                  /\ fret' = "OK"
                  /\ ffull' = FALSE
                  /\ UNCHANGED drop
             ELSE /\ drop' = Drop(drop, MinOf(L, ReadCap))
                  /\ UNCHANGED <<pc, pkt, fret, ffull>>
    /\ UNCHANGED <<r, head, made, fwd, wire, inflight, nospace, evOut>>

(* read fails with EAGAIN: the loop breaks and the event is done.          *)
TunDone ==
    /\ pc = "tun"
    /\ pc' = "idle"
    /\ UNCHANGED <<r, head, made, pkt, fret, ffull, pkts, fwd, drop, wire,
                   inflight, nospace, evOut>>

(***************************************************************************)
(* write_to_conn: one pass of fill_ring on the tx ring.  The wrap of end,  *)
(* or read_from_tun_buff on the free span followed by                      *)
(* write_passthru_to_conn on the occupied spans; the loop goes on while    *)
(* the handler says OK or `full` is set.  On leaving, NOT_ENOUGH_SPACE is  *)
(* a drop; otherwise ret is EXHAUSTED, as write_to_conn asserts, and the  *)
(* packet is in the ring or already sent.                                  *)
(***************************************************************************)
FillWrapTx ==
    /\ pc = "fill"
    /\ TX!FillWrapsEnd(r)
    /\ r' = TX!FillWrap(r)
    /\ UNCHANGED <<pc, head, made, pkt, fret, ffull, pkts, fwd, drop, wire,
                   inflight, nospace, evOut>>

FillPassTx ==
    /\ pc = "fill"
    /\ ~TX!FillWrapsEnd(r)
    /\ Len(wire) < MaxWire
    /\ LET fl     == ffull \/ TX!FillSeesFull(r)
           refuse == Refuses(pkt, TX!FillSpan(r), TX!FillExtra(r))
           k      == IF refuse THEN 0 ELSE CopyLen(pkt, TX!FillSpan(r))
           rt     == CASE refuse -> "NOT_ENOUGH_SPACE"
                       [] pkt.aw + k = pkt.len -> "EXHAUSTED"
                       [] OTHER -> "OK"
           r1     == TX!Produce(r, k)
           pt     == Passthru(r1)
           full2  == fl /\ ~(pt.written > 0)
       IN  /\ made' = made + k
           /\ pkt' = [pkt EXCEPT !.aw = @ + k]
           /\ r' = TX!ApplyPush(r1, pt.written)
           /\ head' = head + pt.written
           /\ wire' = pt.wire
           /\ inflight' = inflight + pt.sent
           /\ nospace' = (nospace \/ pt.short)
           /\ IF TX!FillContinues(rt = "OK", full2)
              THEN /\ fret' = rt /\ ffull' = full2
                   /\ UNCHANGED <<pc, fwd, drop>>
              ELSE /\ pc' = "tun"
                   /\ fret' = rt /\ ffull' = full2
                   /\ drop' = IF rt = "NOT_ENOUGH_SPACE"
                              THEN Drop(drop, pkt.len) ELSE drop
                   /\ fwd' = IF rt = "NOT_ENOUGH_SPACE"
                             THEN fwd ELSE Append(fwd, pkt.len)
    /\ UNCHANGED <<pkts, evOut>>

(* An event for the connection: the pending EPOLLOUT edge, or data from    *)
(* the peer.  Either way conn_io runs drain_ring on the tx ring, since     *)
(* `event | EPOLLOUT` is always true; the event reports every ready bit.   *)
ConnEvent(edge) ==
    /\ pc = "idle"
    /\ edge => evOut
    /\ pc' = "drain"
    /\ evOut' = FALSE
    /\ UNCHANGED <<r, head, made, pkt, fret, ffull, pkts, fwd, drop, wire,
                   inflight, nospace>>

(***************************************************************************)
(* conn_io: one pass of drain_ring with send_bl_batch.  The wrap of start, *)
(* the break on an empty ring, or a send of the contiguous span: EAGAIN   *)
(* ends the loop (EXHAUSTED), a send that queued bytes says OK and the    *)
(* loop goes on from where the tracker says.                               *)
(***************************************************************************)
DrainWrapTx ==
    /\ pc = "drain"
    /\ TX!DrainWrapsStart(r)
    /\ r' = TX!DrainWrap(r)
    /\ UNCHANGED <<pc, head, made, pkt, fret, ffull, pkts, fwd, drop, wire,
                   inflight, nospace, evOut>>

DrainEnd ==
    /\ pc = "drain"
    /\ TX!DrainBreaks(r)
    /\ pc' = "idle"
    /\ UNCHANGED <<r, head, made, pkt, fret, ffull, pkts, fwd, drop, wire,
                   inflight, nospace, evOut>>

DrainSend ==
    /\ pc = "drain"
    /\ ~TX!DrainWrapsStart(r) /\ ~TX!DrainBreaks(r)
    /\ Len(wire) < MaxWire
    /\ LET span == TX!DrainSpan(r)
           s    == Accepts(inflight, span)
       IN  IF s = 0
           THEN /\ pc' = "idle"
                /\ nospace' = TRUE
                /\ UNCHANGED <<r, head, wire, inflight>>
           ELSE /\ wire' = wire \o Ids(head, s)
                /\ inflight' = inflight + s
                /\ nospace' = (nospace \/ s < span)
                /\ r' = TX!Consume(r, Tracked(s))
                /\ head' = head + Tracked(s)
                /\ UNCHANGED pc
    /\ UNCHANGED <<made, pkt, fret, ffull, pkts, fwd, drop, evOut>>

(* The peer reads k bytes; room after a send that was short raises the     *)
(* connection's EPOLLOUT edge.                                             *)
PeerRead ==
    /\ inflight > 0
    /\ \E k \in 1 .. inflight : inflight' = inflight - k
    /\ evOut' = (evOut \/ nospace)
    /\ nospace' = FALSE
    /\ UNCHANGED <<pc, r, head, made, pkt, fret, ffull, pkts, fwd, drop, wire>>

Next ==
    \/ TunEvent \/ TunRead \/ TunDone
    \/ FillWrapTx \/ FillPassTx
    \/ \E edge \in BOOLEAN : ConnEvent(edge)
    \/ DrainWrapTx \/ DrainEnd \/ DrainSend
    \/ PeerRead

(***************************************************************************)
(* The event loop is one thread that returns to epoll_wait after every     *)
(* handler, so a loop in progress goes on and the tun read loop ends (the  *)
(* device holds finitely many packets).  epoll_wait returns every ready    *)
(* descriptor (up to 256), so a pending EPOLLOUT edge is delivered however *)
(* often other events come between: strong fairness.  The peer is assumed  *)
(* to keep reading its socket.  New tun packets and data from the peer     *)
(* are inputs and need not happen.                                         *)
(***************************************************************************)
Fairness ==
    /\ WF_vars(TunDone)
    /\ WF_vars(FillWrapTx) /\ WF_vars(FillPassTx)
    /\ SF_vars(ConnEvent(TRUE))
    /\ WF_vars(DrainWrapTx) /\ WF_vars(DrainEnd) /\ WF_vars(DrainSend)
    /\ WF_vars(PeerRead)

Spec == Init /\ [][Next]_vars /\ Fairness

-----------------------------------------------------------------------------

TypeOK ==
    /\ pc \in {"idle", "tun", "fill", "drain"}
    /\ r \in TX!Rings
    /\ head \in Nat /\ made \in Nat
    /\ pkt \in [len : Nat, aw : Nat]
    /\ fret \in {"OK", "EXHAUSTED", "NOT_ENOUGH_SPACE"}
    /\ ffull \in BOOLEAN /\ nospace \in BOOLEAN /\ evOut \in BOOLEAN
    /\ pkts \in Seq(Lens) /\ fwd \in Seq(Nat)
    /\ drop \in [p : Nat, b : Nat]
    /\ wire \in Seq(Nat)
    /\ inflight \in 0 .. Window

(***************************************************************************)
(* The socket carries the bytes copied into the tx ring exactly once and   *)
(* in order, whether they went out through write_passthru_to_conn at once  *)
(* or later through drain_ring: the bytes accepted are 1 .. head, and the  *)
(* tx ring holds the rest of what was copied.                              *)
(***************************************************************************)
WireInOrderOnce ==
    /\ wire = Ids(0, head)
    /\ head + TX!Occupied(r) = made

(***************************************************************************)
(* Every packet read from tun is either copied whole into the tx ring or   *)
(* dropped and counted in c_world_tx (drop_p and drop_b), never partly     *)
(* copied, whether it had no connection or the ring had no room.           *)
(***************************************************************************)
PacketsAccounted ==
    pc # "fill" =>
        /\ Len(pkts) = Len(fwd) + drop.p
        /\ SumSeq(pkts) = SumSeq(fwd) + drop.b
        /\ made = SumSeq(fwd)

(***************************************************************************)
(* Under edge-triggered epoll, every byte copied into the tx ring is       *)
(* eventually accepted by the socket: bytes left in the ring are always    *)
(* followed by an EPOLLOUT edge or drained by the loop that left them.     *)
(***************************************************************************)
ForwardedEventuallySent ==
    \A n \in 1 .. MaxPkts * Max(Lens) : (made >= n) ~> (Len(wire) >= n)
====
