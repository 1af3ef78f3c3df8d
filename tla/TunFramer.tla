------------------------------ MODULE TunFramer ------------------------------
(***************************************************************************)
(* The receive path of one connection in io.c: conn_io's EPOLLIN branch    *)
(* runs fill_ring on the connection's rx ring with recv_batch as the io    *)
(* handler and push_to_tun as the data pusher (io.c 988-996).  push_to_tun *)
(* frames IPv4 packets out of the two occupied spans with                  *)
(* parse_l3_packet_len and hands each packet to push_pkt_to_tun_or_ring,   *)
(* which writes it to the tun device, or, when the device would block or   *)
(* the tun backlog already holds data, appends it to the backlog ring      *)
(* through fill_ring with playback_tun_write_buf.                          *)
(*                                                                         *)
(* Bytes are identified by their position in the peer's TCP stream; the   *)
(* stream is the concatenation of the packets the peer sent.  A packet is *)
(* a 4-byte header [version, TOS, length high, length low] in base Radix   *)
(* (256 in the code) followed by zero bytes.  One step is one pass of      *)
(* fill_ring's loop up to the pusher's first parse, or one iteration of    *)
(* push_to_tun_ipv4's loop; the backlog append is one step, since nothing *)
(* else runs on the event-loop thread while it happens.                    *)
(*                                                                         *)
(* halt records how the process or the connection ended: "abort" (a       *)
(* failed assert), "crash" (a NULL dereference in an NDEBUG build),        *)
(* "hang" (fill_ring on the backlog spinning forever), "closed" (the       *)
(* connection destroyed on CONN_KILL).  Nothing happens after a halt.      *)
(***************************************************************************)
EXTENDS Integers, Sequences, SequencesExt

CONSTANTS Radix,           \* values of one byte (256)
          VerByte,         \* the first header byte of an IPv4 packet (0x45)
          Lens,            \* the packet lengths the peer sends
          MaxPkts,         \* bound on the packets the peer sends
          Sz,              \* CONN_RING_SZ, the rx ring's capacity
          TunSz,           \* TUN_RING_SZ, the tun backlog's capacity
          MaxTunErrors,    \* bound on failed writev calls to the tun device
          AssertsOn,       \* FALSE for an NDEBUG build
          RecvAdvancesEnd  \* FALSE: recv_batch as written (`end += rcvd`)

VARIABLES sent,     \* lengths of the packets the peer has written, in order
          rcvd,     \* stream bytes recv has returned
          taken,    \* stream bytes the pusher has taken out of the rx ring
          r,        \* the rx ring d.conn.rx
          rfull,    \* fill_ring's local `full` on the rx ring
          ret,      \* the last return of recv_batch: "OK", "EXHAUSTED", "KILL", "ERR"
          pc,       \* "idle", "recv" (fill_ring loop top), "push" (ipv4 loop)
          lp,       \* push_to_tun_ipv4's locals b1, len1, b2, len2, overall, full
          br,       \* the shared tun backlog ring ctx->tun_tx
          queued,   \* the chunks stored in the backlog, in order
          tun,      \* the chunks written to the tun device, in order
          errs,     \* failed writev calls so far
          misread,  \* a header was read from the wrong bytes and acted upon
          halt

vars == <<sent, rcvd, taken, r, rfull, ret, pc, lp, br, queued, tun, errs,
          misread, halt>>

RX == INSTANCE Ring WITH Sz <- Sz
TB == INSTANCE Ring WITH Sz <- TunSz

MinOf(a, b) == IF a <= b THEN a ELSE b

SumSeq(s) == FoldLeft(LAMBDA a, b : a + b, 0, s)

(* The bytes of a packet of length L: the header, then the payload.        *)
FrameByte(L, o) ==
    CASE o = 0 -> VerByte
      [] o = 2 -> L \div Radix
      [] o = 3 -> L % Radix
      [] OTHER -> 0

Stream == FlattenSeq([j \in DOMAIN sent |->
                        [o \in 1 .. sent[j] |-> FrameByte(sent[j], o - 1)]])

(* A position past the bytes received stands for a stale slot of the      *)
(* ring; it reads as 0.                                                    *)
Byte(p) == IF p \in DOMAIN Stream THEN Stream[p] ELSE 0

(* n consecutive stream positions from p.                                  *)
Positions(p, n) == [i \in 1 .. n |-> p + i - 1]

PacketStart(j) == 1 + SumSeq(SubSeq(sent, 1, j - 1))

Packet(j) == Positions(PacketStart(j), sent[j])

(***************************************************************************)
(* parse_l3_packet_len on the spans at stream positions b1 and b2, with    *)
(* the little-endian 16-bit loads and the ntohs of an x86 build.  Only the *)
(* first branch reads bytes 2 and 3 of the header: with len1 = 3 the two   *)
(* bytes come out swapped, and with len1 < 2 the load from b2 reads bytes  *)
(* 2 - len1 .. 3 - len1 of the header.                                     *)
(***************************************************************************)
(* Seeded fault: the first branch loads the 16 bits at b1, the version   *)
(* and TOS bytes, instead of those at b1 + 2.                              *)
ParseFromStart(b1, len1, b2, len2) ==
    CASE len1 >= 4 -> Radix * Byte(b1) + Byte(b1 + 1)
      [] len1 = 3 /\ len2 >= 1 -> Radix * Byte(b2) + Byte(b1 + 2)
      [] len1 <= 2 /\ len1 + len2 >= 4 -> Radix * Byte(b2) + Byte(b2 + 1)
      [] OTHER -> 0

Parse(b1, len1, b2, len2) ==
    CASE len1 >= 4 -> Radix * Byte(b1 + 2) + Byte(b1 + 3)
      [] len1 = 3 /\ len2 >= 1 -> Radix * Byte(b2) + Byte(b1 + 2)
      [] len1 <= 2 /\ len1 + len2 >= 4 -> Radix * Byte(b2) + Byte(b2 + 1)
      [] OTHER -> 0

(* The branches of parse_l3_packet_len that do not read header bytes 2, 3. *)
WrongBranch(l) ==
    \/ l.len1 = 3 /\ l.len2 >= 1
    \/ l.len1 \in {0, 1} /\ l.len1 + l.len2 >= 4

(***************************************************************************)
(* playback_tun_write_buf (with playback_tun_write_single_src_buf) for a   *)
(* packet of rem bytes, shown a free span and a promised length: nothing   *)
(* unless the whole packet fits in both, else as much as the span takes;   *)
(* OK while bytes remain.                                                  *)
(***************************************************************************)
PlaybackFits(rem, span, prom) == rem <= span + prom

PlaybackLen(rem, span, prom) ==
    IF PlaybackFits(rem, span, prom) THEN MinOf(rem, span) ELSE 0

PlaybackOK(rem, span, prom) ==
    PlaybackFits(rem, span, prom) /\ rem - MinOf(rem, span) > 0

(***************************************************************************)
(* fill_ring(-1, backlog, playback_tun_write_buf, NULL, ...) for a packet *)
(* of rem bytes: the ring, the bytes not stored, and whether the loop     *)
(* spins forever.  With a NULL pusher `full` is never cleared, so once a  *)
(* pass sees a full ring the loop runs until a pass leaves the ring as it *)
(* found it, and from then on repeats that pass.                           *)
(***************************************************************************)
RECURSIVE BacklogFill(_, _, _)
BacklogFill(b, rem, full) ==
    IF TB!FillWrapsEnd(b) THEN BacklogFill(TB!FillWrap(b), rem, full)
    ELSE LET fl   == full \/ TB!FillSeesFull(b)
             w    == PlaybackLen(rem, TB!FillSpan(b), TB!FillExtra(b))
             more == PlaybackOK(rem, TB!FillSpan(b), TB!FillExtra(b))
         IN  IF ~(more \/ fl)
             THEN [ring |-> TB!Produce(b, w), rem |-> rem - w, hang |-> FALSE]
             ELSE IF fl /\ w = 0
             THEN [ring |-> b, rem |-> rem, hang |-> TRUE]
             ELSE BacklogFill(TB!Produce(b, w), rem - w, fl)

(* Seeded fault: the backlog push reports the packet taken even when the   *)
(* backlog did not store it.                                               *)
BacklogPushedIgnoresRemaining(rem, total) == total

(* push_pkt_to_tun_backlog_ring's result: 0 unless nothing remains.        *)
BacklogPushed(rem, total) == IF rem # 0 THEN 0 ELSE total

(***************************************************************************)
(* The results of push_pkt_to_tun_or_ring for chunk c, as records of what *)
(* it returns, sets through *full, and leaves in the tun device, the       *)
(* backlog and the halt state.                                             *)
(***************************************************************************)
ToBacklog(c) ==
    LET f == BacklogFill(br, Len(c), FALSE)
        n == BacklogPushed(f.rem, Len(c))
    IN  [pushed |-> n, full |-> f.rem # 0, tun |-> tun, br |-> f.ring,
         queued |-> IF f.rem = 0 THEN Append(queued, c) ELSE queued,
         errs |-> errs,
         halt |-> CASE f.hang -> "hang"
                    [] AssertsOn /\ f.rem # 0 /\ f.rem # Len(c) -> "abort"
                    [] OTHER -> halt]

Written(c) ==
    [pushed |-> Len(c), full |-> FALSE, tun |-> Append(tun, c), br |-> br,
     queued |-> queued, errs |-> errs, halt |-> halt]

WriteFailed ==
    [pushed |-> 0, full |-> FALSE, tun |-> tun, br |-> br, queued |-> queued,
     errs |-> errs + 1, halt |-> halt]

TunPush(c) ==
    IF TB!RingEmpty(br)
    THEN {Written(c), ToBacklog(c)}
         \cup (IF errs < MaxTunErrors THEN {WriteFailed} ELSE {})
    ELSE {ToBacklog(c)}

Init ==
    /\ sent = <<>>
    /\ rcvd = 0
    /\ taken = 0
    /\ r = RX!InitRing
    /\ rfull = FALSE
    /\ ret = "OK"
    /\ pc = "idle"
    /\ lp = [b1 |-> 1, len1 |-> 0, b2 |-> 1, len2 |-> 0, overall |-> 0,
             full |-> FALSE]
    /\ br = TB!InitRing
    /\ queued = <<>>
    /\ tun = <<>>
    /\ errs = 0
    /\ misread = FALSE
    /\ halt = "running"

(* The peer writes one more packet into the TCP stream.                    *)
Send ==
    /\ Len(sent) < MaxPkts
    /\ \E L \in Lens : sent' = Append(sent, L)
    /\ UNCHANGED <<rcvd, taken, r, rfull, ret, pc, lp, br, queued, tun, errs,
                   misread, halt>>

(* conn_io is called for the connection; `event | EPOLLIN` is always true, *)
(* so fill_ring starts on the rx ring with ret = OK and full = 0.          *)
ConnIoIn ==
    /\ halt = "running"
    /\ pc = "idle"
    /\ pc' = "recv"
    /\ rfull' = FALSE
    /\ ret' = "OK"
    /\ UNCHANGED <<sent, rcvd, taken, r, lp, br, queued, tun, errs, misread,
                   halt>>

(***************************************************************************)
(* The end of a fill_ring pass after the pusher returned `moved` bytes of *)
(* ring rr: the head advances, `full` is cleared by a positive move, and   *)
(* the loop goes on while ret is OK or full is set.  On leaving with       *)
(* CONN_KILL conn_io destroys the connection.                              *)
(***************************************************************************)
PassEnd(rr, moved, rt, fl) ==
    LET full2 == fl /\ ~(moved > 0)
    IN  /\ r' = RX!ApplyPush(rr, moved)
        /\ taken' = taken + moved
        /\ rfull' = full2
        /\ ret' = rt
        /\ IF RX!FillContinues(rt = "OK", full2)
           THEN pc' = "recv" /\ halt' = halt
           ELSE pc' = "idle" /\ halt' = IF rt = "KILL" THEN "closed" ELSE halt

(***************************************************************************)
(* push_to_tun on the spans of ring rr: the assert that there is data,     *)
(* the version of the first byte, then the ipv4 loop's entry with the      *)
(* spans normalised so that b1 is the non-empty one.                       *)
(***************************************************************************)
PushToTun(rr, rt, fl) ==
    LET len1 == RX!PushSpans(rr)[1]
        len2 == RX!PushSpans(rr)[2]
    IN  IF len1 + len2 = 0
        THEN /\ halt' = IF AssertsOn THEN "abort" ELSE "crash"
             /\ r' = rr
             /\ UNCHANGED <<taken, rfull, ret, pc, lp>>
        ELSE IF Byte(taken + 1) = VerByte
        THEN /\ pc' = "push"
             /\ lp' = [b1 |-> taken + 1, len1 |-> IF len1 > 0 THEN len1 ELSE len2,
                       b2 |-> taken + 1 + len1, len2 |-> IF len1 > 0 THEN len2 ELSE 0,
                       overall |-> 0, full |-> FALSE]
             /\ r' = rr
             /\ rfull' = fl
             /\ ret' = rt
             /\ UNCHANGED <<taken, halt>>
        ELSE PassEnd(rr, 0, rt, fl) /\ UNCHANGED lp

(* recv_batch's outcomes on a free span of `span` bytes.                   *)
RecvOutcomes(span) ==
    IF span = 0 THEN {[ret |-> "KILL", k |-> 0]}
    ELSE {[ret |-> "OK", k |-> k] : k \in 1 .. MinOf(span, Len(Stream) - rcvd)}
         \cup {[ret |-> rt, k |-> 0] : rt \in {"EXHAUSTED", "KILL", "ERR"}}

(* recv_batch's store on success: `end += rcvd` moves a local copy of the  *)
(* tracker, so the ring's end is left where it was.                        *)
RecvStore(rr, k) == IF RecvAdvancesEnd /\ k > 0 THEN RX!Produce(rr, k) ELSE rr

(***************************************************************************)
(* One pass of fill_ring on the rx ring: the wrap of end, or recv_batch   *)
(* on the free span followed by push_to_tun.                               *)
(***************************************************************************)
FillWrapRx ==
    /\ halt = "running"
    /\ pc = "recv"
    /\ RX!FillWrapsEnd(r)
    /\ r' = RX!FillWrap(r)
    /\ UNCHANGED <<sent, rcvd, taken, rfull, ret, pc, lp, br, queued, tun,
                   errs, misread, halt>>

FillPassRx ==
    /\ halt = "running"
    /\ pc = "recv"
    /\ ~RX!FillWrapsEnd(r)
    /\ \E o \in RecvOutcomes(RX!FillSpan(r)) :
          /\ rcvd' = rcvd + o.k
          /\ PushToTun(RecvStore(r, o.k), o.ret, rfull \/ RX!FillSeesFull(r))
    /\ UNCHANGED <<sent, br, queued, tun, errs, misread>>

(***************************************************************************)
(* The rest of a push_to_tun_ipv4 iteration after push_pkt_to_tun_or_ring  *)
(* returned res, with the loop's locals updated to l: overall_pushed grows *)
(* by what was pushed, and a set `full` ends the loop, returning           *)
(* overall_pushed to fill_ring.                                            *)
(***************************************************************************)
Pushed(res, l) ==
    LET l2 == [l EXCEPT !.overall = @ + res.pushed, !.full = @ \/ res.full]
    IN  /\ tun' = res.tun
        /\ br' = res.br
        /\ queued' = res.queued
        /\ errs' = res.errs
        /\ lp' = l2
        /\ IF res.halt # halt
           THEN halt' = res.halt /\ UNCHANGED <<r, taken, rfull, ret, pc>>
           ELSE IF l2.full
           THEN PassEnd(r, l2.overall, ret, rfull)
           ELSE UNCHANGED <<r, taken, rfull, ret, pc, halt>>

(* A packet wholly inside b1.                                              *)
PushWhole(L) ==
    \E res \in TunPush(Positions(lp.b1, L)) :
        Pushed(res, [lp EXCEPT !.len1 = @ - res.pushed, !.b1 = @ + res.pushed])

(* A packet that starts in b1 and ends in b2, with its assert.             *)
PushStraddle(L) ==
    LET rest == L - lp.len1
    IN  IF AssertsOn /\ lp.len2 - rest <= 0
        THEN /\ halt' = "abort"
             /\ UNCHANGED <<r, taken, rfull, ret, pc, lp, br, queued, tun, errs>>
        ELSE \E res \in TunPush(Positions(lp.b1, lp.len1) \o Positions(lp.b2, rest)) :
                Pushed(res, IF res.pushed > 0
                            THEN [lp EXCEPT !.len1 = 0, !.len2 = @ - rest,
                                            !.b2 = @ + rest]
                            ELSE lp)

(* One iteration of push_to_tun_ipv4's do-while loop.                      *)
PushIpv4 ==
    /\ halt = "running"
    /\ pc = "push"
    /\ LET L == Parse(lp.b1, lp.len1, lp.b2, lp.len2)
       IN  IF L = 0 \/ lp.len1 + lp.len2 < L
           THEN /\ PassEnd(r, lp.overall, ret, rfull)
                /\ UNCHANGED <<lp, br, queued, tun, errs, misread>>
           ELSE /\ misread' = (misread \/ WrongBranch(lp))
                /\ IF lp.len1 >= L THEN PushWhole(L) ELSE PushStraddle(L)
    /\ UNCHANGED <<sent, rcvd>>

Next ==
    \/ Send
    \/ ConnIoIn
    \/ FillWrapRx
    \/ FillPassRx
    \/ PushIpv4

Spec == Init /\ [][Next]_vars

-----------------------------------------------------------------------------

Chunks == tun \o queued

TypeOK ==
    /\ sent \in Seq(Lens) /\ Len(sent) <= MaxPkts
    /\ rcvd \in 0 .. Len(Stream) /\ taken \in 0 .. rcvd
    /\ r \in RX!Rings /\ br \in TB!Rings
    /\ rfull \in BOOLEAN /\ misread \in BOOLEAN
    /\ ret \in {"OK", "EXHAUSTED", "KILL", "ERR"}
    /\ pc \in {"idle", "recv", "push"}
    /\ errs \in 0 .. MaxTunErrors
    /\ halt \in {"running", "abort", "crash", "hang", "closed"}

(* The chunks handed to the tun device or its backlog are the packets the  *)
(* peer sent, whole and in order.                                          *)
FramesWholePackets(ch) ==
    \A j \in DOMAIN ch : j <= Len(sent) /\ ch[j] = Packet(j)

(***************************************************************************)
(* push_to_tun_ipv4 frames the stream: as long as every header it acted on *)
(* was read by the first branch of parse_l3_packet_len, every packet      *)
(* written to tun or queued in the backlog is exactly the next packet the  *)
(* peer sent, across ring wraps, straddles, tun errors and backlog          *)
(* rejections.                                                             *)
(***************************************************************************)
FramesWholePacketsUntilMisread == ~misread => FramesWholePackets(Chunks)

(***************************************************************************)
(* No byte is lost or duplicated between recv and the tun device: the     *)
(* bytes received are those still in the rx ring plus those the pusher    *)
(* took, and what the pusher took (the counts it returned to fill_ring,    *)
(* with overall_pushed while the ipv4 loop runs) is exactly what went to   *)
(* tun or into the backlog.                                                *)
(***************************************************************************)
BytesConserved ==
    /\ taken + RX!Occupied(r) = rcvd
    /\ SumSeq([j \in DOMAIN Chunks |-> Len(Chunks[j])])
          = taken + (IF pc = "push" THEN lp.overall ELSE 0)

(* The tun device gets whole packets: stated by the comment at io.c 862   *)
(* ("we don't want half-written packets") and by the framing loop.         *)
TunGetsWholePackets == FramesWholePackets(Chunks)

(* push_to_tun's assert(len1 + len2 > 0): the pusher is only called with  *)
(* data, and no assert of the receive path fails.                          *)
NoAbortOnReceive == halt \notin {"abort", "crash"}
====
