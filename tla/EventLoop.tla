------------------------------ MODULE EventLoop ------------------------------
(***************************************************************************)
(* The event loop of io.c: io() (1187-1214) waits in epoll_wait with an    *)
(* infinite timeout, dispatches every returned event with handle_io_evt    *)
(* (1174-1183), then runs reset_peers if do_peer_reset is set, and tests   *)
(* do_stop before the next wait.  The two flags are plain static ints set  *)
(* by trigger_peer_reset and trigger_io_loop_stop (684-690), which the     *)
(* program's signal handlers call: a signal runs between any two steps of  *)
(* the loop, and one delivered while the thread is blocked in epoll_wait   *)
(* makes it return -1 (EINTR).                                              *)
(*                                                                         *)
(* The handlers are the other modules' business and are one step here,    *)
(* with the outcomes that matter to the loop: whether they return, and     *)
(* whether a connection is destroyed.  conn_io tests `event | EPOLLOUT`    *)
(* and `event | EPOLLIN`, which are always true, so both halves run on     *)
(* every event; a half that fails with CONN_KILL destroys the socket, and  *)
(* destroy_conn_sock_data asserts the removal of a live-map entry that     *)
(* never exists (no batab_put on live_sockets), so an assert build aborts. *)
(* tun_io's EPOLLOUT half drains the ring at d.conn.tx of the tun socket   *)
(* (1166): the constant TunDrainsConnTx chooses that, as written, or the   *)
(* tun backlog d.tun.tx.                                                    *)
(***************************************************************************)
EXTENDS Integers

CONSTANTS Tun, Lstn,        \* the tun socket and the listener
          Conns,            \* connection sockets
          MaxEnv,           \* bound on signals, connects and peer activity
          AssertsOn,        \* FALSE: built with NDEBUG
          TunDrainsConnTx,  \* TRUE: tun_io drains d.conn.tx, as written
          WBuffCapacity,    \* d.tun.w_buff.capacity at init (4096)
          WBuffLen,         \* d.tun.w_buff.len at init (0)
          WBuffCur          \* d.tun.w_buff.current_pkt_len at init (0)

VARIABLES pc,            \* where the loop thread is
          do_stop, do_peer_reset,
          ready,         \* sockets with an event epoll has not returned yet
          batch,         \* events returned by epoll_wait, not yet handled
          intr,          \* a signal arrived while blocked in epoll_wait
          cs,            \* connection socket: "none", "pending", "live", "freed"
          halt,          \* "none", "abort", or "uaf" (use after free)
          env,           \* environment steps taken
          owed,          \* a reload requested after reset_peers last read the file
          stopBlocked    \* a stop was requested while blocked in epoll_wait

vars == <<pc, do_stop, do_peer_reset, ready, batch, intr, cs, halt, env,
          owed, stopBlocked>>

Socks == {Tun, Lstn} \cup Conns

TX == INSTANCE Ring WITH Sz <- WBuffCapacity

(***************************************************************************)
(* The ring at d.conn.tx of the tun socket.  On LP64, d.conn.tx lies at    *)
(* bytes 64-104 of the union, over d.tun.r_buff.current_pkt_len and        *)
(* d.tun.w_buff: its start is w_buff.capacity, its end w_buff.len and its  *)
(* wraped flag w_buff.current_pkt_len.  Only write_to_tun writes w_buff,   *)
(* and only through this drain, so these keep their values from            *)
(* init_tun_tx_backlog_ring (303-305).                                     *)
(***************************************************************************)
ConnTxOfTun == [start |-> WBuffCapacity, end |-> WBuffLen,
                wraped |-> WBuffCur # 0]

(* The ring tun_io hands to drain_ring; the backlog d.tun.tx is filled by  *)
(* the framer and starts empty.                                            *)
TunRingDrained ==
    IF TunDrainsConnTx THEN ConnTxOfTun ELSE TX!InitRing

(* destroy_sock on a connection: the assert on batab_remove aborts an      *)
(* assert build; with NDEBUG the rings and the socket are freed.           *)
Destroyed(c) ==
    IF AssertsOn THEN [h |-> "abort", s |-> [cs EXCEPT ![c] = "live"]]
                 ELSE [h |-> "none", s |-> [cs EXCEPT ![c] = "freed"]]

(* Where io() goes when epoll_wait fails: on to the reload test.           *)
AfterWaitFailsRetry == "wait"
AfterWaitFails == "check"

Init ==
    /\ pc = "test"
    /\ do_stop = 0
    /\ do_peer_reset = 1
    /\ ready = {Tun}
    /\ batch = {}
    /\ intr = FALSE
    /\ cs = [c \in Conns |-> "none"]
    /\ halt = "none"
    /\ env = 0
    /\ owed = TRUE
    /\ stopBlocked = FALSE

-----------------------------------------------------------------------------
(* The environment: signals and sockets becoming ready.                    *)

EnvStep ==
    /\ halt = "none" /\ pc # "stopped" /\ env < MaxEnv
    /\ env' = env + 1

SignalReload ==
    /\ EnvStep
    /\ do_peer_reset' = 1
    /\ owed' = TRUE
    /\ intr' = (intr \/ pc = "wait")
    /\ UNCHANGED <<pc, do_stop, ready, batch, cs, halt, stopBlocked>>

SignalStop ==
    /\ EnvStep
    /\ do_stop' = 1
    /\ intr' = (intr \/ pc = "wait")
    /\ stopBlocked' = (stopBlocked \/ pc = "wait")
    /\ UNCHANGED <<pc, do_peer_reset, ready, batch, cs, halt, owed>>

(* A peer connects (the listener becomes readable), a live connection's    *)
(* peer sends, or a packet reaches the tun device.                         *)
Activity(s) ==
    /\ EnvStep
    /\ \/ s = Lstn /\ \E c \in Conns : cs[c] = "none"
                   /\ cs' = [cs EXCEPT ![c] = "pending"]
       \/ s \in Conns /\ cs[s] = "live" /\ UNCHANGED cs
       \/ s = Tun /\ UNCHANGED cs
    /\ ready' = ready \cup {s}
    /\ UNCHANGED <<pc, do_stop, do_peer_reset, batch, intr, halt, owed,
                   stopBlocked>>

-----------------------------------------------------------------------------
(* The loop thread.                                                        *)

Loop(from, to) == halt = "none" /\ pc = from /\ pc' = to

(* while (!do_stop)                                                        *)
Test ==
    /\ halt = "none" /\ pc = "test"
    /\ pc' = IF do_stop = 1 THEN "stopped" ELSE "call"
    /\ UNCHANGED <<do_stop, do_peer_reset, ready, batch, intr, cs, halt,
                   env, owed, stopBlocked>>

(* The thread enters epoll_wait; a signal before this point does not      *)
(* interrupt it.                                                           *)
Call ==
    /\ Loop("call", "wait")
    /\ UNCHANGED <<do_stop, do_peer_reset, ready, batch, intr, cs, halt,
                   env, owed, stopBlocked>>

Return ==
    /\ Loop("wait", "dispatch")
    /\ ready # {}
    /\ batch' = ready
    /\ ready' = {}
    /\ intr' = FALSE
    /\ UNCHANGED <<do_stop, do_peer_reset, cs, halt, env, owed, stopBlocked>>

(* epoll_wait returns -1 with EINTR: the loop logs and goes on.            *)
Interrupted ==
    /\ halt = "none" /\ pc = "wait" /\ intr
    /\ pc' = AfterWaitFails
    /\ intr' = FALSE
    /\ UNCHANGED <<do_stop, do_peer_reset, ready, batch, cs, halt, env,
                   owed, stopBlocked>>

(* handle_io_evt for the tun socket: tun_io runs drain_ring on             *)
(* TunRingDrained with write_to_tun, then read_tun_and_xmit.               *)
DispatchTun ==
    /\ Loop("dispatch", "tundrain")
    /\ Tun \in batch
    /\ batch' = batch \ {Tun}
    /\ UNCHANGED <<do_stop, do_peer_reset, ready, intr, cs, halt, env, owed,
                   stopBlocked>>

(***************************************************************************)
(* drain_ring leaves its loop when the ring it is given is empty.          *)
(* Otherwise it calls write_to_tun on end - start bytes; for d.conn.tx of  *)
(* the tun socket that is 0 - 4096, parse_l3_packet_len of a negative      *)
(* length is 0, nothing is written, and write_to_tun returns OK without    *)
(* moving *start: the next iteration is the same, so the loop changes no   *)
(* state from then on and the thread stays here.                           *)
(***************************************************************************)
TunIo ==
    /\ Loop("tundrain", "dispatch")
    /\ TX!DrainBreaks(TunRingDrained)
    /\ UNCHANGED <<do_stop, do_peer_reset, ready, batch, intr, cs, halt,
                   env, owed, stopBlocked>>

(* while (do_accept(sock)): every pending connection is accepted; its new  *)
(* socket is registered and gets its first EPOLLOUT edge.                  *)
DispatchLstn ==
    /\ Loop("dispatch", "dispatch")
    /\ Lstn \in batch
    /\ LET acc == {c \in Conns : cs[c] = "pending"}
       IN /\ cs' = [c \in Conns |-> IF c \in acc THEN "live" ELSE cs[c]]
          /\ ready' = ready \cup acc
    /\ batch' = batch \ {Lstn}
    /\ UNCHANGED <<do_stop, do_peer_reset, intr, halt, env, owed,
                   stopBlocked>>

(***************************************************************************)
(* conn_io: the EPOLLOUT half (drain_ring with send_bl_batch) and then the *)
(* EPOLLIN half (fill_ring with recv_batch), each of which may end in      *)
(* CONN_KILL and destroy_sock.  The EPOLLIN half runs on the socket even   *)
(* when the EPOLLOUT half has destroyed it.                                *)
(***************************************************************************)
DispatchConn(c) ==
    /\ halt = "none" /\ pc = "dispatch"
    /\ c \in batch
    /\ batch' = batch \ {c}
    /\ \E outKill, inKill \in BOOLEAN :
         LET out == IF outKill THEN Destroyed(c)
                               ELSE [h |-> "none", s |-> cs]
             in  == IF out.s[c] = "freed" THEN [h |-> "uaf", s |-> out.s]
                    ELSE IF inKill THEN Destroyed(c)
                    ELSE [h |-> "none", s |-> cs]
         IN IF out.h # "none"
              THEN halt' = out.h /\ cs' = out.s
              ELSE halt' = in.h /\ cs' = in.s
    /\ UNCHANGED <<pc, do_stop, do_peer_reset, ready, intr, env, owed,
                   stopBlocked>>

DispatchDone ==
    /\ Loop("dispatch", "check")
    /\ batch = {}
    /\ UNCHANGED <<do_stop, do_peer_reset, ready, batch, intr, cs, halt,
                   env, owed, stopBlocked>>

(* if (do_peer_reset)                                                      *)
Check ==
    /\ halt = "none" /\ pc = "check"
    /\ pc' = IF do_peer_reset = 1 THEN "reset" ELSE "test"
    /\ UNCHANGED <<do_stop, do_peer_reset, ready, batch, intr, cs, halt, env, owed,
                   stopBlocked>>

(* reset_peers reads the peer file (its effect on the peers is Peers').   *)
ResetPeers ==
    /\ Loop("reset", "clear")
    /\ owed' = FALSE
    /\ UNCHANGED <<do_stop, do_peer_reset, ready, batch, intr, cs, halt,
                   env, stopBlocked>>

(* do_peer_reset = 0, after reset_peers returns.                          *)
Clear ==
    /\ Loop("clear", "test")
    /\ do_peer_reset' = 0
    /\ UNCHANGED <<do_stop, ready, batch, intr, cs, halt, env, owed,
                   stopBlocked>>

LoopStep ==
    \/ Test \/ Call \/ Return \/ Interrupted
    \/ DispatchTun \/ TunIo \/ DispatchLstn \/ \E c \in Conns : DispatchConn(c)
    \/ DispatchDone \/ Check \/ ResetPeers \/ Clear

Next ==
    \/ LoopStep
    \/ SignalReload \/ SignalStop
    \/ \E s \in Socks : Activity(s)

(***************************************************************************)
(* One thread runs the loop and is never preempted for long: a signal      *)
(* handler only sets a flag.  epoll_wait returns once an event is ready or *)
(* a signal interrupts it.  Signals, connects and traffic are inputs and   *)
(* need not happen.                                                        *)
(***************************************************************************)
Spec == Init /\ [][Next]_vars /\ WF_vars(LoopStep)

-----------------------------------------------------------------------------

(***************************************************************************)
(* A reload requested by trigger_peer_reset is never forgotten: until      *)
(* reset_peers next reads the peer file, do_peer_reset stays set (or the   *)
(* reload is under way).  A signal between reset_peers reading the file    *)
(* and the clear at io.c 1206 is what could lose it.                       *)
(***************************************************************************)
ReloadRequestNotLost == owed => (do_peer_reset = 1 \/ pc = "reset")

(***************************************************************************)
(* After a batch of events, io() gets back to epoll_wait (or stops)       *)
(* unless an assert aborts it: the tun_io drain of 1166 returns.  With    *)
(* TunDrainsConnTx it drains d.conn.tx of the tun socket, never empty,    *)
(* and never returns.                                                      *)
(***************************************************************************)
BatchDispatched ==
    pc = "dispatch" ~> (pc \in {"call", "stopped"} \/ halt # "none")

(***************************************************************************)
(* A stop requested by trigger_io_loop_stop while the thread is blocked in *)
(* epoll_wait ends the loop: the signal interrupts the wait, and io()      *)
(* reaches the do_stop test.                                               *)
(***************************************************************************)
StopHonouredWhenBlocked ==
    stopBlocked ~> (pc = "stopped" \/ halt # "none")

====
