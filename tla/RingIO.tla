------------------------------- MODULE RingIO -------------------------------
(***************************************************************************)
(* One ring buffer of io.c driven by drain_ring and fill_ring, one loop    *)
(* iteration per step, with io handlers and data pushers that keep the     *)
(* io_handler_fn_t contract (io.c 742-745): a handler advances the         *)
(* tracker it is given by the bytes it moved, never past the span it was   *)
(* shown, and says OK only when it moved some; a pusher reports how many   *)
(* bytes it took from the head of the occupied spans.  The event loop is   *)
(* single-threaded, so while a loop runs nothing else touches the ring:    *)
(* the Start actions are enabled only when op = "idle".                    *)
(*                                                                         *)
(* The handlers io.c really passes are modelled with their callers; this   *)
(* module checks the ring arithmetic against RingFifo, the queue it must   *)
(* implement.                                                              *)
(***************************************************************************)
EXTENDS Integers, Sequences

CONSTANTS Sz,          \* ring capacity
          MaxBytes     \* bound on the bytes ever written into the ring

VARIABLES r,           \* [start, end, wraped]
          buff,        \* slot -> byte number, Free where no byte is kept
          op,          \* "idle", "drain", "fill" (no pusher), "fillpush"
          full,        \* fill_ring's local `full`
          written      \* bytes ever produced into the ring (byte numbers)

vars == <<r, buff, op, full, written>>

INSTANCE Ring

Free == 0

MinOf(a, b) == IF a <= b THEN a ELSE b

(* Slots s of the k bytes a consumer takes from the head are released.     *)
Release(b, ring, k) ==
    [s \in Slots |-> IF \E i \in 1 .. k : SlotOf(ring, i) = s THEN Free ELSE b[s]]

(* The handler stores k fresh bytes at [end, end + k).                     *)
Store(b, ring, k) ==
    [s \in Slots |-> IF ring.end <= s /\ s < ring.end + k
                     THEN written + (s - ring.end) + 1 ELSE b[s]]

Init ==
    /\ r = InitRing
    /\ buff = [s \in Slots |-> Free]
    /\ op = "idle"
    /\ full = FALSE
    /\ written = 0

(* A call of drain_ring (ret starts as CONN_IO_OK).                        *)
StartDrain ==
    /\ op = "idle"
    /\ op' = "drain"
    /\ UNCHANGED <<r, buff, full, written>>

(* A call of fill_ring, with a data pusher or with NULL (full = 0).        *)
StartFill(pusher) ==
    /\ op = "idle"
    /\ op' = IF pusher THEN "fillpush" ELSE "fill"
    /\ full' = FALSE
    /\ UNCHANGED <<r, buff, written>>

(* One pass of drain_ring's loop body.                                     *)
DrainIter ==
    /\ op = "drain"
    /\ \/ /\ DrainWrapsStart(r)
          /\ r' = DrainWrap(r)
          /\ UNCHANGED <<buff, op>>
       \/ /\ DrainBreaks(r)
          /\ op' = "idle"
          /\ UNCHANGED <<r, buff>>
       \/ /\ ~DrainWrapsStart(r) /\ ~DrainBreaks(r)
          /\ \E k \in 0 .. DrainSpan(r), ok \in BOOLEAN :
                /\ ok => k >= 1
                /\ r' = Consume(r, k)
                /\ buff' = Release(buff, r, k)
                /\ op' = IF ok THEN "drain" ELSE "idle"
    /\ UNCHANGED <<full, written>>

(* One pass of fill_ring's loop body: handler, then pusher if there is one.*)
FillIter ==
    /\ op \in {"fill", "fillpush"}
    /\ \/ /\ FillWrapsEnd(r)
          /\ r' = FillWrap(r)
          /\ UNCHANGED <<buff, op, full, written>>
       \/ /\ ~FillWrapsEnd(r)
          /\ \E k \in 0 .. MinOf(FillSpan(r), MaxBytes - written), ok \in BOOLEAN :
                LET full1 == full \/ FillSeesFull(r)
                    r1    == Produce(r, k)
                    b1    == Store(buff, r, k)
                IN  /\ ok => k >= 1
                    /\ written' = written + k
                    /\ \/ /\ op = "fill"
                          /\ r' = r1
                          /\ buff' = b1
                          /\ full' = full1
                       \/ /\ op = "fillpush"
                          /\ \E moved \in 0 .. Occupied(r1) :
                                /\ r' = ApplyPush(r1, moved)
                                /\ buff' = Release(b1, r1, moved)
                                /\ full' = (full1 /\ moved = 0)
                    /\ op' = IF FillContinues(ok, full') THEN op ELSE "idle"

Next ==
    \/ StartDrain
    \/ \E p \in BOOLEAN : StartFill(p)
    \/ DrainIter
    \/ FillIter

(* The loops run to completion on the event-loop thread: weak fairness of  *)
(* their iterations.                                                       *)
Spec == Init /\ [][Next]_vars /\ WF_vars(DrainIter) /\ WF_vars(FillIter)

-----------------------------------------------------------------------------
TypeOK ==
    /\ r \in Rings
    /\ buff \in [Slots -> 0 .. MaxBytes]
    /\ op \in {"idle", "drain", "fill", "fillpush"}
    /\ full \in BOOLEAN
    /\ written \in 0 .. MaxBytes

(* The ring implements a bounded FIFO: the bytes between start and end,    *)
(* read across the wrap, are exactly the bytes produced and not yet taken, *)
(* in production order, never more than Sz of them.  Breaks if drain_ring  *)
(* or a pusher moves start wrongly across the wrap or fill_ring hands out  *)
(* a span that overlaps queued bytes.                                      *)
Fifo == INSTANCE RingFifo WITH q <- Content(r, buff), in <- written,
                               Capacity <- Sz
FifoRefinement == Fifo!Spec

(* Every drain_ring call returns: with handlers that keep the contract the *)
(* loop's wrap-around of start cannot repeat without progress.             *)
DrainTerminates == (op = "drain") ~> (op = "idle")

(* Every fill_ring call without a pusher returns (the tun backlog is filled *)
(* that way by push_pkt_to_tun_backlog_ring).                              *)
FillTerminates == (op = "fill") ~> (op = "idle")

=============================================================================
