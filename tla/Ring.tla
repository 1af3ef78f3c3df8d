-------------------------------- MODULE Ring --------------------------------
(***************************************************************************)
(* The ring buffer of src/src/io.c (struct ring_buff_s) and the index      *)
(* arithmetic of its two loops, drain_ring and fill_ring, one loop         *)
(* iteration per operator.  A ring is a record                             *)
(*     [start |-> s, end |-> e, wraped |-> w]                              *)
(* over a byte region of Sz slots numbered 0 .. Sz-1; the bytes themselves *)
(* are kept by the specifications that use this module.                    *)
(***************************************************************************)
EXTENDS Integers, Sequences

CONSTANT Sz            \* ring_buff_s.sz, the capacity in bytes

Slots == 0 .. Sz - 1

Rings == [start : 0 .. Sz, end : 0 .. Sz, wraped : BOOLEAN]

(* init_backlog_ring: start = end = 0, not wrapped.                        *)
InitRing == [start |-> 0, end |-> 0, wraped |-> FALSE]

(* ring_empty: the test the code uses for "nothing queued".                *)
RingEmpty(r) == ~r.wraped /\ r.start = r.end

(* The number of bytes in [start, end), or [start, sz) u [0, end).         *)
Occupied(r) == IF r.wraped THEN (Sz - r.start) + r.end ELSE r.end - r.start

(* The slot holding the i-th occupied byte, i in 1 .. Occupied(r).         *)
SlotOf(r, i) == (r.start + i - 1) % Sz

(* The bytes the ring holds, oldest first.                                 *)
Content(r, buff) == [i \in 1 .. Occupied(r) |-> buff[SlotOf(r, i)]]

(***************************************************************************)
(* drain_ring.  One pass of its do-while body is one of: the wrap-around   *)
(* of start (then `continue`), the break on an empty unwrapped ring, or a  *)
(* call of the io handler on the contiguous occupied span [start, limit)   *)
(* together with the length of the span past the wrap.                     *)
(***************************************************************************)
DrainWrapsStart(r) == r.wraped /\ r.start = Sz

DrainBreaks(r) == ~r.wraped /\ r.end = r.start

DrainSpan(r) == IF r.wraped THEN Sz - r.start ELSE r.end - r.start

DrainExtra(r) == IF r.wraped THEN r.end ELSE 0

(* Seeded fault: the wrap-around of start forgets to clear wraped.         *)
DrainWrapKeepsFlag(r) == [r EXCEPT !.start = 0]

DrainWrap(r) == [r EXCEPT !.start = 0, !.wraped = FALSE]

(* The handler advanced start by k bytes through its tracker.              *)
Consume(r, k) == [r EXCEPT !.start = @ + k]

(***************************************************************************)
(* fill_ring.  One pass is the wrap-around of end (then `continue`), or a  *)
(* call of the io handler on the contiguous free span [end, limit), the    *)
(* length past the wrap it may count on for an atomic write, and then the  *)
(* data pusher on the occupied spans.  `full` is the loop's local flag:    *)
(* set when a pass starts on a wrapped ring with start = end, cleared only *)
(* by a pusher that moved bytes; the loop goes on while the handler said   *)
(* OK or full is set.                                                      *)
(***************************************************************************)
FillWrapsEnd(r) == ~r.wraped /\ r.end = Sz

FillWrap(r) == [r EXCEPT !.end = 0, !.wraped = TRUE]

FillSeesFull(r) == r.wraped /\ r.start = r.end

FillSpan(r) == IF r.wraped THEN r.start - r.end ELSE Sz - r.end

FillExtra(r) == IF r.wraped THEN 0 ELSE r.start

(* Seeded fault: end is advanced one byte past what the handler wrote.    *)
ProduceOverrun(r, k) == [r EXCEPT !.end = @ + k + 1]

(* The handler advanced end by k bytes through its tracker.                *)
Produce(r, k) == [r EXCEPT !.end = @ + k]

(* The spans handed to the data pusher: <<len1, len2>>.                    *)
PushSpans(r) ==
    IF r.wraped THEN <<Sz - r.start, r.end>> ELSE <<r.end - r.start, 0>>

(* Seeded fault: a push that crosses the wrap leaves wraped set.           *)
ApplyPushKeepsWrap(r, moved) ==
    LET len1 == PushSpans(r)[1]
    IN  IF moved <= 0 THEN r
        ELSE IF r.wraped /\ moved > len1
             THEN [r EXCEPT !.start = moved - len1]
             ELSE [r EXCEPT !.start = @ + moved]

(* The pusher reported `moved` bytes taken from the head of the spans.     *)
ApplyPush(r, moved) ==
    LET len1 == PushSpans(r)[1]
    IN  IF moved <= 0 THEN r
        ELSE IF r.wraped /\ moved > len1
             THEN [r EXCEPT !.start = moved - len1, !.wraped = FALSE]
             ELSE [r EXCEPT !.start = @ + moved]

(* The loop condition of fill_ring: `while ((ret == OK) || full)`.         *)
FillContinues(okRet, full) == okRet \/ full
=============================================================================
