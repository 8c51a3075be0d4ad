------------------------------ MODULE ReadRanges ------------------------------
(***************************************************************************)
(* Line ranges <<first, last>> of a file, and the test of completion.py    *)
(* whether the ranges the agent has read cover the range a document cites. *)
(***************************************************************************)
EXTENDS Integers, Sequences

LOCAL INSTANCE SequencesExt

Lines(r) == r[1]..r[2]

Precedes(a, b) == a[1] < b[1] \/ (a[1] = b[1] /\ a[2] <= b[2])

\* One turn of the loop: need is the first line not covered so far, and a range
\* that starts behind it leaves a gap no later range can close.
Turn(sweep, r) ==
    IF sweep.gap \/ r[2] < sweep.need THEN sweep
    ELSE IF r[1] > sweep.need THEN [sweep EXCEPT !.gap = TRUE]
    ELSE [sweep EXCEPT !.need = r[2] + 1]

\* _ranges_cover: the ranges in order, swept from the first line required.  The
\* loop stops at the first range that reaches the end; the rest cannot undo it.
RangesCover(required, ranges) ==
    LET swept == FoldLeft(Turn, [need |-> required[1], gap |-> FALSE],
                          SetToSortSeq(ranges, Precedes))
    IN swept.need > required[2]

\* The reference: every required line was read.
EveryLineRead(required, ranges) ==
    \A l \in Lines(required) : \E r \in ranges : l \in Lines(r)
===============================================================================
