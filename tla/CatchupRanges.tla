--------------------------- MODULE CatchupRanges ---------------------------
(***************************************************************************)
(* How missing transactions are divided into catch-up requests             *)
(* (plenum/common/ledger_manager.py).  A range [s |-> i, e |-> j] stands   *)
(* for the transactions i, i + 1, ..., j.                                  *)
(***************************************************************************)
EXTENDS Integers, Sequences

\* math.ceil(a / b) for an integer a and a positive b.
Ceil(a, b) == -((-a) \div b)

Smaller(a, b) == IF a < b THEN a ELSE b

\* addReqsForMissing: the numbers frm..to in pieces of batchSize; no piece when
\* there is nothing between frm and to.
addReqsForMissing(frm, to, batchSize) ==
    [i \in 1..Ceil(to - frm + 1, batchSize) |->
        [s |-> frm + (i - 1) * batchSize,
         e |-> Smaller(to, frm + i * batchSize - 1)]]

\* getCatchupReqs: at most one piece per connected node, an empty one when there
\* is nothing to ask for.
getCatchupReqs(start, end, nodeCount) ==
    IF start = end THEN <<[s |-> start + 1, e |-> end]>>
    ELSE addReqsForMissing(start + 1, end, Ceil(end - start, nodeCount))

=============================================================================
