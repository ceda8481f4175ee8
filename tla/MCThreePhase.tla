---------------------------- MODULE MCThreePhase ----------------------------
(***************************************************************************)
(* ThreePhase for TLC: four replicas, so that one fault is tolerated.      *)
(***************************************************************************)
EXTENDS ThreePhase, TLC

CONSTANTS p, a, b, d, q1, q2

Backups == Permutations({a, b})

Vote(n, o, q) == [type |-> "PREPARE", from |-> d, seq |-> n,
                  batch |-> [reqs |-> {q}, ok |-> o], stamp |-> 0]
Commit(n) == [type |-> "COMMIT", from |-> d, seq |-> n, stamp |-> 0]

\* Faulty backups: silent; voting for the first batch, truly or falsely; or
\* pushing the second batch ahead of the first with a COMMIT without ground.
Silent == {}
AnyFirst == {Commit(1)} \cup {Vote(1, o, q1) : o \in BOOLEAN}
SecondOnly == {Commit(2)}
=============================================================================
