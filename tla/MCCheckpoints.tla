--------------------------- MODULE MCCheckpoints ---------------------------
(* Checkpoints for TLC: three correct replicas and a faulty one.            *)
EXTENDS Checkpoints, TLC

CONSTANTS Alpha, Beta, Gamma, Delta

\* A wrong digest of the first window and an early CHECKPOINT of the second.
FaultyChk == {[start |-> 1, digest |-> "wrong", from |-> Delta],
              [start |-> 3, digest |-> "right", from |-> Delta]}
Sym == Permutations(Correct)
=============================================================================
