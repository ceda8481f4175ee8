----------------------------- MODULE TotalOrder -----------------------------
(***************************************************************************)
(* What a protocol instance promises to its nodes: there is one log of     *)
(* batches, and every replica hands its node the batches of that log in    *)
(* log order, without gap, repetition or batches nobody proposed.          *)
(***************************************************************************)
EXTENDS Integers, Sequences

CONSTANTS Replicas,     \* the replicas that follow the protocol
          Values        \* batches

VARIABLES log,          \* the batches proposed so far, in order
          delivered     \* delivered[r]: the batches r has handed to its node

Init == log = <<>> /\ delivered = [r \in Replicas |-> <<>>]

Propose(v) == log' = Append(log, v) /\ UNCHANGED delivered

Deliver(r, k) ==
    /\ k \in (Len(delivered[r]) + 1)..Len(log)
    /\ delivered' = [delivered EXCEPT ![r] = SubSeq(log, 1, k)]
    /\ UNCHANGED log

Next ==
    \/ \E v \in Values : Propose(v)
    \/ \E r \in Replicas : \E k \in 1..Len(log) : Deliver(r, k)

Spec == Init /\ [][Next]_<<log, delivered>>
=============================================================================
