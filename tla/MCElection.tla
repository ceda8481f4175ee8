----------------------------- MODULE MCElection -----------------------------
(* Election for TLC: four nodes, f = 1, with the situations an election     *)
(* starts in: one instance and a node that connects late, two instances and *)
(* exactly 2f+1 nodes, or two instances and the whole pool.                 *)
EXTENDS Election, TLC

CONSTANTS Alpha, Beta, Gamma, Delta

\* Nodes with the same ledger.
SameOrdered == [n \in Nodes |-> 0]

OneLate == {[instances |-> 1, up |-> {Alpha, Beta, Gamma}, late |-> {Delta}]}
TwoInstances == {[instances |-> 2, up |-> {Alpha, Beta, Gamma}, late |-> {}]}
Situations == OneLate \cup TwoInstances
WholePool == {[instances |-> 2, up |-> Nodes, late |-> {}]}

\* The first three nodes are interchangeable.
Sym == Permutations({Alpha, Beta, Gamma})

\* Some of the behaviours of Spec: the nodes take turns, each in its turn
\* reading all it was sent, and random delays are longer than that.
First(S) ==
    LET order == <<Alpha, Beta, Gamma, Delta>>
    IN  order[CHOOSE k \in 1..4 : order[k] \in S /\ \A j \in 1..(k - 1) : order[j] \notin S]

Busy == {n \in conns : HasActions(el[n])}
Called == {n \in conns : \E s \in Nodes : chan[s][n] # <<>>}
Delayed == {n \in conns : el[n].delayed # {}}

Turn ==
    IF Busy # {} THEN RunActions(First(Busy))
    ELSE IF Called # {} THEN \E s \in Nodes : Receive(First(Called), s)
    ELSE IF Delayed # {} THEN \E i \in Insts : DelayOver(First(Delayed), i)
    ELSE \E n \in Nodes : \E i \in Insts : Timeout(n, i)

InTurns == Init /\ [][Turn]_evars
=============================================================================
