---------------------------- MODULE MCViewChange ----------------------------
(* ViewChange for TLC: four nodes, f = 1, Alpha leads view 0.  Either Alpha *)
(* may crash and come back, or Beta and Gamma find the master slow while    *)
(* Delta is faulty, or Beta alone does and votes again and again.           *)
EXTENDS ViewChange, TLC

CONSTANTS Alpha, Beta, Gamma, Delta

SameOrdered == [n \in Nodes |-> 0]
OneInstance == {[instances |-> 1, up |-> Nodes, late |-> {}]}
Trouble ==
    {[crash |-> {Alpha}, slow |-> {}, faulty |-> {}, coolDowns |-> 0],
     [crash |-> {}, slow |-> {Beta, Gamma}, faulty |-> {Delta}, coolDowns |-> 0],
     [crash |-> {}, slow |-> {Beta}, faulty |-> {Delta}, coolDowns |-> 1]}
=============================================================================
