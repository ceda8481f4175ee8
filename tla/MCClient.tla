------------------------------ MODULE MCClient ------------------------------
(* Client for TLC: four nodes, one of them faulty.  The correct nodes are   *)
(* interchangeable: n1 stands for whichever of them has the bad connection. *)
EXTENDS Client, TLC

CONSTANTS n1, n2, n3, d, c1

Steady == [conns |-> Nodes, valid |-> TRUE, unstable |-> {}, drops |-> 0, says |-> {},
           lies |-> 0, relays |-> {}, forget |-> FALSE]

\* A connection that is needed drops; the faulty node lies; only the faulty node is connected
\* when the request is submitted; nodes that forget the request; the faulty node propagates
\* it too, as another client's; one that they refuse.
Hardships ==
    {[Steady EXCEPT !.conns = {n1, n2, d}, !.unstable = {n1}, !.drops = 1],
     [Steady EXCEPT !.says = {"wrong"}, !.lies = 1],
     [Steady EXCEPT !.conns = {d}],
     [Steady EXCEPT !.forget = TRUE],
     [Steady EXCEPT !.relays = {n1}],
     [Steady EXCEPT !.valid = FALSE, !.unstable = {n1}, !.drops = 1,
                    !.says = {"ACK", "right"}, !.lies = 2, !.relays = Nodes]}
=============================================================================
