----------------------------- MODULE MCCatchup -----------------------------
(***************************************************************************)
(* Catchup for TLC: a pool of five.                                        *)
(***************************************************************************)
EXTENDS Catchup

CONSTANTS p1, p2, p3, p4
=============================================================================
