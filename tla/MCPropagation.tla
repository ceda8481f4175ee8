--------------------------- MODULE MCPropagation ---------------------------
(***************************************************************************)
(* Propagation for TLC: four nodes, one of them faulty.                    *)
(***************************************************************************)
EXTENDS Propagation, TLC

CONSTANTS n1, n2, n3, d, c1, c2

Symmetry == Permutations({n1, n2, n3}) \cup Permutations({c1, c2})
=============================================================================
