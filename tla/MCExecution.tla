---------------------------- MODULE MCExecution ----------------------------
(***************************************************************************)
(* Execution for TLC.                                                      *)
(***************************************************************************)
EXTENDS Execution

\* Four batches, one of them without a valid request.
SizesWithEmpty == <<2, 0, 2, 1>>
=============================================================================
