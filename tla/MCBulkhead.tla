----------------------------- MODULE MCBulkhead -----------------------------
(***************************************************************************)
(* A small instance of Bulkhead: the calls are alike.                      *)
(***************************************************************************)
EXTENDS Bulkhead, TLC

CallSymmetry == Permutations(Executions)
=============================================================================
