-------------------------- MODULE MCCircuitBreaker --------------------------
(***************************************************************************)
(* Small instances of CircuitBreaker: the callers are alike.               *)
(***************************************************************************)
EXTENDS CircuitBreaker, TLC

CallSymmetry == Permutations(Calls)
=============================================================================
