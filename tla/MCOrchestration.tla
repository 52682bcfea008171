--------------------------- MODULE MCOrchestration ---------------------------
(***************************************************************************)
(* Small instances of Orchestration: a session of two agents.              *)
(***************************************************************************)
EXTENDS Orchestration

CONSTANTS a, b, Two

MCInitial == IF Two THEN <<a, b>> ELSE <<a>>
=============================================================================
