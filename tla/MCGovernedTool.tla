--------------------------- MODULE MCGovernedTool ---------------------------
(* Bounded instance of GovernedTool for TLC.                               *)
EXTENDS GovernedTool
=============================================================================
