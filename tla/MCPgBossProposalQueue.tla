----------------------- MODULE MCPgBossProposalQueue -----------------------
(***************************************************************************)
(* Small instances of PgBossProposalQueue.                                 *)
(***************************************************************************)
EXTENDS PgBossProposalQueue, TLC

MCSpellings == {"alice", "bob"}

MCTrim == [s \in MCSpellings |-> s]

\* The callers are alike.
CallerSymmetry == Permutations(Callers)
=============================================================================
