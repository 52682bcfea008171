-------------------------- MODULE MCProposalApply --------------------------
(* Bounded instance of ProposalApply for TLC: two proposals of one name.   *)
EXTENDS ProposalApply, TLC

MCSpellings == {"alice"}
MCTrim == [s \in MCSpellings |-> s]
MCNameOf == [p \in Ids |-> CHOOSE n \in Names : TRUE]

\* Proposals with one name, and callers, may be exchanged.
Exchange == Permutations(Ids) \cup Permutations(Callers)
=============================================================================
