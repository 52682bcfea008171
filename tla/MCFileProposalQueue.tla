------------------------ MODULE MCFileProposalQueue ------------------------
(***************************************************************************)
(* Small instances of FileProposalQueue.  "bob_" stands for a padded       *)
(* spelling of "bob".                                                      *)
(***************************************************************************)
EXTENDS FileProposalQueue

MCSpellings == {"alice", "bob", "bob_"}

MCTrim == [s \in MCSpellings |-> IF s = "bob_" THEN "bob" ELSE s]
=============================================================================
