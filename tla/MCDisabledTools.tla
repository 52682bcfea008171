-------------------------- MODULE MCDisabledTools --------------------------
(* Bounded instance of DisabledTools for TLC: one call in each of two      *)
(* instances, which edits the list or reports failures.                    *)
EXTENDS DisabledTools

CONSTANTS i1, i2, e1, e2

MCInstances == {i1, i2}

MCEditors == {e1, e2}

MCHome == [e \in MCEditors |-> IF e = e1 THEN i1 ELSE i2]
=============================================================================
