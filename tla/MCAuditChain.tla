---------------------------- MODULE MCAuditChain ----------------------------
(* Bounded instance of AuditChain for TLC.                                 *)
EXTENDS AuditChain, TLC

\* Writers may be exchanged, and so may tenants.
Exchange == Permutations(Writers) \cup Permutations(Tenants)
=============================================================================
