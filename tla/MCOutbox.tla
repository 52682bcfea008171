------------------------------ MODULE MCOutbox ------------------------------
(***************************************************************************)
(* Small instances of Outbox: two server instances and one tool.           *)
(***************************************************************************)
EXTENDS Outbox
=============================================================================
