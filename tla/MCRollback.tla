----------------------------- MODULE MCRollback -----------------------------
(* Rollback on small instances: two holders, one share an event. *)
EXTENDS Rollback
=============================================================================
