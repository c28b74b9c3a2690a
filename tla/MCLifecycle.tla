----------------------------- MODULE MCLifecycle -----------------------------
(* Lifecycle on a small instance, in which every call may fail. *)
EXTENDS Lifecycle

Everything == FaultKinds
=============================================================================
