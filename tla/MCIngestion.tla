---------------------------- MODULE MCIngestion ----------------------------
(* Ingestion on small instances: one or two keys, a chain of a few blocks. *)
EXTENDS Ingestion

AllFaults == FaultKinds

(* The requiredConfirmations of indexer.go; the runs on two keys lower it. *)
FourConfirmations == 4
=============================================================================
