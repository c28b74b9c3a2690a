------------------------------- MODULE MCReorg -------------------------------
(* Reorg on small instances. *)
EXTENDS Reorg

FourConfirmations == 4
=============================================================================
