--------------------------- MODULE MCTransformer ---------------------------
(* Transformer on small instances: two holders, up to two shares an event. *)
EXTENDS Transformer

AllFaults == FaultKinds

SmallAmounts == {1, 2}
=============================================================================
