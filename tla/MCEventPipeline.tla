--------------------------- MODULE MCEventPipeline ---------------------------
(* The events of one order, with small batches.                              *)
EXTENDS EventPipeline
=============================================================================
