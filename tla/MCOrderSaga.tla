---------------------------- MODULE MCOrderSaga ----------------------------
(***************************************************************************)
(* One order through its saga.  Bound: MaxStrays abandoned attempts at a   *)
(* time, and the Moments at which it was stamped and is asked about.       *)
(***************************************************************************)
EXTENDS OrderExplained
=============================================================================
