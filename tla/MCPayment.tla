------------------------------ MODULE MCPayment ------------------------------
(* The payment of one order, with two instances of the service.              *)
EXTENDS Payment
=============================================================================
