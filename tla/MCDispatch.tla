----------------------------- MODULE MCDispatch -----------------------------
(* Small instances of Dispatch. *)
EXTENDS Dispatch, TLC

Symmetry == Permutations(Riders) \cup Permutations(Orders)
=============================================================================
