----------------------------- MODULE MCInventory -----------------------------
(* Two orders whose lines meet in opposite orders, one of which names an     *)
(* item twice.  A behaviour is a rush (two workers and the reaper, after the  *)
(* admins have stocked the kitchen) or a shift (one worker and the reaper,    *)
(* with admins at work all the time).                                         *)
EXTENDS Inventory, TLC

CONSTANTS a, b, o1, o2, w1, w2

Line(i, n) == [item |-> i, qty |-> n]
MCLines == (o1 :> <<Line(a, 1), Line(b, 1)>>)
               @@ (o2 :> <<Line(b, 1), Line(a, 1), Line(a, 1)>>)

VARIABLE plan

MCInit == Init /\ plan \in {"rush", "shift"}

Opened == \E o \in Orders : resv[o] # "none"
Busy == \E p \in Procs : tx[p] # Idle

MCNext ==
    /\ UNCHANGED plan
    /\ \/ Saga \/ Steps \/ Expiry
       \/ Admin /\ (plan = "shift" \/ ~(Opened \/ Busy) \/ supply' = supply)
    /\ plan = "shift" => tx'[w2] = Idle

MCSpec == MCInit /\ [][MCNext]_<<vars, plan>> /\ Fairness
=============================================================================
