--------------------------- MODULE OrderLifecycle ---------------------------
(***************************************************************************)
(* What the order service promises about one order, with no workflow, no   *)
(* retries and no messages: where its status may move, when its money may  *)
(* move, and which announcements go out.  OrderSaga implements it.         *)
(***************************************************************************)
EXTENDS Sequences

VARIABLES
    status,     \* what the customer and the kitchen see
    money,      \* "none" | "held" | "taken" | "returned"
    announced   \* the order's events, in the order they were announced

vars == <<status, money, announced>>

\* The statuses a restaurant's or the saga's forward step leads through.
Forward ==
    [ PLACED |-> "VALIDATED", VALIDATED |-> "PAYMENT_CLEARED",
      PAYMENT_CLEARED |-> "CONFIRMED", CONFIRMED |-> "ACCEPTED",
      ACCEPTED |-> "PREPARING", PREPARING |-> "READY",
      READY |-> "PICKED_UP", PICKED_UP |-> "DELIVERED",
      DELIVERED |-> "SETTLED" ]

\* FR-21: once the courier holds the food, nothing cancels the order.
Cancellable == {"PLACED", "VALIDATED", "PAYMENT_CLEARED", "CONFIRMED",
                "ACCEPTED", "PREPARING", "READY"}

\* Steps that no consumer hears about.
Silent == {"VALIDATED", "PAYMENT_CLEARED", "CANCELLING"}

MoveTo(s) ==
    /\ status' = s
    /\ announced' = IF s \in Silent THEN announced ELSE Append(announced, s)

Init == status = "absent" /\ money = "none" /\ announced = << >>

Place == status = "absent" /\ MoveTo("PLACED") /\ UNCHANGED money

\* An order is settled only once its money has been taken.
Advance ==
    /\ status \in DOMAIN Forward
    /\ status = "DELIVERED" => money = "taken"
    /\ MoveTo(Forward[status])
    /\ UNCHANGED money

BeginCancel ==
    /\ status \in Cancellable
    /\ MoveTo("CANCELLING")
    /\ UNCHANGED money

FinishCancel ==
    /\ status = "CANCELLING"
    /\ MoveTo("CANCELLED")
    /\ UNCHANGED money

Hold == money = "none" /\ money' = "held" /\ UNCHANGED <<status, announced>>

\* FR-20: money is taken only for food that has arrived.
Take ==
    /\ money = "held"
    /\ status = "DELIVERED"
    /\ money' = "taken"
    /\ UNCHANGED <<status, announced>>

\* A hold is let go only for an order that is being, or has been, cancelled.
Return ==
    /\ money = "held"
    /\ status \in {"CANCELLING", "CANCELLED"}
    /\ money' = "returned"
    /\ UNCHANGED <<status, announced>>

Next == Place \/ Advance \/ BeginCancel \/ FinishCancel \/ Hold \/ Take \/ Return

Spec == Init /\ [][Next]_vars
=============================================================================
