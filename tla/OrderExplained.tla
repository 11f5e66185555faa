--------------------------- MODULE OrderExplained ---------------------------
(***************************************************************************)
(* The saga's order as its customer is told of it: what order answers of   *)
(* the row, and what the assistant makes of the answer about the money.    *)
(***************************************************************************)
EXTENDS OrderSaga, Explain

CONSTANT Moments   \* when the order was stamped, and when the customer asks

ASSUME MomentsAreNat == Moments \subseteq Nat

\* transition() stamps the milestone of its target in the guarded move.
MILESTONES == [confirmed_at |-> "CONFIRMED", accepted_at |-> "ACCEPTED",
               preparing_at |-> "PREPARING", ready_at |-> "READY",
               picked_up_at |-> "PICKED_UP"]

WasAnnounced(s) == \E i \in DOMAIN events : events[i] = s

\* The row; the stamp of the silent PAYMENT_CLEARED never reaches the resolver.
order_timeline(at) ==
    [status |-> status, placed_at |-> {at},
     stamp |-> [m \in Milestones |-> IF m \in DOMAIN MILESTONES /\ WasAnnounced(MILESTONES[m])
                                       THEN {at} ELSE {}],
     cancel_reason |-> {reason} \ {"none"}]

DefaultBudget == [accept_timeout_s |-> 180, no_rider_deadline_s |-> 600,
                  pickup_timeout_s |-> 300, forward_deadline_s |-> 300]

\* What the customer is told of the order, and all that it may be now.
Says(at, now, delivery) ==
    explain({order_timeline(at)}, TRUE, now, delivery, {}, DefaultBudget)
Told == UNION { Says(at, now, delivery) :
                  at \in Moments, now \in Moments, delivery \in Deliveries(Moments) }

\* "The worst sentence this engine can produce" (_payment_held): no customer is
\* told that nothing is charged while a hold, or a capture, is on the card; and
\* one who is told of a hold had one, let go by the time it is "released".
MoneySentenceIsTrue ==
    status # "absent" => \A said \in Told :
        /\ said.money = "never charged" => hold \notin {"held", "captured"}
        /\ said.money = "releasing" => hold \in {"held", "voided"}
        /\ said.money = "released" => hold = "voided"
=============================================================================
