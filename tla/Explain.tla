------------------------------ MODULE Explain ------------------------------
(***************************************************************************)
(* "Where is my order?": the assistant's explanation of one order.  Three  *)
(* facts (the order's timeline, dispatch's row, the kitchen's load), one   *)
(* verdict, one sentence from a template; no model is asked.               *)
(*                                                                         *)
(* A fact that may be missing is the set of its values: empty, or one.  A  *)
(* sentence is what distinguishes it: the template's fields, and what it   *)
(* says of the customer's money.  The wording itself is left out.          *)
(***************************************************************************)
EXTENDS Integers, FiniteSets

Maybe(S) == {{}} \cup {{x} : x \in S}

Milestones == {"payment_cleared_at", "confirmed_at", "accepted_at",
               "preparing_at", "ready_at", "picked_up_at"}

CausesKnown == {"item_unavailable", "at_capacity", "payment_declined",
                "system_timeout", "restaurant_rejected", "restaurant_timeout",
                "customer_cancelled", "no_rider_available"}

OrderStatuses == {"PLACED", "VALIDATED", "PAYMENT_CLEARED", "CONFIRMED",
                  "ACCEPTED", "PREPARING", "READY", "PICKED_UP", "DELIVERED",
                  "SETTLED", "CANCELLING", "CANCELLED", "REFUNDED"}

\* What order answers, and what the resolver is given of it.
Timelines(Times) ==
    [status : OrderStatuses, placed_at : {{t} : t \in Times},
     stamp : [Milestones -> Maybe(Times)], cancel_reason : Maybe(CausesKnown)]
Deliveries(Times) ==
    Maybe([state : {"OFFERING", "ASSIGNED", "PICKED_UP"}, assigned_at : Maybe(Times)])
Loads(Counts) == Maybe([active : Counts, capacity : Counts])
Budgets(Spans) ==
    [accept_timeout_s : Spans, no_rider_deadline_s : Spans,
     pickup_timeout_s : Spans, forward_deadline_s : Spans]

-----------------------------------------------------------------------------
(* The adapters. *)

\* A knob that is absent or not positive is the default's, one by one.
Budget(raw, default) ==
    [knob \in DOMAIN default |->
        IF \E v \in raw[knob] : v > 0 THEN CHOOSE v \in raw[knob] : v > 0
                                      ELSE default[knob]]

\* OrderTimelineClient reads every stamp of the answer but payment_cleared_at.
timeline(row) == [row EXCEPT !.stamp["payment_cleared_at"] = {}]

-----------------------------------------------------------------------------
(* The verdict. *)

\* Fault: a deadline is taken for a failure of the authorization itself.
FaultyPreAuthorizationReasons ==
    {"payment_declined", "item_unavailable", "at_capacity", "system_timeout"}

PRE_AUTHORIZATION_REASONS == {"payment_declined", "item_unavailable", "at_capacity"}

\* Did this order hold money?  TRUE, FALSE, or nobody recorded it.
payment_held(t) ==
    IF t.stamp["payment_cleared_at"] # {} THEN {TRUE}
    ELSE IF t.cancel_reason \cap PRE_AUTHORIZATION_REASONS # {} THEN {FALSE}
    ELSE IF \E m \in Milestones \ {"payment_cleared_at"} : t.stamp[m] # {} THEN {TRUE}
    ELSE {}

\* Clock skew is floored at zero.
elapsed_since(since, now) == {IF now > t THEN now - t ELSE 0 : t \in since}

Verdict(reason, elapsed) ==
    [reason |-> reason, overdue |-> {}, elapsed |-> elapsed, eta |-> {},
     facts |-> {}, held |-> {}, unwind_done |-> TRUE]

\* A stage that a timer governs: past it, or at most so much longer.
Bounded(reason, elapsed, budget_s) ==
    [Verdict(reason, elapsed) EXCEPT
        !.overdue = {budget_s <= e : e \in elapsed},
        !.eta = {budget_s - e : e \in {x \in elapsed : x < budget_s}}]

\* The facts every prediction or report of a cancellation owes.
OwingMoney(verdict, t, unwind_done) ==
    [verdict EXCEPT !.facts = @ \cup {"payment_held"}, !.held = payment_held(t),
                    !.unwind_done = unwind_done]

\* READY splits on whether dispatch knows of a courier.
ready(t, now, delivery, budget) ==
    LET In(state) == \E d \in delivery : d.state = state
        coming == elapsed_since(UNION {d.assigned_at : d \in delivery}, now)
    IN IF In("PICKED_UP") THEN Verdict("courier_on_the_way", coming)
       ELSE IF In("ASSIGNED")
         THEN Bounded("courier_on_the_way", coming, budget.pickup_timeout_s)
       ELSE OwingMoney(Bounded("awaiting_courier", elapsed_since(t.stamp["ready_at"], now),
                               budget.no_rider_deadline_s), t, FALSE)

\* The kitchen has no timer; it is busy when it could not take another order.
kitchen(t, now, load) ==
    LET cooking == t.status = "PREPARING"
        elapsed == elapsed_since(t.stamp[IF cooking THEN "preparing_at" ELSE "accepted_at"], now)
    IN IF \E l \in load : l.active >= l.capacity
         THEN [Verdict("kitchen_busy", elapsed) EXCEPT !.facts = {"active"}]
       ELSE Verdict(IF cooking THEN "kitchen_preparing" ELSE "kitchen_not_started", elapsed)

\* The order's status decides; dispatch refines READY and load the kitchen.
resolve(t, now, delivery, load, budget) ==
    CASE t.status \in {"DELIVERED", "SETTLED"} ->
            Verdict("delivered", elapsed_since(t.stamp["picked_up_at"], now))
      [] t.status = "REFUNDED" -> Verdict("refunded", {})
      [] t.status \in {"CANCELLING", "CANCELLED"} ->
            IF t.cancel_reason = {} THEN OwingMoney(Verdict("unknown", {}), t, t.status = "CANCELLED")
            ELSE OwingMoney(Verdict(CHOOSE why \in t.cancel_reason : TRUE, {}),
                            t, t.status = "CANCELLED")
      [] t.status = "PICKED_UP" ->
            Verdict("in_transit", elapsed_since(t.stamp["picked_up_at"], now))
      [] t.status = "READY" -> ready(t, now, delivery, budget)
      [] t.status \in {"ACCEPTED", "PREPARING"} -> kitchen(t, now, load)
      [] t.status = "CONFIRMED" ->
            OwingMoney(Bounded("awaiting_restaurant", elapsed_since(t.stamp["confirmed_at"], now),
                               budget.accept_timeout_s), t, FALSE)
      [] t.status \in {"PLACED", "VALIDATED", "PAYMENT_CLEARED"} ->
            OwingMoney(Bounded("payment_in_progress", elapsed_since(t.placed_at, now),
                               budget.forward_deadline_s), t, FALSE)
      [] OTHER -> Verdict("unknown", {})

-----------------------------------------------------------------------------
(* The sentence. *)

SHORT_AFTER_S == 60
EXTENDED_AFTER_S == 5 * 60
LONG_AFTER_S == 15 * 60

\* How long the stage has been running; overdue outranks every duration.
bucket_for(v) ==
    IF v.overdue = {TRUE} THEN "overdue"
    ELSE IF v.elapsed = {} THEN "unknown"
    ELSE IF \A e \in v.elapsed : e < SHORT_AFTER_S THEN "just_now"
    ELSE IF \A e \in v.elapsed : e < EXTENDED_AFTER_S THEN "short"
    ELSE IF \A e \in v.elapsed : e < LONG_AFTER_S THEN "extended" ELSE "long"

\* The copy: which fields the template of a reason and a bucket draws on.
TemplateFields(reason, bucket) ==
    LET Has(reasons, buckets) == reason \in reasons /\ bucket \in buckets
    IN {f \in {"elapsed", "money", "active"} :
          \/ f = "money" /\ reason \in CausesKnown
          \/ f = "money" /\ Has({"payment_in_progress", "awaiting_restaurant",
                                 "awaiting_courier"}, {"overdue"})
          \/ f = "active" /\ reason = "kitchen_busy"
          \/ f = "elapsed" /\ Has({"awaiting_restaurant", "courier_on_the_way"}, {"short"})
          \/ f = "elapsed" /\ Has({"kitchen_not_started", "kitchen_preparing", "in_transit"},
                                  {"short", "extended", "long"})
          \/ f = "elapsed" /\ Has({"awaiting_courier"}, {"short", "extended"})
          \/ f = "elapsed" /\ Has({"kitchen_busy"}, {"long"})}

\* All that a template may draw on.
context_for(v) ==
    v.facts \cup (IF "payment_held" \in v.facts THEN {"money"} ELSE {})
            \cup (IF v.elapsed # {} THEN {"elapsed"} ELSE {})

money_sentence(held, unwind_done) ==
    IF held = {} THEN "nothing"
    ELSE IF held = {FALSE} THEN "never charged"
    ELSE IF unwind_done THEN "released" ELSE "releasing"

\* A template that names a fact the verdict does not carry is a fallback.
render(v) ==
    LET fields == TemplateFields(v.reason, bucket_for(v))
        fits == fields \subseteq context_for(v)
    IN [reason |-> v.reason, bucket |-> bucket_for(v),
        source |-> IF fits THEN "template" ELSE "fallback",
        money |-> IF fits /\ "money" \in fields THEN money_sentence(v.held, v.unwind_done)
                                                ELSE "nothing"]

\* ExplainService.explain: nothing for an unknown order, nor for another's;
\* dispatch and inventory are asked only once the order is the asker's.
explain(row, mine, now, delivery, load, budget) ==
    IF mine THEN {render(resolve(timeline(r), now, delivery, load, budget)) : r \in row} ELSE {}
=============================================================================
