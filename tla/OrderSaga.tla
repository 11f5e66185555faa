------------------------------ MODULE OrderSaga ------------------------------
(***************************************************************************)
(* The saga of one order: OrderWorkflow, its DeliveryWorkflow child (whose *)
(* offer cascade is the subject of module Dispatch), the activities they   *)
(* run, the order row, and what inventory, payment and the PSP hold for    *)
(* the order.                                                              *)
(*                                                                         *)
(* An activity attempt is at-least-once.  Each of its effects is one       *)
(* atomic step (one database transaction or one remote call), after which  *)
(* its answer may reach the workflow, may be lost (the attempt is retried  *)
(* from its start), or the attempt may have been given up on before its    *)
(* effect happened: then the effect stays in `strays' and lands later, or  *)
(* never.  A stray is how a schedule_to_close deadline that fires while an *)
(* attempt is still running reaches the model.                             *)
(***************************************************************************)
EXTENDS Naturals, Sequences, FiniteSets

CONSTANT MaxStrays      \* how many abandoned attempts may be under way

ASSUME MaxStraysAssumption == MaxStrays \in Nat

VARIABLES
    status,           \* orders.status
    reason,           \* order_cancellations.reason
    events,           \* the order's outbox rows, by the status they announce
    resv,             \* the reservation row's status in inventory
    hold,             \* what the PSP holds on the card
    pay,              \* the payment row's status
    pc,               \* where OrderWorkflow.run stands
    plan,             \* the arguments of the unwind it is running
    decision,         \* self._decision
    cancelRequested,  \* self._cancel_requested
    childPc,          \* where DeliveryWorkflow.run stands
    outcome,          \* how the child closed
    foodReady,        \* the child's self._food_ready
    mail,             \* signals a request has decided to send
    strays            \* effects of attempts nobody waits for any more

row == <<status, reason, events>>
books == <<resv, hold, pay>>
flow == <<pc, plan>>
flags == <<decision, cancelRequested>>
child == <<childPc, outcome, foodReady>>
vars == <<row, books, flow, flags, child, mail, strays>>

-----------------------------------------------------------------------------
(* Constants of the code. *)

Statuses == {"absent", "PLACED", "VALIDATED", "PAYMENT_CLEARED", "CONFIRMED",
             "ACCEPTED", "PREPARING", "READY", "PICKED_UP", "DELIVERED",
             "SETTLED", "CANCELLING", "CANCELLED"}

CancelReasons == {"item_unavailable", "at_capacity", "payment_declined",
                  "system_timeout", "restaurant_rejected",
                  "restaurant_timeout", "customer_cancelled",
                  "no_rider_available"}

\* The targets that transition() is asked to announce.
Announced == {"PLACED", "CONFIRMED", "ACCEPTED", "PREPARING", "READY",
              "PICKED_UP", "DELIVERED", "SETTLED", "CANCELLED"}

\* Fault: a cancel may still interrupt a courier who holds the food.
FaultyKitchenStates == {"ACCEPTED", "PREPARING", "READY", "PICKED_UP"}

CANCELLABLE_KITCHEN_STATES == {"ACCEPTED", "PREPARING", "READY"}

CANCELLABLE_STATES == {"PLACED", "VALIDATED", "PAYMENT_CLEARED", "CONFIRMED",
                       "ACCEPTED", "PREPARING", "READY"}

\* The effects of the parent's activities, in the order run() reaches them.
ForwardSteps == {"reserve", "mark_validated", "psp_authorize", "record_auth",
                 "mark_cleared", "confirm_order"}
UnwindSteps == {"void", "release", "finish_cancel"}
ParentSteps == {"create_order", "mark_accepted", "try_begin_cancel",
                "try_no_rider", "cancel_dispatch", "begin_cancel",
                "capture", "commit", "mark_settled"}
               \cup ForwardSteps \cup UnwindSteps
ChildSteps == {"mark_picked_up", "mark_delivered"}
Steps == ParentSteps \cup ChildSteps

ParentWaits == {"await_decision", "start_child", "deliver", "drain_child",
                "await_child"}
Closed == {"SETTLED", "CANCELLED", "FAILED"}

\* A retried attempt starts again at its activity's first effect.
FirstHalf(s) ==
    IF s = "mark_validated" THEN "reserve"
    ELSE IF s \in {"record_auth", "mark_cleared"} THEN "psp_authorize"
    ELSE IF s = "mark_settled" THEN "commit"
    ELSE s

\* The last state the database is known to hold while a forward step runs.
Stage(s) ==
    IF s \in {"reserve", "mark_validated"} THEN "PLACED"
    ELSE IF s \in {"psp_authorize", "record_auth", "mark_cleared"} THEN "VALIDATED"
    ELSE "PAYMENT_CLEARED"

Plans == [expected : Statuses, reason : CancelReasons \cup {"none"},
          void : BOOLEAN, release : BOOLEAN]
UnwindPlan(expected, why, void, release) ==
    [expected |-> expected, reason |-> why, void |-> void, release |-> release]
NoPlan == UnwindPlan("absent", "none", FALSE, FALSE)

-----------------------------------------------------------------------------
(* The effects: one transaction or one remote call each. *)

\* THE status writer: a guarded move and its event, or nothing at all.
Transition(expected, target) ==
    IF status = expected
      THEN /\ status' = target
           /\ events' = IF target \in Announced THEN Append(events, target)
                                                ELSE events
      ELSE UNCHANGED <<status, events>>

\* order_cancellations: first writer wins, in the status move's transaction.
RecordCancellation(applied, why) ==
    reason' = IF applied /\ reason = "none" THEN why ELSE reason

Mark(expected, target) ==
    Transition(expected, target) /\ UNCHANGED <<reason, books>>

\* begin_cancel_from(): the set-guarded move.
BeginCancelFrom(allowed, why) ==
    /\ IF status \in allowed THEN status' = "CANCELLING" ELSE UNCHANGED status
    /\ RecordCancellation(status \in allowed, why)
    /\ UNCHANGED <<events, books>>

\* Insert the row and its OrderPlaced event, or adopt the row that is there.
CreateOrder == Mark("absent", "PLACED")

\* A reservation row of any status replays as ok; otherwise all or nothing.
Reserve ==
    /\ IF resv = "none" THEN resv' \in {"none", "active"} ELSE UNCHANGED resv
    /\ UNCHANGED <<row, hold, pay>>

\* The PSP replays the answer it gave this money key.
PspAuthorize ==
    /\ IF hold = "none" THEN hold' \in {"held", "declined"} ELSE UNCHANGED hold
    /\ UNCHANGED <<row, resv, pay>>

\* The payment row; an existing row is the truth already.
RecordAuth ==
    /\ pay' = IF pay # "none" THEN pay
              ELSE IF hold = "declined" THEN "DECLINED" ELSE "AUTHORIZED"
    /\ UNCHANGED <<row, resv, hold>>

\* Voiding without an authorization answers 409, which the client converges.
Void ==
    /\ IF pay = "AUTHORIZED" THEN pay' = "VOIDED" /\ hold' = "voided"
                             ELSE UNCHANGED <<pay, hold>>
    /\ UNCHANGED <<row, resv>>

Capture ==
    /\ IF pay = "AUTHORIZED" THEN pay' = "CAPTURED" /\ hold' = "captured"
                             ELSE UNCHANGED <<pay, hold>>
    /\ UNCHANGED <<row, resv>>

\* Release and commit leave a reservation that is not active alone.
Release ==
    /\ resv' = IF resv = "active" THEN "released" ELSE resv
    /\ UNCHANGED <<row, hold, pay>>

Commit ==
    /\ resv' = IF resv = "active" THEN "consumed" ELSE resv
    /\ UNCHANGED <<row, hold, pay>>

BeginCancel(expected, why) ==
    /\ Transition(expected, "CANCELLING")
    /\ RecordCancellation(status = expected, why)
    /\ UNCHANGED books

FinishCancel(why) ==
    /\ Transition("CANCELLING", "CANCELLED")
    /\ RecordCancellation(status = "CANCELLING", why)
    /\ UNCHANGED books

Perform(s) ==
    \/ s = "create_order"     /\ CreateOrder
    \/ s = "reserve"          /\ Reserve
    \/ s = "mark_validated"   /\ Mark("PLACED", "VALIDATED")
    \/ s = "psp_authorize"    /\ PspAuthorize
    \/ s = "record_auth"      /\ RecordAuth
    \/ s = "mark_cleared"     /\ Mark("VALIDATED", "PAYMENT_CLEARED")
    \/ s = "confirm_order"    /\ Mark("PAYMENT_CLEARED", "CONFIRMED")
    \/ s = "mark_accepted"    /\ Mark("CONFIRMED", "ACCEPTED")
    \/ s = "mark_picked_up"   /\ Mark("READY", "PICKED_UP")
    \/ s = "mark_delivered"   /\ Mark("PICKED_UP", "DELIVERED")
    \/ s = "capture"          /\ Capture
    \/ s = "commit"           /\ Commit
    \/ s = "mark_settled"     /\ Mark("DELIVERED", "SETTLED")
    \/ s = "try_begin_cancel"
         /\ BeginCancelFrom(CANCELLABLE_KITCHEN_STATES, "customer_cancelled")
    \/ s = "try_no_rider"
         /\ BeginCancelFrom(CANCELLABLE_KITCHEN_STATES, "no_rider_available")
    \/ s = "begin_cancel"     /\ BeginCancel(plan.expected, plan.reason)
    \/ s = "void"             /\ Void
    \/ s = "release"          /\ Release
    \/ s = "finish_cancel"    /\ FinishCancel(plan.reason)
    \/ s = "cancel_dispatch"  /\ UNCHANGED <<row, books>>

\* The next effect of the same activity, when the one just done said ok.
Continuation(s) ==
    { t \in {"mark_validated", "record_auth", "mark_cleared", "mark_settled"} :
        \/ t = "mark_validated" /\ s = "reserve" /\ resv' # "none"
        \/ t = "record_auth" /\ s = "psp_authorize"
        \/ t = "mark_cleared" /\ s = "record_auth" /\ pay' # "DECLINED"
        \/ t = "mark_settled" /\ s = "commit" }

-----------------------------------------------------------------------------
(* OrderWorkflow.run, one action per answer it acts on. *)

\* The attempt at the workflow's current effect succeeds and is heard.
Answered(s) ==
    /\ pc = s
    /\ Perform(s)
    /\ UNCHANGED <<flags, child, mail, strays>>

Unwind(expected, why, void, release) ==
    /\ pc' = "begin_cancel"
    /\ plan' = UnwindPlan(expected, why, void, release)

\* _unwind: void, release, finish, as the plan asks.
UnwindFrom(p) ==
    pc' = IF p.void THEN "void" ELSE IF p.release THEN "release"
                                ELSE "finish_cancel"

\* A guarded move that did not reach its target is an IllegalTransition, which
\* is not retried and fails the workflow.
Marked(s, target, next) ==
    /\ Answered(s)
    /\ pc' = IF status' = target THEN next ELSE "FAILED"
    /\ UNCHANGED plan

CreateOrderStep == Answered("create_order") /\ pc' = "reserve" /\ UNCHANGED plan

ValidateAndReserve ==
    /\ Answered("reserve")
    /\ \/ resv' # "none" /\ pc' = "mark_validated" /\ UNCHANGED plan
       \/ /\ resv' = "none"
          /\ \E why \in {"item_unavailable", "at_capacity"} :
                Unwind("PLACED", why, FALSE, FALSE)

MarkValidated == Marked("mark_validated", "VALIDATED", "psp_authorize")

AuthorizePayment ==
    /\ Answered("psp_authorize")
    /\ pc' = "record_auth"
    /\ UNCHANGED plan

RecordAuthorization ==
    /\ Answered("record_auth")
    /\ \/ pay' # "DECLINED" /\ pc' = "mark_cleared" /\ UNCHANGED plan
       \/ /\ pay' = "DECLINED"
          /\ Unwind("VALIDATED", "payment_declined", FALSE, TRUE)

MarkCleared == Marked("mark_cleared", "PAYMENT_CLEARED", "confirm_order")

ConfirmOrder == Marked("confirm_order", "CONFIRMED", "await_decision")

\* except _RanOutOfTime: the attempt under way may still land.
RanOutOfTime ==
    /\ pc \in ForwardSteps
    /\ Unwind(Stage(pc), "system_timeout", Stage(pc) # "PLACED", TRUE)
    /\ \/ UNCHANGED strays
       \/ /\ Cardinality(strays \cup {pc}) <= MaxStrays
          /\ strays' = strays \cup {pc}
    /\ UNCHANGED <<row, books, flags, child, mail>>

\* The durable wait ends: the customer's cancel outranks a verdict.
Decided ==
    /\ pc = "await_decision"
    /\ decision # "none" \/ cancelRequested
    /\ \/ /\ cancelRequested
          /\ Unwind("CONFIRMED", "customer_cancelled", TRUE, TRUE)
       \/ /\ ~cancelRequested /\ decision = "accept"
          /\ pc' = "start_child"
          /\ UNCHANGED plan
       \/ /\ ~cancelRequested /\ decision = "reject"
          /\ Unwind("CONFIRMED", "restaurant_rejected", TRUE, TRUE)
    /\ UNCHANGED <<row, books, flags, child, mail, strays>>

AcceptTimeout ==
    /\ pc = "await_decision"
    /\ decision = "none" /\ ~cancelRequested
    /\ Unwind("CONFIRMED", "restaurant_timeout", TRUE, TRUE)
    /\ UNCHANGED <<row, books, flags, child, mail, strays>>

\* The child first, so that the ACCEPTED row's food_ready has a target.
StartChild ==
    /\ pc = "start_child"
    /\ pc' = "mark_accepted"
    /\ childPc' = "await_food"
    /\ UNCHANGED <<row, books, plan, flags, outcome, foodReady, mail, strays>>

MarkAccepted == Marked("mark_accepted", "ACCEPTED", "deliver")

\* _deliver_or_cancel wakes; a child that is done is looked at first.
DeliverOrCancel ==
    /\ pc = "deliver"
    /\ \/ childPc = "closed" /\ pc' = "await_child"
       \/ childPc # "closed" /\ cancelRequested /\ pc' = "try_begin_cancel"
    /\ UNCHANGED <<row, books, plan, flags, child, mail, strays>>

\* Fault: finding the row CANCELLING already is read as too_late.
FaultyTryBeginCancel ==
    /\ Answered("try_begin_cancel")
    /\ IF status # "CANCELLING" /\ status' = "CANCELLING"
         THEN /\ pc' = "drain_child"
              /\ plan' = UnwindPlan(plan.expected, "customer_cancelled", TRUE, TRUE)
         ELSE pc' = "await_child" /\ UNCHANGED plan

\* ok cancels and drains the child; too_late rides on to the delivery.
TryBeginCancel ==
    /\ Answered("try_begin_cancel")
    /\ IF status' = "CANCELLING"
         THEN /\ pc' = "drain_child"
              /\ plan' = UnwindPlan(plan.expected, "customer_cancelled", TRUE, TRUE)
         ELSE pc' = "await_child" /\ UNCHANGED plan

DrainChild ==
    /\ pc = "drain_child"
    /\ childPc = "closed"
    /\ UnwindFrom(plan)
    /\ UNCHANGED <<row, books, plan, flags, child, mail, strays>>

\* Fault: NO_RIDER is not told apart from a delivery.
FaultyAwaitChild ==
    /\ pc = "await_child"
    /\ childPc = "closed"
    /\ pc' = IF outcome \in {"DELIVERED", "NO_RIDER"} THEN "capture" ELSE "FAILED"
    /\ UNCHANGED <<row, books, plan, flags, child, mail, strays>>

AwaitChild ==
    /\ pc = "await_child"
    /\ childPc = "closed"
    /\ pc' = IF outcome = "DELIVERED" THEN "capture"
             ELSE IF outcome = "NO_RIDER" THEN "try_no_rider" ELSE "FAILED"
    /\ UNCHANGED <<row, books, plan, flags, child, mail, strays>>

\* too_late falls through to `return True': capture and settle.
TryNoRider ==
    /\ Answered("try_no_rider")
    /\ IF status' = "CANCELLING"
         THEN /\ pc' = "cancel_dispatch"
              /\ plan' = UnwindPlan(plan.expected, "no_rider_available", TRUE, TRUE)
         ELSE pc' = "capture" /\ UNCHANGED plan

CancelDispatch ==
    Answered("cancel_dispatch") /\ UnwindFrom(plan) /\ UNCHANGED plan

BeginCancelStep ==
    /\ Answered("begin_cancel")
    /\ IF status' = "CANCELLING" THEN UnwindFrom(plan) ELSE pc' = "FAILED"
    /\ UNCHANGED plan

VoidAuthorization ==
    /\ Answered("void")
    /\ pc' = IF plan.release THEN "release" ELSE "finish_cancel"
    /\ UNCHANGED plan

ReleaseReservation ==
    Answered("release") /\ pc' = "finish_cancel" /\ UNCHANGED plan

FinishCancelStep == Marked("finish_cancel", "CANCELLED", "CANCELLED")

\* Nothing to capture is not retried: it fails the workflow.
CapturePayment ==
    /\ Answered("capture")
    /\ pc' = IF pay' = "CAPTURED" THEN "commit" ELSE "FAILED"
    /\ UNCHANGED plan

CommitReservation ==
    Answered("commit") /\ pc' = "mark_settled" /\ UNCHANGED plan

SettleOrder == Marked("mark_settled", "SETTLED", "SETTLED")

\* The effect happened but its answer was lost: the activity is retried.
AnswerLost ==
    /\ pc \in ParentSteps
    /\ Perform(pc)
    /\ pc' = FirstHalf(pc)
    /\ UNCHANGED <<plan, flags, child, mail, strays>>

\* start_to_close passed with the attempt still running: retried as well.
AttemptAbandoned ==
    /\ pc \in ParentSteps
    /\ Cardinality(strays \cup {pc}) <= MaxStrays
    /\ strays' = strays \cup {pc}
    /\ pc' = FirstHalf(pc)
    /\ UNCHANGED <<row, books, plan, flags, child, mail>>

\* An abandoned attempt reaches its effect after all, and runs on.
StrayLands ==
    \E s \in strays :
        /\ Perform(s)
        /\ strays' = (strays \ {s}) \cup Continuation(s)
        /\ UNCHANGED <<flow, flags, child, mail>>

StrayDies ==
    \E s \in strays :
        /\ strays' = strays \ {s}
        /\ UNCHANGED <<row, books, flow, flags, child, mail>>

-----------------------------------------------------------------------------
(* DeliveryWorkflow.run: its waits and its two marks. *)

ChildOpen == childPc \notin {"unstarted", "closed"}

CloseChild(how) == childPc' = "closed" /\ outcome' = how

FoodArrivesAtDispatch ==
    /\ childPc = "await_food" /\ foodReady
    /\ childPc' = "assign"
    /\ UNCHANGED <<row, books, flow, flags, outcome, foodReady, mail, strays>>

\* _assign: a courier has the food, or nobody came inside the deadline.
Assigned ==
    /\ childPc = "assign"
    /\ \/ childPc' = "mark_picked_up" /\ UNCHANGED outcome
       \/ CloseChild("NO_RIDER")
    /\ UNCHANGED <<row, books, flow, flags, foodReady, mail, strays>>

MarkPickedUp ==
    /\ childPc = "mark_picked_up"
    /\ Perform("mark_picked_up")
    /\ IF status' = "PICKED_UP"
         THEN childPc' = "await_delivered" /\ UNCHANGED outcome
         ELSE CloseChild("FAILED")
    /\ UNCHANGED <<flow, flags, foodReady, mail, strays>>

CourierDelivers ==
    /\ childPc = "await_delivered"
    /\ childPc' = "mark_delivered"
    /\ UNCHANGED <<row, books, flow, flags, outcome, foodReady, mail, strays>>

MarkDelivered ==
    /\ childPc = "mark_delivered"
    /\ Perform("mark_delivered")
    /\ CloseChild(IF status' = "DELIVERED" THEN "DELIVERED" ELSE "FAILED")
    /\ UNCHANGED <<flow, flags, foodReady, mail, strays>>

ChildAnswerLost ==
    /\ childPc \in ChildSteps
    /\ Perform(childPc)
    /\ UNCHANGED <<flow, flags, child, mail, strays>>

ChildAttemptAbandoned ==
    /\ childPc \in ChildSteps
    /\ Cardinality(strays \cup {childPc}) <= MaxStrays
    /\ strays' = strays \cup {childPc}
    /\ UNCHANGED <<row, books, flow, flags, child, mail>>

\* child.cancel(), or the parent's close (REQUEST_CANCEL), reaches the child: at
\* a wait it runs the cleanup handler, at an activity (an ActivityError, not a
\* CancelledError) it closes at once.
ChildCancelled ==
    /\ pc \in {"drain_child"} \cup Closed
    /\ ChildOpen /\ childPc # "cleanup"
    /\ \/ /\ childPc \notin ChildSteps
          /\ childPc' = "cleanup"
          /\ UNCHANGED outcome
       \/ /\ childPc \in ChildSteps \cup {"assign"}
          /\ CloseChild("CANCELLED")
    /\ UNCHANGED <<row, books, flow, flags, foodReady, mail, strays>>

ChildCleanup ==
    /\ childPc = "cleanup"
    /\ CloseChild("CANCELLED")
    /\ UNCHANGED <<row, books, flow, flags, foodReady, mail, strays>>

-----------------------------------------------------------------------------
(* The restaurant, the customer and the reaper. *)

\* decide() reads CONFIRMED, then signals; the signal is on its way.
KitchenDecides ==
    /\ status = "CONFIRMED"
    /\ \E verdict \in {"accept", "reject"} : mail' = mail \cup {verdict}
    /\ UNCHANGED <<row, books, flow, flags, child, strays>>

SetPreparing ==
    /\ status = "ACCEPTED"
    /\ Mark("ACCEPTED", "PREPARING")
    /\ UNCHANGED <<flow, flags, child, mail, strays>>

\* set_ready moves the row, then signals on applies and replays alike; the
\* request may die in between.
SetReady ==
    /\ status \in {"PREPARING", "READY"}
    /\ Mark("PREPARING", "READY")
    /\ mail' \in {mail, mail \cup {"food_ready"}}
    /\ UNCHANGED <<flow, flags, child, strays>>

RequestCancel ==
    /\ status \in CANCELLABLE_STATES
    /\ mail' = mail \cup {"cancel"}
    /\ UNCHANGED <<row, books, flow, flags, child, strays>>

\* A signal arrives; a closed workflow answers SagaGone and nothing changes.
ParentSignal ==
    \E m \in mail \ {"food_ready"} :
        /\ mail' = mail \ {m}
        /\ decision' = IF /\ m \in {"accept", "reject"}
                          /\ decision = "none" /\ pc \notin Closed
                         THEN m ELSE decision
        /\ cancelRequested' = (cancelRequested \/ (m = "cancel" /\ pc \notin Closed))
        /\ UNCHANGED <<row, books, flow, child, strays>>

FoodReadySignal ==
    /\ "food_ready" \in mail
    /\ mail' = mail \ {"food_ready"}
    /\ foodReady' = (foodReady \/ ChildOpen)
    /\ UNCHANGED <<row, books, flow, flags, childPc, outcome, strays>>

\* expire_overdue: the reservation's 1800s are up.
ReaperExpires ==
    /\ resv = "active"
    /\ resv' = "expired"
    /\ UNCHANGED <<row, hold, pay, flow, flags, child, mail, strays>>

-----------------------------------------------------------------------------
Init ==
    /\ status = "absent" /\ reason = "none" /\ events = << >>
    /\ resv = "none" /\ hold = "none" /\ pay = "none"
    /\ pc = "create_order" /\ plan = NoPlan
    /\ decision = "none" /\ cancelRequested = FALSE
    /\ childPc = "unstarted" /\ outcome = "none" /\ foodReady = FALSE
    /\ mail = {} /\ strays = {}

ForwardPath ==
    \/ CreateOrderStep \/ ValidateAndReserve \/ MarkValidated
    \/ AuthorizePayment \/ RecordAuthorization \/ MarkCleared \/ ConfirmOrder

DeliveryPath ==
    \/ MarkAccepted \/ TryBeginCancel \/ TryNoRider \/ CancelDispatch
    \/ CapturePayment \/ CommitReservation \/ SettleOrder

UnwindPath ==
    \/ BeginCancelStep \/ VoidAuthorization \/ ReleaseReservation
    \/ FinishCancelStep

Waits ==
    \/ RanOutOfTime \/ Decided \/ AcceptTimeout \/ StartChild
    \/ DeliverOrCancel \/ DrainChild \/ AwaitChild

Attempts == AnswerLost \/ AttemptAbandoned \/ StrayLands \/ StrayDies

Delivery ==
    \/ FoodArrivesAtDispatch \/ Assigned \/ MarkPickedUp \/ CourierDelivers
    \/ MarkDelivered \/ ChildAnswerLost \/ ChildAttemptAbandoned
    \/ ChildCancelled \/ ChildCleanup

Environment ==
    \/ KitchenDecides \/ SetPreparing \/ SetReady \/ RequestCancel
    \/ ParentSignal \/ FoodReadySignal \/ ReaperExpires

Next ==
    \/ ForwardPath \/ DeliveryPath \/ UnwindPath \/ Waits
    \/ Attempts \/ Delivery \/ Environment

Spec == Init /\ [][Next]_vars

\* An attempt is retried without limit, so an effect that is attempted again
\* and again is in the end performed and heard.  The two activities with more
\* than one effect need this of each of them.
HalfOf(s) == IF s \in {"mark_validated", "mark_cleared", "mark_settled"} THEN 3
             ELSE IF s = "record_auth" THEN 2 ELSE 1

ActivityHeard(half) ==
    /\ pc \in ParentSteps /\ HalfOf(pc) = half
    /\ ForwardPath \/ DeliveryPath \/ UnwindPath

\* Workflow code runs when its wait is over and timers fire.  Nothing is assumed
\* of the restaurant, the customer, the courier, the reaper or of signals.
Fairness ==
    /\ \A half \in 1..3 : SF_vars(ActivityHeard(half))
    /\ WF_vars(Decided \/ AcceptTimeout \/ StartChild)
    /\ WF_vars(DeliverOrCancel \/ DrainChild \/ AwaitChild)
    /\ WF_vars(ChildCancelled \/ ChildCleanup)
    /\ SF_vars(MarkDelivered)

FairSpec == Spec /\ Fairness

-----------------------------------------------------------------------------
(* Properties. *)

TypeOK ==
    /\ status \in Statuses
    /\ reason \in CancelReasons \cup {"none"}
    /\ events \in Seq(Announced)
    /\ resv \in {"none", "active", "released", "consumed", "expired"}
    /\ hold \in {"none", "held", "declined", "voided", "captured"}
    /\ pay \in {"none", "AUTHORIZED", "DECLINED", "VOIDED", "CAPTURED"}
    /\ pc \in ParentSteps \cup ParentWaits \cup Closed
    /\ plan \in Plans
    /\ decision \in {"none", "accept", "reject"}
    /\ cancelRequested \in BOOLEAN
    /\ childPc \in {"unstarted", "await_food", "assign", "await_delivered",
                    "cleanup", "closed"} \cup ChildSteps
    /\ outcome \in {"none", "DELIVERED", "NO_RIDER", "CANCELLED", "FAILED"}
    /\ foodReady \in BOOLEAN
    /\ mail \subseteq {"accept", "reject", "cancel", "food_ready"}
    /\ strays \subseteq Steps

\* FR-20 across retries, lost answers and strays: the payment is captured only
\* for an order that was delivered, and an order is settled only when its
\* payment was captured (capture_payment, settle_order).
MoneyFollowsFood ==
    /\ pay = "CAPTURED" => status \in {"DELIVERED", "SETTLED"}
    /\ status = "SETTLED" => pay = "CAPTURED" /\ hold = "captured"

\* Every cancellation decided after the order was confirmed (the customer's,
\* the restaurant's, the timer's, or for want of a rider) ends with the hold
\* voided at the PSP and on the row, and the stock given back (_unwind).
KitchenReasons == {"restaurant_rejected", "restaurant_timeout",
                   "customer_cancelled", "no_rider_available"}
KitchenCancelHoldsNothing ==
    status = "CANCELLED" /\ reason \in KitchenReasons =>
        /\ pay = "VOIDED" /\ hold = "voided"
        /\ resv \in {"released", "expired"}

\* At-least-once activities announce each fact at most once, and never a
\* delivery together with a cancellation (transition() stages the event in the
\* guarded move's own transaction).
AnnouncedOnce ==
    /\ \A i, j \in DOMAIN events : events[i] = events[j] => i = j
    /\ \A i, j \in DOMAIN events :
          ~(events[i] = "CANCELLED" /\ events[j] \in {"PICKED_UP", "DELIVERED", "SETTLED"})

\* The kitchen's food_ready signal always has a target: the child is started
\* before the ACCEPTED row licences the kitchen (workflows.py, run).
CourierCueHasTarget ==
    status \in CANCELLABLE_KITCHEN_STATES => childPc # "unstarted"

\* An order that ended SETTLED or CANCELLED has no child left running, on any
\* path through _deliver_or_cancel: no courier keeps working for it.
ParentOutlivesChild == pc \in {"SETTLED", "CANCELLED"} => ~ChildOpen

\* A workflow fails at two steps only.  BEGIN_CANCEL names the state of a forward
\* step the workflow gave up on (deadline, or a later attempt was refused), and
\* an attempt it no longer heard has moved the row on by one; or mark_accepted
\* is retried after a lost answer and the kitchen has moved the row meanwhile.
\* No other guarded move, no capture and no child's close ever fails it.
FailsOnlyOnUnheardMove ==
    [][pc # "FAILED" /\ pc' = "FAILED" =>
        \/ /\ pc = "begin_cancel"
           /\ plan.reason \in {"system_timeout", "item_unavailable", "at_capacity"}
           /\ <<plan.expected, status>> \in
                 {<<"PLACED", "VALIDATED">>, <<"VALIDATED", "PAYMENT_CLEARED">>,
                  <<"PAYMENT_CLEARED", "CONFIRMED">>}
        \/ /\ pc = "mark_accepted"
           /\ status \in {"PREPARING", "READY", "PICKED_UP", "DELIVERED"}]_vars

\* What the order's payment means to the customer.
Money == IF pay = "AUTHORIZED" THEN "held"
         ELSE IF pay = "CAPTURED" THEN "taken"
         ELSE IF pay = "VOIDED" THEN "returned" ELSE "none"

Lifecycle == INSTANCE OrderLifecycle WITH money <- Money, announced <- events

\* The saga with all its retries, races and strays implements the lifecycle:
\* legal moves only, one announcement per move, money taken only on delivery
\* and returned only on cancellation.
ImplementsLifecycle == Lifecycle!Spec

\* Compensations are never dropped: an order that is CANCELLING becomes
\* CANCELLED (_unwind retries forever).
CompensationCompletes == status = "CANCELLING" ~> status = "CANCELLED"

\* Food that arrived is paid for and the order closed (capture, settle), unless
\* the parent is still, or failed, retrying mark_accepted.
DeliveredSettles ==
    status = "DELIVERED" /\ pc \notin {"mark_accepted", "FAILED"}
        ~> status = "SETTLED"

\* A cancel the workflow has heard is resolved: the order is cancelled, or the
\* courier has it, or the workflow failed on its deadline's guard.
CancelIsResolved ==
    cancelRequested ~> \/ status \in {"CANCELLED", "PICKED_UP", "DELIVERED", "SETTLED"}
                       \/ pc = "FAILED"

\* Not met by the code (README).  activities.py: "A retried activity therefore replays instead of repeating":
\* an order the kitchen is working on has a live workflow behind it.
AcceptedOrderHasWorkflow ==
    status \in CANCELLABLE_KITCHEN_STATES => pc # "FAILED"
=============================================================================
