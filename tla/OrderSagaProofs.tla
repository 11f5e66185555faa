--------------------------- MODULE OrderSagaProofs ---------------------------
(***************************************************************************)
(* Theorems about OrderSaga, for every bound on abandoned attempts: first  *)
(* the types and who may take the money, then where the saga may stand     *)
(* when its row is where it is.  From that, the promise of OrderLifecycle  *)
(* is kept, a workflow fails in two ways only, a cancellation holds        *)
(* nothing, and the customer is told the truth about the money.            *)
(***************************************************************************)
EXTENDS OrderExplained, TLAPS


\* The part of the type invariant that effects can disturb.
DataTypeOK ==
    /\ status \in Statuses
    /\ reason \in CancelReasons \cup {"none"}
    /\ events \in Seq(Announced)
    /\ resv \in {"none", "active", "released", "consumed", "expired"}
    /\ hold \in {"none", "held", "declined", "voided", "captured"}
    /\ pay \in {"none", "AUTHORIZED", "DECLINED", "VOIDED", "CAPTURED"}

\* Whatever an attempt does to the books, it leaves them well typed.
LEMMA PerformTypes ==
    ASSUME DataTypeOK, plan \in Plans, NEW s, Perform(s)
    PROVE  DataTypeOK'
<1> USE DEF DataTypeOK, row, books
<1>1. ASSUME NEW e, NEW t \in Statuses, Mark(e, t) PROVE DataTypeOK'
  BY <1>1 DEF Mark, Transition
<1>2. ASSUME Reserve \/ PspAuthorize \/ RecordAuth \/ Void \/ Capture \/ Release \/ Commit
      PROVE  DataTypeOK'
  BY <1>2 DEF Reserve, PspAuthorize, RecordAuth, Void, Capture, Release, Commit
<1>3. ASSUME NEW why \in CancelReasons, BeginCancelFrom(CANCELLABLE_KITCHEN_STATES, why)
      PROVE  DataTypeOK'
  BY <1>3 DEF BeginCancelFrom, RecordCancellation, Statuses
<1>4. ASSUME BeginCancel(plan.expected, plan.reason) PROVE DataTypeOK'
  BY <1>4 DEF BeginCancel, Transition, RecordCancellation, Statuses, Plans
<1>5. ASSUME FinishCancel(plan.reason) PROVE DataTypeOK'
  BY <1>5 DEF FinishCancel, Transition, RecordCancellation, Statuses, Plans
<1> QED
  BY <1>1, <1>2, <1>3, <1>4, <1>5 DEF Perform, CreateOrder, Statuses, CancelReasons

\* The retry of a step is a step again.
LEMMA FirstHalfStep == ASSUME NEW s \in ParentSteps PROVE FirstHalf(s) \in ParentSteps
BY DEF FirstHalf, ParentSteps, ForwardSteps, UnwindSteps

LEMMA ContinuationStep == ASSUME NEW s \in Steps PROVE Continuation(s) \subseteq Steps
BY DEF Continuation, Steps, ParentSteps, ForwardSteps, UnwindSteps

LEMMA TypeInit == Init => TypeOK
<1> SUFFICES ASSUME Init PROVE TypeOK
  OBVIOUS
<1>1. cancelRequested \in BOOLEAN /\ foodReady \in BOOLEAN
  BY DEF Init
<1>2. plan \in Plans
  BY DEF Init, NoPlan, UnwindPlan, Plans, Statuses
<1>3. events \in Seq(Announced)
  BY DEF Init
<1> QED
  BY <1>1, <1>2, <1>3 DEF Init, TypeOK, Statuses, ParentSteps

\* The rest of the type invariant.
ControlTypeOK ==
    /\ pc \in ParentSteps \cup ParentWaits \cup Closed
    /\ decision \in {"none", "accept", "reject"}
    /\ childPc \in {"unstarted", "await_food", "assign", "await_delivered",
                    "cleanup", "closed"} \cup ChildSteps
    /\ outcome \in {"none", "DELIVERED", "NO_RIDER", "CANCELLED", "FAILED"}
    /\ mail \subseteq {"accept", "reject", "cancel", "food_ready"}
    /\ strays \subseteq Steps

FlagTypeOK == cancelRequested \in BOOLEAN /\ foodReady \in BOOLEAN

\* An unwind's arguments are a plan.
LEMMA UnwindTypes ==
    ASSUME NEW e \in Statuses, NEW r \in CancelReasons,
           NEW v \in BOOLEAN, NEW l \in BOOLEAN, Unwind(e, r, v, l)
    PROVE  plan' \in Plans /\ pc' = "begin_cancel"
BY DEF Unwind, UnwindPlan, Plans

\* _deliver_or_cancel unwinds with a reason, and from no particular state.
LEMMA ReasonedPlan ==
    ASSUME NEW r \in CancelReasons, plan \in Plans
    PROVE  UnwindPlan(plan.expected, r, TRUE, TRUE) \in Plans
BY DEF UnwindPlan, Plans

LEMMA UnwindFromTypes ==
    ASSUME NEW p \in Plans, UnwindFrom(p)
    PROVE  pc' \in UnwindSteps
BY DEF UnwindFrom, UnwindSteps, Plans

LEMMA TypeStep == TypeOK /\ [Next]_vars => TypeOK'
<1> SUFFICES ASSUME DataTypeOK, ControlTypeOK, FlagTypeOK, plan \in Plans, [Next]_vars
             PROVE  DataTypeOK' /\ ControlTypeOK' /\ FlagTypeOK' /\ plan' \in Plans
  BY DEF TypeOK, DataTypeOK, ControlTypeOK, FlagTypeOK
<1> USE DEF row, books, flow, flags, child, vars
<1> DEFINE Pcs == ParentSteps \cup ParentWaits \cup Closed
<1>0. /\ "begin_cancel" \in Pcs /\ UnwindSteps \subseteq Pcs
      /\ {"FAILED", "CANCELLED", "SETTLED"} \subseteq Pcs
  BY DEF ParentSteps, Closed
<1>1. CASE ForwardPath \/ DeliveryPath \/ UnwindPath
  <2>1. PICK s \in ParentSteps : Answered(s)
    BY <1>1 DEF ForwardPath, DeliveryPath, UnwindPath, CreateOrderStep,
       ValidateAndReserve, MarkValidated, AuthorizePayment, RecordAuthorization,
       MarkCleared, ConfirmOrder, MarkAccepted, TryBeginCancel, TryNoRider,
       CancelDispatch, CapturePayment, CommitReservation, SettleOrder,
       BeginCancelStep, VoidAuthorization, ReleaseReservation, FinishCancelStep,
       Marked, ParentSteps, ForwardSteps, UnwindSteps
  <2>2. DataTypeOK'
    BY <2>1, PerformTypes DEF Answered
  <2>3. plan' \in Plans /\ pc' \in Pcs
    <3>1. CASE ForwardPath
      BY <3>1, <1>0, UnwindTypes DEF ForwardPath, CreateOrderStep, ValidateAndReserve,
         MarkValidated, AuthorizePayment, RecordAuthorization, MarkCleared,
         ConfirmOrder, Marked, ParentSteps, ForwardSteps, ParentWaits, Statuses,
         CancelReasons
    <3>2. CASE DeliveryPath
      <4>1. CASE MarkAccepted \/ CapturePayment \/ CommitReservation \/ SettleOrder
        BY <4>1, <1>0 DEF MarkAccepted, CapturePayment, CommitReservation,
           SettleOrder, Marked, ParentSteps, ParentWaits
      <4>2. CASE TryBeginCancel \/ TryNoRider
        <5>1. pc' \in Pcs
          BY <4>2 DEF TryBeginCancel, TryNoRider, ParentSteps, ParentWaits
        <5>2. plan' \in Plans
          BY <4>2, ReasonedPlan DEF TryBeginCancel, TryNoRider, CancelReasons
        <5> QED
          BY <5>1, <5>2
      <4>3. CASE CancelDispatch
        BY <4>3, <1>0, UnwindFromTypes DEF CancelDispatch
      <4> QED
        BY <3>2, <4>1, <4>2, <4>3 DEF DeliveryPath
    <3>3. CASE UnwindPath
      BY <3>3, <1>0, UnwindFromTypes DEF UnwindPath, BeginCancelStep,
         VoidAuthorization, ReleaseReservation, FinishCancelStep, Marked, UnwindSteps
    <3> QED
      BY <1>1, <3>1, <3>2, <3>3
  <2>4. UNCHANGED <<flags, child, mail, strays>>
    BY <2>1 DEF Answered
  <2> QED
    BY <2>2, <2>3, <2>4 DEF ControlTypeOK, FlagTypeOK
<1>2. CASE Waits
  <2>1. plan' \in Plans /\ pc' \in Pcs
    <3>1. CASE RanOutOfTime
      BY <3>1, <1>0, UnwindTypes DEF RanOutOfTime, Stage, Statuses, CancelReasons
    <3>2. CASE Decided
      BY <3>2, <1>0, UnwindTypes DEF Decided, Statuses, CancelReasons, ParentWaits
    <3>3. CASE AcceptTimeout
      BY <3>3, <1>0, UnwindTypes DEF AcceptTimeout, Statuses, CancelReasons
    <3>4. CASE StartChild \/ DeliverOrCancel \/ AwaitChild
      BY <3>4, <1>0 DEF StartChild, DeliverOrCancel, AwaitChild, ParentSteps, ParentWaits
    <3>5. CASE DrainChild
      BY <3>5, <1>0, UnwindFromTypes DEF DrainChild
    <3> QED
      BY <1>2, <3>1, <3>2, <3>3, <3>4, <3>5 DEF Waits
  <2>2. UNCHANGED <<row, books, flags, outcome, foodReady, mail>>
    BY <1>2 DEF Waits, RanOutOfTime, Decided, AcceptTimeout, StartChild,
       DeliverOrCancel, DrainChild, AwaitChild
  <2>3. strays' \subseteq Steps
    BY <1>2 DEF Waits, RanOutOfTime, Decided, AcceptTimeout, StartChild,
       DeliverOrCancel, DrainChild, AwaitChild, ControlTypeOK, Steps, ParentSteps
  <2>4. childPc' \in {childPc, "await_food"}
    BY <1>2 DEF Waits, RanOutOfTime, Decided, AcceptTimeout, StartChild,
       DeliverOrCancel, DrainChild, AwaitChild
  <2> QED
    BY <2>1, <2>2, <2>3, <2>4 DEF ControlTypeOK, FlagTypeOK, DataTypeOK
<1>3. CASE Attempts
  <2>1. CASE AnswerLost
    BY <2>1, PerformTypes, FirstHalfStep DEF AnswerLost, ControlTypeOK, FlagTypeOK
  <2>2. CASE AttemptAbandoned
    BY <2>2, FirstHalfStep DEF AttemptAbandoned, ControlTypeOK, DataTypeOK, FlagTypeOK, Steps
  <2>3. CASE StrayLands
    BY <2>3, PerformTypes, ContinuationStep DEF StrayLands, ControlTypeOK, FlagTypeOK
  <2>4. CASE StrayDies
    BY <2>4 DEF StrayDies, ControlTypeOK, DataTypeOK, FlagTypeOK
  <2> QED
    BY <1>3, <2>1, <2>2, <2>3, <2>4 DEF Attempts
<1>4. CASE Delivery
  <2>1. CASE MarkPickedUp \/ MarkDelivered \/ ChildAnswerLost
    <3>1. DataTypeOK'
      BY <2>1, PerformTypes DEF MarkPickedUp, MarkDelivered, ChildAnswerLost
    <3>2. ControlTypeOK'
      BY <2>1 DEF MarkPickedUp, MarkDelivered, ChildAnswerLost, CloseChild,
         ControlTypeOK, ChildSteps
    <3>3. UNCHANGED <<flow, flags, foodReady>>
      BY <2>1 DEF MarkPickedUp, MarkDelivered, ChildAnswerLost
    <3> QED
      BY <3>1, <3>2, <3>3 DEF FlagTypeOK
  <2>2. CASE \/ FoodArrivesAtDispatch \/ Assigned \/ CourierDelivers
             \/ ChildAttemptAbandoned \/ ChildCancelled \/ ChildCleanup
    <3>1. UNCHANGED <<row, books, flow, flags, foodReady, mail>>
      BY <2>2 DEF FoodArrivesAtDispatch, Assigned, CourierDelivers,
         ChildAttemptAbandoned, ChildCancelled, ChildCleanup
    <3>2. ControlTypeOK'
      BY <2>2 DEF FoodArrivesAtDispatch, Assigned, CourierDelivers,
         ChildAttemptAbandoned, ChildCancelled, ChildCleanup, CloseChild,
         ControlTypeOK, ChildSteps, Steps
    <3> QED
      BY <3>1, <3>2 DEF DataTypeOK, FlagTypeOK
  <2> QED
    BY <1>4, <2>1, <2>2 DEF Delivery
<1>5. CASE Environment
  <2>1. CASE SetPreparing \/ SetReady
    <3>1. DataTypeOK'
      BY <2>1 DEF SetPreparing, SetReady, Mark, Transition, DataTypeOK, Statuses, Announced
    <3>2. UNCHANGED <<flow, flags, child, strays>>
      BY <2>1 DEF SetPreparing, SetReady
    <3>3. mail' \subseteq {"accept", "reject", "cancel", "food_ready"}
      BY <2>1 DEF SetPreparing, SetReady, ControlTypeOK
    <3> QED
      BY <3>1, <3>2, <3>3 DEF FlagTypeOK, ControlTypeOK
  <2>2. CASE KitchenDecides \/ RequestCancel \/ ReaperExpires
    <3>1. DataTypeOK'
      BY <2>2 DEF KitchenDecides, RequestCancel, ReaperExpires, DataTypeOK
    <3>2. UNCHANGED <<flow, flags, child, strays>>
      BY <2>2 DEF KitchenDecides, RequestCancel, ReaperExpires
    <3>3. mail' \subseteq {"accept", "reject", "cancel", "food_ready"}
      BY <2>2 DEF KitchenDecides, RequestCancel, ReaperExpires, ControlTypeOK
    <3> QED
      BY <3>1, <3>2, <3>3 DEF FlagTypeOK, ControlTypeOK
  <2>3. CASE ParentSignal
    <3>1. DataTypeOK' /\ ControlTypeOK' /\ UNCHANGED <<flow, child>>
      BY <2>3 DEF ParentSignal, ControlTypeOK, DataTypeOK
    <3>2. cancelRequested' \in BOOLEAN
      BY <2>3 DEF ParentSignal
    <3> QED
      BY <3>1, <3>2 DEF FlagTypeOK
  <2>4. CASE FoodReadySignal
    <3>1. DataTypeOK' /\ ControlTypeOK' /\ UNCHANGED <<flow, flags>>
      BY <2>4 DEF FoodReadySignal, ControlTypeOK, DataTypeOK
    <3>2. foodReady' \in BOOLEAN
      BY <2>4 DEF FoodReadySignal
    <3> QED
      BY <3>1, <3>2 DEF FlagTypeOK
  <2> QED
    BY <1>5, <2>1, <2>2, <2>3, <2>4 DEF Environment
<1>6. CASE UNCHANGED vars
  BY <1>6 DEF ControlTypeOK, DataTypeOK, FlagTypeOK
<1> QED
  BY <1>1, <1>2, <1>3, <1>4, <1>5, <1>6 DEF Next

\* Every state the saga reaches is well typed, whatever is lost or abandoned.
THEOREM TypeCorrect == Spec => []TypeOK
BY TypeInit, TypeStep, PTL DEF Spec

-----------------------------------------------------------------------------
(* MoneyFollowsFood.  The invariant itself says nothing of where the workflow *)
(* stands; to be inductive it needs to know what the saga's position, its     *)
(* child's position and the attempts still under way allow the row to be.     *)

Arrived == {"DELIVERED", "SETTLED"}
Settling == {"capture", "commit", "mark_settled"}
Unwinding == {"CANCELLING", "CANCELLED"}
PastPickup == {"PICKED_UP", "DELIVERED", "SETTLED"}
BeforePickup == {"unstarted", "await_food", "assign"}
AfterReady == {"READY", "CANCELLING", "CANCELLED"} \cup PastPickup

\* A capture needs the food to have arrived, a settlement the capture.
Licensed(s) ==
    /\ s \in Settling => status \in Arrived
    /\ s \in {"commit", "mark_settled"} => pay = "CAPTURED"

\* So it is for the workflow's own step and for every attempt still under way.
SettlingInv == Licensed(pc) /\ \A s \in strays : Licensed(s)

PaidInv ==
    /\ pay = "CAPTURED" => hold = "captured" /\ status \in Arrived
    /\ status = "SETTLED" => pay = "CAPTURED"

\* What the child's position says of the row.
ChildInv ==
    /\ outcome # "none" => childPc = "closed"
    /\ outcome = "DELIVERED" => status \in Arrived
    /\ childPc = "assign" \/ outcome = "NO_RIDER" => status \in AfterReady
    /\ childPc \in BeforePickup \/ outcome = "NO_RIDER" =>
          strays \cap ChildSteps = {} /\ status \notin PastPickup

CueInv == foodReady = TRUE \/ "food_ready" \in mail => status \in AfterReady

\* What the parent's position says of the child, and of the row it unwinds.
PositionInv ==
    /\ pc \in ForwardSteps \cup {"create_order", "await_decision", "start_child"} =>
          childPc = "unstarted"
    /\ pc = "try_no_rider" => outcome = "NO_RIDER"
    /\ pc \in UnwindSteps \cup {"drain_child", "cancel_dispatch"} => status \in Unwinding
    /\ status = "CANCELLED" \/ "finish_cancel" \in strays =>
          pc \in {"finish_cancel", "CANCELLED"}

\* A step-by-step unwind names a state before the kitchen.
PlanInv == plan.expected \in {"absent", "PLACED", "VALIDATED", "PAYMENT_CLEARED", "CONFIRMED"}

MoneyInv ==
    SettlingInv /\ PaidInv /\ ChildInv /\ CueInv /\ PositionInv /\ PlanInv

\* What one effect may do to the row and the money, whoever attempts it.
Moves(s) ==
    /\ status \in Arrived => status' \in Arrived
    /\ status \in AfterReady => status' \in AfterReady
    /\ status \in Unwinding => status' \in Unwinding
    /\ status \notin PastPickup /\ s \notin ChildSteps => status' \notin PastPickup
    /\ status' = "CANCELLED" => status = "CANCELLED" \/ s = "finish_cancel"
    /\ status' = "SETTLED" => status = "SETTLED" \/ s = "mark_settled"
    /\ pay = "CAPTURED" /\ hold = "captured" => UNCHANGED <<pay, hold>>
    /\ pay' = "CAPTURED" => pay = "CAPTURED" \/ (s = "capture" /\ hold' = "captured")

LEMMA EffectMoves ==
    ASSUME PlanInv, NEW s, Perform(s)
    PROVE  Moves(s)
<1> USE DEF Moves, Arrived, AfterReady, Unwinding, PastPickup, ChildSteps, row, books
<1>1. CASE s \in {"create_order", "mark_validated", "mark_cleared", "confirm_order",
                  "mark_accepted", "mark_picked_up", "mark_delivered", "mark_settled"}
  BY <1>1 DEF Perform, CreateOrder, Mark, Transition
<1>2. CASE s \in {"reserve", "release", "commit", "cancel_dispatch"}
  BY <1>2 DEF Perform, Reserve, Release, Commit
<1>3. CASE s \in {"psp_authorize", "record_auth", "void", "capture"}
  BY <1>3 DEF Perform, PspAuthorize, RecordAuth, Void, Capture
<1>4. CASE s \in {"try_begin_cancel", "try_no_rider"}
  BY <1>4 DEF Perform, BeginCancelFrom, RecordCancellation, CANCELLABLE_KITCHEN_STATES
<1>5. CASE s \in {"begin_cancel", "finish_cancel"}
  BY <1>5 DEF Perform, BeginCancel, FinishCancel, RecordCancellation, Transition, PlanInv
<1> QED
  BY <1>1, <1>2, <1>3, <1>4, <1>5 DEF Perform

\* The kitchen's moves are as harmless; "kitchen" is the name of no effect.
LEMMA KitchenMoves ==
    ASSUME SetPreparing \/ SetReady
    PROVE  Moves("kitchen")
BY DEF SetPreparing, SetReady, Mark, Transition, Moves, Arrived, AfterReady, Unwinding,
   PastPickup, ChildSteps, row, books

\* Licensed effects keep the books square, and every licence once given.
LEMMA PaidStep ==
    ASSUME PaidInv, NEW s, Moves(s), Licensed(s)
    PROVE  PaidInv'
BY DEF PaidInv, Moves, Licensed, Settling

LEMMA LicenceKept ==
    ASSUME PaidInv, NEW s, Moves(s), NEW t, Licensed(t)
    PROVE  Licensed(t)'
BY DEF PaidInv, Moves, Licensed, Settling

\* An effect at its place keeps what is known of the child.
LEMMA ChildStep ==
    ASSUME ChildInv, CueInv, NEW s, Moves(s),
           s \in ChildSteps => childPc \notin BeforePickup /\ outcome # "NO_RIDER",
           UNCHANGED <<child, mail>>, strays' \cap ChildSteps \subseteq strays
    PROVE  ChildInv' /\ CueInv'
<1>1. UNCHANGED <<childPc, outcome, mail>> /\ UNCHANGED foodReady
  BY DEF child
<1>2. ChildInv'
  BY <1>1 DEF ChildInv, Moves
<1>3. CueInv'
  BY <1>1 DEF CueInv, Moves
<1> QED
  BY <1>2, <1>3

LEMMA MoneyInit == Init => MoneyInv
<1> SUFFICES ASSUME Init PROVE MoneyInv
  OBVIOUS
<1>1. CueInv
  BY DEF Init, CueInv
<1>2. PlanInv
  BY DEF Init, PlanInv, NoPlan, UnwindPlan
<1> QED
  BY <1>1, <1>2 DEF Init, MoneyInv, SettlingInv, Licensed, Settling, PaidInv, ChildInv,
     PositionInv, Arrived, AfterReady, PastPickup, Unwinding, UnwindSteps

\* An unwind's plan names the state it was given.
LEMMA PlanStep ==
    ASSUME TypeOK, PlanInv, Next
    PROVE  PlanInv'
<1> USE DEF PlanInv, UnwindPlan
<1>1. CASE ForwardPath
  BY <1>1 DEF ForwardPath, CreateOrderStep, ValidateAndReserve, MarkValidated,
     AuthorizePayment, RecordAuthorization, MarkCleared, ConfirmOrder, Marked, Unwind
<1>2. CASE DeliveryPath
  BY <1>2 DEF DeliveryPath, MarkAccepted, TryBeginCancel, TryNoRider, CancelDispatch,
     CapturePayment, CommitReservation, SettleOrder, Marked
<1>3. CASE UnwindPath
  BY <1>3 DEF UnwindPath, BeginCancelStep, VoidAuthorization, ReleaseReservation,
     FinishCancelStep, Marked
<1>4. CASE Waits
  BY <1>4 DEF Waits, RanOutOfTime, Decided, AcceptTimeout, StartChild, DeliverOrCancel,
     DrainChild, AwaitChild, Unwind, Stage
<1>5. CASE Attempts \/ Delivery \/ Environment
  <2>1. UNCHANGED plan
    BY <1>5 DEF Attempts, AnswerLost, AttemptAbandoned, StrayLands, StrayDies,
       Delivery, FoodArrivesAtDispatch, Assigned, MarkPickedUp, CourierDelivers,
       MarkDelivered, ChildAnswerLost, ChildAttemptAbandoned, ChildCancelled,
       ChildCleanup, Environment, KitchenDecides, SetPreparing, SetReady,
       RequestCancel, ParentSignal, FoodReadySignal, ReaperExpires, flow
  <2> QED
    BY <2>1
<1> QED
  BY <1>1, <1>2, <1>3, <1>4, <1>5 DEF Next

\* The workflow's own step, heard or not: only where it goes next is left open.
LEMMA OwnEffect ==
    ASSUME TypeOK, MoneyInv, pc \in ParentSteps, Perform(pc),
           UNCHANGED <<child, mail, strays>>
    PROVE  /\ Moves(pc) /\ PaidInv' /\ ChildInv' /\ CueInv'
           /\ \A s \in strays' : Licensed(s)'
           /\ Licensed(pc) /\ \A s \in {pc} : Licensed(s)'
<1>1. Moves(pc) /\ Licensed(pc) /\ PaidInv /\ ChildInv /\ CueInv
  BY EffectMoves DEF MoneyInv, SettlingInv
<1>2. pc \notin ChildSteps
  BY DEF ParentSteps, ForwardSteps, UnwindSteps, ChildSteps
<1>3. PaidInv'
  BY <1>1, PaidStep
<1>4. ChildInv' /\ CueInv'
  BY <1>1, <1>2, ChildStep
<1>5. \A s \in strays \cup {pc} : Licensed(s)'
  BY <1>1, LicenceKept DEF MoneyInv, SettlingInv
<1> QED
  BY <1>1, <1>3, <1>4, <1>5

LEMMA MoneyStep == TypeOK /\ MoneyInv /\ [Next]_vars => MoneyInv'
<1> SUFFICES ASSUME TypeOK, MoneyInv, [Next]_vars PROVE MoneyInv'
  OBVIOUS
<1> USE DEF row, books, flow, flags, child, vars
<1> DEFINE Early == ForwardSteps \cup {"create_order", "await_decision", "start_child"}
<1>0. SettlingInv /\ PaidInv /\ ChildInv /\ CueInv /\ PositionInv /\ PlanInv
  BY DEF MoneyInv
<1>1. CASE ForwardPath \/ DeliveryPath \/ UnwindPath
  <2>1. pc \in ParentSteps /\ Answered(pc)
    BY <1>1 DEF ForwardPath, DeliveryPath, UnwindPath, CreateOrderStep,
       ValidateAndReserve, MarkValidated, AuthorizePayment, RecordAuthorization,
       MarkCleared, ConfirmOrder, MarkAccepted, TryBeginCancel, TryNoRider,
       CancelDispatch, CapturePayment, CommitReservation, SettleOrder,
       BeginCancelStep, VoidAuthorization, ReleaseReservation, FinishCancelStep,
       Marked, Answered, ParentSteps, ForwardSteps, UnwindSteps
  <2>2. /\ Moves(pc) /\ PaidInv' /\ ChildInv' /\ CueInv'
        /\ (\A s \in strays' : Licensed(s)')
        /\ Licensed(pc) /\ \A s \in {pc} : Licensed(s)'
    BY <2>1, OwnEffect DEF Answered
  <2>3. UNCHANGED <<childPc, outcome, strays>>
    BY <2>1 DEF Answered
  <2>4. CASE ForwardPath
    <3>1. /\ pc \in ForwardSteps \cup {"create_order"}
          /\ pc' \in Early \cup {"begin_cancel", "FAILED"}
      BY <2>4 DEF ForwardPath, CreateOrderStep, ValidateAndReserve, MarkValidated,
         AuthorizePayment, RecordAuthorization, MarkCleared, ConfirmOrder, Marked,
         Unwind, Answered, ForwardSteps
    <3>2. Licensed(pc)'
      BY <3>1 DEF Licensed, Settling, ForwardSteps
    <3>3. PositionInv'
      BY <1>0, <2>2, <2>3, <3>1 DEF PositionInv, Moves, ForwardSteps, UnwindSteps
    <3> QED
      BY <1>0, <1>1, <2>2, <3>2, <3>3, PlanStep DEF MoneyInv, SettlingInv, Next
  <2>5. CASE DeliveryPath
    <3>1. CASE MarkAccepted \/ TryBeginCancel
      <4>1. /\ pc \in {"mark_accepted", "try_begin_cancel"}
            /\ pc' \in {"deliver", "FAILED", "await_child", "drain_child"}
            /\ pc' = "drain_child" => status' = "CANCELLING"
        BY <3>1 DEF MarkAccepted, TryBeginCancel, Marked, Answered
      <4>2. Licensed(pc)' /\ PositionInv'
        BY <1>0, <2>2, <2>3, <4>1 DEF Licensed, Settling, PositionInv, Moves,
           ForwardSteps, UnwindSteps, Unwinding
      <4> QED
        BY <1>0, <1>1, <2>2, <4>2, PlanStep DEF MoneyInv, SettlingInv, Next
    <3>2. CASE TryNoRider
      <4>1. /\ pc = "try_no_rider" /\ status' = "CANCELLING"
            /\ pc' = "cancel_dispatch"
        <5>1. pc = "try_no_rider" /\ status \in {"READY", "CANCELLING"}
          BY <3>2, <1>0 DEF TryNoRider, Answered, PositionInv, ChildInv, AfterReady, PastPickup
        <5>2. status' = "CANCELLING"
          BY <5>1, <3>2 DEF TryNoRider, Answered, Perform, BeginCancelFrom,
             CANCELLABLE_KITCHEN_STATES
        <5> QED
          BY <5>1, <5>2, <3>2 DEF TryNoRider
      <4>2. Licensed(pc)' /\ PositionInv'
        BY <1>0, <2>2, <2>3, <4>1 DEF Licensed, Settling, PositionInv, Moves,
           ForwardSteps, UnwindSteps, Unwinding
      <4> QED
        BY <1>0, <1>1, <2>2, <4>2, PlanStep DEF MoneyInv, SettlingInv, Next
    <3>3. CASE CancelDispatch
      <4>1. pc = "cancel_dispatch" /\ pc' \in UnwindSteps
        BY <3>3, UnwindFromTypes DEF CancelDispatch, Answered, TypeOK
      <4>2. Licensed(pc)' /\ PositionInv'
        BY <1>0, <2>2, <2>3, <4>1 DEF Licensed, Settling, PositionInv, Moves,
           ForwardSteps, UnwindSteps, Unwinding
      <4> QED
        BY <1>0, <1>1, <2>2, <4>2, PlanStep DEF MoneyInv, SettlingInv, Next
    <3>4. CASE CapturePayment \/ CommitReservation \/ SettleOrder
      <4>1. /\ pc \in Settling
            /\ \/ pc' \in {"FAILED", "SETTLED"}
               \/ pc' = "commit" /\ pay' = "CAPTURED"
               \/ pc = "commit" /\ pc' = "mark_settled"
        BY <3>4 DEF CapturePayment, CommitReservation, SettleOrder, Marked, Answered, Settling
      <4>2. Licensed(pc)'
        BY <2>2, <4>1 DEF Licensed, Settling
      <4>3. PositionInv'
        BY <1>0, <2>2, <2>3, <4>1 DEF PositionInv, Moves, Settling,
           ForwardSteps, UnwindSteps, Unwinding
      <4> QED
        BY <1>0, <1>1, <2>2, <4>2, <4>3, PlanStep DEF MoneyInv, SettlingInv, Next
    <3> QED
      BY <2>5, <3>1, <3>2, <3>3, <3>4 DEF DeliveryPath
  <2>6. CASE UnwindPath
    <3>1. /\ pc \in UnwindSteps \cup {"begin_cancel"}
          /\ pc' \in UnwindSteps \cup {"CANCELLED", "FAILED"}
          /\ pc' \in UnwindSteps => status' \in Unwinding
          /\ pc = "finish_cancel" => pc' = "CANCELLED"
      <4>1. CASE BeginCancelStep
        BY <4>1, UnwindFromTypes DEF BeginCancelStep, Answered, UnwindSteps, Unwinding, TypeOK
      <4>2. CASE VoidAuthorization \/ ReleaseReservation
        BY <4>2, <1>0, <2>2 DEF VoidAuthorization, ReleaseReservation, Answered,
           UnwindSteps, PositionInv, Moves
      <4>3. CASE FinishCancelStep
        <5>1. pc = "finish_cancel" /\ status' = "CANCELLED"
          BY <4>3, <1>0 DEF FinishCancelStep, Marked, Answered, Perform, FinishCancel,
             Transition, PositionInv, UnwindSteps, Unwinding
        <5> QED
          BY <5>1, <4>3 DEF FinishCancelStep, Marked, UnwindSteps
      <4> QED
        BY <2>6, <4>1, <4>2, <4>3 DEF UnwindPath
    <3>2. Licensed(pc)'
      BY <3>1 DEF Licensed, Settling, UnwindSteps
    <3>3. PositionInv'
      BY <1>0, <2>2, <2>3, <3>1 DEF PositionInv, Moves, ForwardSteps, UnwindSteps
    <3> QED
      BY <1>0, <1>1, <2>2, <3>2, <3>3, PlanStep DEF MoneyInv, SettlingInv, Next
  <2> QED
    BY <1>1, <2>4, <2>5, <2>6
<1>2. CASE Waits
  <2>1. UNCHANGED <<row, books, outcome, mail>> /\ UNCHANGED foodReady
    BY <1>2 DEF Waits, RanOutOfTime, Decided, AcceptTimeout, StartChild,
       DeliverOrCancel, DrainChild, AwaitChild
  <2>2. strays' \subseteq strays \cup ForwardSteps
    BY <1>2 DEF Waits, RanOutOfTime, Decided, AcceptTimeout, StartChild,
       DeliverOrCancel, DrainChild, AwaitChild
  <2>3. childPc' = childPc \/ (childPc = "unstarted" /\ childPc' = "await_food")
    BY <1>2, <1>0 DEF Waits, RanOutOfTime, Decided, AcceptTimeout, StartChild,
       DeliverOrCancel, DrainChild, AwaitChild, PositionInv
  <2>4. /\ pc \in ForwardSteps \cup ParentWaits
        /\ \/ pc' = "start_child" /\ pc \in Early /\ UNCHANGED childPc
           \/ pc' = "capture" /\ outcome = "DELIVERED"
           \/ pc' = "try_no_rider" /\ outcome = "NO_RIDER"
           \/ pc' \in UnwindSteps /\ pc = "drain_child"
           \/ pc' \in {"begin_cancel", "mark_accepted", "await_child",
                       "try_begin_cancel", "FAILED"}
    <3>1. CASE RanOutOfTime \/ Decided \/ AcceptTimeout
      BY <3>1 DEF RanOutOfTime, Decided, AcceptTimeout, Unwind, ParentWaits
    <3>2. CASE StartChild \/ DeliverOrCancel \/ AwaitChild
      BY <3>2 DEF StartChild, DeliverOrCancel, AwaitChild, ParentWaits
    <3>3. CASE DrainChild
      BY <3>3, UnwindFromTypes DEF DrainChild, ParentWaits, TypeOK
    <3> QED
      BY <1>2, <3>1, <3>2, <3>3 DEF Waits
  <2>5. PaidInv'
    BY <1>0, <2>1 DEF PaidInv
  <2>6. ChildInv'
    BY <1>0, <2>1, <2>2, <2>3 DEF ChildInv, BeforePickup, ForwardSteps, ChildSteps
  <2>7. CueInv'
    BY <1>0, <2>1 DEF CueInv
  <2>8. PositionInv'
    BY <1>0, <2>1, <2>2, <2>4 DEF PositionInv, ForwardSteps, UnwindSteps, ParentWaits, Unwinding
  <2>9. Licensed(pc)'
    BY <1>0, <2>1, <2>4 DEF Licensed, Settling, ChildInv, UnwindSteps
  <2>10. \A s \in strays' : Licensed(s)'
    BY <1>0, <2>1, <2>2 DEF SettlingInv, Licensed, Settling, ForwardSteps
  <2> QED
    BY <1>0, <1>2, <2>5, <2>6, <2>7, <2>8, <2>9, <2>10, PlanStep DEF MoneyInv, SettlingInv, Next
<1>3. CASE Attempts
  <2>1. CASE AnswerLost
    <3>1. /\ Moves(pc) /\ PaidInv' /\ ChildInv' /\ CueInv'
          /\ (\A s \in strays' : Licensed(s)')
          /\ Licensed(pc) /\ \A s \in {pc} : Licensed(s)'
      BY <2>1, OwnEffect DEF AnswerLost
    <3>2. UNCHANGED <<childPc, outcome, strays>> /\ pc' = FirstHalf(pc)
      BY <2>1 DEF AnswerLost
    <3>3. Licensed(pc)'
      BY <3>1, <3>2 DEF Licensed, Settling, FirstHalf
    <3>4. PositionInv'
      BY <1>0, <2>1, <3>1, <3>2 DEF AnswerLost, PositionInv, Moves, FirstHalf,
         ForwardSteps, UnwindSteps, ParentSteps
    <3> QED
      BY <1>0, <1>3, <3>1, <3>3, <3>4, PlanStep DEF MoneyInv, SettlingInv, Next
  <2>2. CASE AttemptAbandoned
    <3>1. /\ UNCHANGED <<row, books, childPc, outcome, mail>> /\ UNCHANGED foodReady
          /\ pc \in ParentSteps /\ pc' = FirstHalf(pc) /\ strays' = strays \cup {pc}
      BY <2>2 DEF AttemptAbandoned
    <3>2. PaidInv' /\ CueInv'
      BY <1>0, <3>1 DEF PaidInv, CueInv
    <3>3. ChildInv'
      BY <1>0, <3>1 DEF ChildInv, ParentSteps, ForwardSteps, UnwindSteps, ChildSteps
    <3>4. SettlingInv'
      BY <1>0, <3>1 DEF SettlingInv, Licensed, Settling, FirstHalf
    <3>5. PositionInv'
      BY <1>0, <3>1 DEF PositionInv, FirstHalf, ForwardSteps, UnwindSteps, ParentSteps
    <3> QED
      BY <1>0, <1>3, <3>2, <3>3, <3>4, <3>5, PlanStep DEF MoneyInv, Next
  <2>3. CASE StrayLands
    <3>1. PICK s \in strays :
             /\ Perform(s) /\ strays' = (strays \ {s}) \cup Continuation(s)
             /\ UNCHANGED <<flow, child, mail>>
      BY <2>3 DEF StrayLands
    <3>2. Moves(s) /\ Licensed(s)
      BY <1>0, <3>1, EffectMoves DEF SettlingInv
    <3>3. Continuation(s) \subseteq {"mark_validated", "record_auth", "mark_cleared", "mark_settled"}
      BY DEF Continuation
    <3>4. PaidInv'
      BY <1>0, <3>2, PaidStep
    <3>5. ChildInv' /\ CueInv'
      <4>1. strays' \cap ChildSteps \subseteq strays
        BY <3>1, <3>3 DEF ChildSteps
      <4>2. s \in ChildSteps => childPc \notin BeforePickup /\ outcome # "NO_RIDER"
        BY <1>0, <3>1 DEF ChildInv
      <4> QED
        BY <1>0, <3>1, <3>2, <4>1, <4>2, ChildStep
    <3>6. \A t \in strays \cup {pc} : Licensed(t)'
      BY <1>0, <3>2, LicenceKept DEF SettlingInv
    <3>7. "mark_settled" \in Continuation(s) => Licensed("mark_settled")'
      BY <3>2, <3>6, <3>1 DEF Continuation, Licensed, Settling
    <3>8. SettlingInv'
      <4>1. pc' = pc
        BY <3>1
      <4>2. \A t \in strays' : Licensed(t)'
        BY <3>1, <3>3, <3>6, <3>7 DEF Licensed, Settling
      <4> QED
        BY <4>1, <4>2, <3>6 DEF SettlingInv, Licensed
    <3>9. PositionInv'
      BY <1>0, <3>1, <3>2, <3>3 DEF PositionInv, Moves
    <3> QED
      BY <1>0, <1>3, <3>4, <3>5, <3>8, <3>9, PlanStep DEF MoneyInv, Next
  <2>4. CASE StrayDies
    <3>1. /\ UNCHANGED <<row, books, pc, childPc, outcome, mail>> /\ UNCHANGED foodReady
          /\ strays' \subseteq strays
      BY <2>4 DEF StrayDies
    <3>2. PaidInv' /\ CueInv' /\ ChildInv' /\ PositionInv'
      BY <1>0, <3>1 DEF PaidInv, CueInv, ChildInv, PositionInv
    <3>3. SettlingInv'
      BY <1>0, <3>1 DEF SettlingInv, Licensed
    <3> QED
      BY <1>0, <1>3, <3>2, <3>3, PlanStep DEF MoneyInv, Next
  <2> QED
    BY <1>3, <2>1, <2>2, <2>3, <2>4 DEF Attempts
<1>4. CASE Delivery
  <2>1. CASE MarkPickedUp \/ MarkDelivered \/ ChildAnswerLost
    <3>1. PICK s \in ChildSteps :
             /\ childPc = s /\ Perform(s) /\ UNCHANGED <<pc, mail, strays>>
             /\ childPc' # childPc => childPc' \in {"await_delivered", "closed"}
             /\ outcome' # outcome => childPc' = "closed"
             /\ outcome' = outcome \/ outcome' = "FAILED"
                \/ (outcome' = "DELIVERED" /\ status' = "DELIVERED")
      BY <2>1 DEF MarkPickedUp, MarkDelivered, ChildAnswerLost, CloseChild, ChildSteps
    <3>2. UNCHANGED foodReady
      BY <2>1 DEF MarkPickedUp, MarkDelivered, ChildAnswerLost
    <3>3. Moves(s) /\ Licensed(s) /\ outcome = "none"
      BY <1>0, <3>1, EffectMoves DEF Licensed, Settling, ChildSteps, ChildInv
    <3>4. PaidInv'
      BY <1>0, <3>3, PaidStep
    <3>5. ChildInv'
      BY <1>0, <3>1, <3>3 DEF ChildInv, ChildSteps, BeforePickup, Arrived
    <3>6. CueInv'
      BY <1>0, <3>1, <3>2, <3>3 DEF CueInv, Moves
    <3>7. \A t \in strays \cup {pc} : Licensed(t)'
      BY <1>0, <3>3, LicenceKept DEF SettlingInv
    <3>8. SettlingInv'
      BY <3>1, <3>7 DEF SettlingInv, Licensed
    <3>9. PositionInv'
      BY <1>0, <3>1, <3>3 DEF PositionInv, Moves, ChildSteps
    <3> QED
      BY <1>0, <1>4, <3>4, <3>5, <3>6, <3>8, <3>9, PlanStep DEF MoneyInv, Next
  <2>2. CASE \/ FoodArrivesAtDispatch \/ Assigned \/ CourierDelivers
             \/ ChildAttemptAbandoned \/ ChildCancelled \/ ChildCleanup
    <3>1. UNCHANGED <<row, books, pc, mail>> /\ UNCHANGED foodReady
      BY <2>2 DEF FoodArrivesAtDispatch, Assigned, CourierDelivers,
         ChildAttemptAbandoned, ChildCancelled, ChildCleanup
    <3>2. /\ strays' \subseteq strays \cup ChildSteps
          /\ strays' # strays => childPc \in ChildSteps /\ UNCHANGED <<childPc, outcome>>
      BY <2>2 DEF FoodArrivesAtDispatch, Assigned, CourierDelivers,
         ChildAttemptAbandoned, ChildCancelled, ChildCleanup
    <3>3. CueInv' /\ PaidInv'
      BY <1>0, <3>1 DEF CueInv, PaidInv
    <3>4. SettlingInv'
      BY <1>0, <3>1, <3>2 DEF SettlingInv, Licensed, Settling, ChildSteps
    <3>5. PositionInv'
      <4>1. pc \in Early => childPc' = "unstarted"
        BY <1>0, <2>2 DEF PositionInv, FoodArrivesAtDispatch, Assigned, CourierDelivers,
           ChildAttemptAbandoned, ChildCancelled, ChildCleanup, ChildOpen, ChildSteps
      <4>2. outcome = "NO_RIDER" => outcome' = "NO_RIDER"
        BY <1>0, <2>2 DEF ChildInv, FoodArrivesAtDispatch, Assigned, CourierDelivers,
           ChildAttemptAbandoned, ChildCancelled, ChildCleanup, ChildOpen, ChildSteps
      <4> QED
        BY <1>0, <3>1, <3>2, <4>1, <4>2 DEF PositionInv, ChildSteps
    <3>6. ChildInv'
      <4>1. CASE FoodArrivesAtDispatch
        <5>1. status \in AfterReady /\ childPc = "await_food" /\ childPc' = "assign"
              /\ UNCHANGED <<outcome, strays>>
          BY <4>1, <1>0 DEF FoodArrivesAtDispatch, CueInv, TypeOK
        <5> QED
          BY <5>1, <1>0, <3>1 DEF ChildInv, BeforePickup
      <4>2. CASE Assigned \/ CourierDelivers \/ ChildCancelled \/ ChildCleanup
        BY <4>2, <1>0, <3>1 DEF Assigned, CourierDelivers, ChildCancelled, ChildCleanup,
           CloseChild, ChildInv, BeforePickup, ChildOpen
      <4>3. CASE ChildAttemptAbandoned
        BY <4>3, <1>0, <3>1 DEF ChildAttemptAbandoned, ChildInv, BeforePickup, ChildSteps
      <4> QED
        BY <2>2, <4>1, <4>2, <4>3
    <3> QED
      BY <1>0, <1>4, <3>3, <3>4, <3>5, <3>6, PlanStep DEF MoneyInv, Next
  <2> QED
    BY <1>4, <2>1, <2>2 DEF Delivery
<1>5. CASE Environment
  <2>1. CASE SetPreparing \/ SetReady
    <3>1. /\ UNCHANGED <<pc, childPc, outcome, strays>> /\ UNCHANGED foodReady
          /\ "food_ready" \in mail' => "food_ready" \in mail \/ status' = "READY"
      BY <2>1 DEF SetPreparing, SetReady, Mark, Transition
    <3>2. Moves("kitchen")
      BY <2>1, KitchenMoves
    <3>3. PaidInv'
      BY <1>0, <3>2, PaidStep DEF Licensed, Settling
    <3>4. ChildInv'
      BY <1>0, <3>1, <3>2 DEF ChildInv, Moves, ChildSteps
    <3>5. CueInv'
      BY <1>0, <3>1, <3>2 DEF CueInv, Moves, AfterReady
    <3>6. \A t \in strays \cup {pc} : Licensed(t)'
      BY <1>0, <3>2, LicenceKept DEF SettlingInv
    <3>7. SettlingInv'
      BY <3>1, <3>6 DEF SettlingInv, Licensed
    <3>8. PositionInv'
      BY <1>0, <3>1, <3>2 DEF PositionInv, Moves
    <3> QED
      BY <1>0, <1>5, <3>3, <3>4, <3>5, <3>7, <3>8, PlanStep DEF MoneyInv, Next
  <2>2. CASE KitchenDecides \/ RequestCancel \/ ParentSignal \/ FoodReadySignal \/ ReaperExpires
    <3>1. UNCHANGED <<status, hold, pay, pc, childPc, outcome, strays>>
      BY <2>2 DEF KitchenDecides, RequestCancel, ParentSignal, FoodReadySignal, ReaperExpires
    <3>2. /\ "food_ready" \in mail' => "food_ready" \in mail
          /\ foodReady' = TRUE => foodReady = TRUE \/ "food_ready" \in mail
      <4>1. CASE FoodReadySignal
        BY <4>1 DEF FoodReadySignal
      <4>2. CASE KitchenDecides \/ RequestCancel \/ ParentSignal \/ ReaperExpires
        BY <4>2 DEF KitchenDecides, RequestCancel, ParentSignal, ReaperExpires
      <4> QED
        BY <2>2, <4>1, <4>2
    <3>3. CueInv'
      BY <1>0, <3>1, <3>2 DEF CueInv
    <3>4. PaidInv' /\ ChildInv' /\ PositionInv' /\ SettlingInv'
      BY <1>0, <3>1 DEF PaidInv, ChildInv, PositionInv, SettlingInv, Licensed
    <3> QED
      BY <1>0, <1>5, <3>3, <3>4, PlanStep DEF MoneyInv, Next
  <2> QED
    BY <1>5, <2>1, <2>2 DEF Environment
<1>6. CASE UNCHANGED vars
  <2>1. CueInv'
    BY <1>0, <1>6 DEF CueInv
  <2> QED
    BY <1>0, <1>6, <2>1 DEF MoneyInv, SettlingInv, Licensed, PaidInv, ChildInv, PositionInv, PlanInv
<1> QED
  BY <1>1, <1>2, <1>3, <1>4, <1>5, <1>6 DEF Next

\* The payment is captured only for a delivered order and an order is settled
\* only when it was captured, whatever is retried, lost or lands late.
THEOREM MoneyCorrect == Spec => []MoneyFollowsFood
<1>1. MoneyInv => MoneyFollowsFood
  BY DEF MoneyInv, PaidInv, MoneyFollowsFood, Arrived
<1> QED
  BY <1>1, MoneyInit, MoneyStep, TypeCorrect, PTL DEF Spec

-----------------------------------------------------------------------------

\* The groups of steps an abandoned attempt may still be at.
Drafting == {"create_order", "reserve", "mark_validated"}
Clearing == {"psp_authorize", "record_auth", "mark_cleared"}
TakingBack == {"try_begin_cancel", "try_no_rider"}
Underway == {"mark_accepted", "deliver", "try_begin_cancel", "await_child"}
Early == ForwardSteps \cup {"create_order", "await_decision", "start_child"}
LateSteps == {"try_begin_cancel", "try_no_rider"} \cup Settling
Unwound == UnwindSteps \cup {"drain_child", "cancel_dispatch", "CANCELLED"}

Unborn == {"absent", "PLACED", "VALIDATED"}
PreConfirm == Unborn \cup {"PAYMENT_CLEARED"}
Delivering == {"ACCEPTED", "PREPARING", "READY", "PICKED_UP", "DELIVERED"}

(* Each part speaks of the row and the books as they are, and of a control   *)
(* state given as arguments: where the workflow is (p), its plan (pl), where  *)
(* its child is (c) and how it closed (o), and the abandoned attempts (lost). *)
(* So an effect and the step that follows it can be looked at one by one.     *)

\* The saga gave up on a forward step, or failed to.
GivesUp(p, pl, expected) == p = "begin_cancel" /\ pl.expected \in expected
Fails(p, pl, expected) == p = "FAILED" /\ pl.expected = expected

\* Where the workflow may stand when the row is where it is: the row is at most
\* one step ahead of the last answer that the workflow heard.
WhereAt(p, pl) ==
    \/ status = "absent" /\ p = "create_order"
    \/ /\ status = "PLACED"
       /\ p \in Drafting \/ GivesUp(p, pl, {"PLACED"})
    \/ /\ status = "VALIDATED"
       /\ \/ p \in {"reserve", "mark_validated"} \cup Clearing
          \/ GivesUp(p, pl, {"PLACED", "VALIDATED"}) \/ Fails(p, pl, "PLACED")
    \/ /\ status = "PAYMENT_CLEARED"
       /\ \/ p \in Clearing \cup {"confirm_order"}
          \/ GivesUp(p, pl, {"VALIDATED", "PAYMENT_CLEARED"}) \/ Fails(p, pl, "VALIDATED")
    \/ /\ status = "CONFIRMED"
       /\ \/ p \in {"confirm_order", "await_decision", "start_child", "mark_accepted"}
          \/ GivesUp(p, pl, {"PAYMENT_CLEARED", "CONFIRMED"}) \/ Fails(p, pl, "PAYMENT_CLEARED")
    \/ status \in Delivering /\ p \in Underway
    \/ status \in Delivering \ {"ACCEPTED"} /\ p = "FAILED" /\ pl = NoPlan
    \/ status = "READY" /\ p = "try_no_rider"
    \/ status \in Arrived /\ p \in Settling
    \/ status = "SETTLED" /\ p = "SETTLED"
    \/ /\ status = "CANCELLING"
       /\ p \in {"begin_cancel"} \cup TakingBack \cup (Unwound \ {"CANCELLED"})
    \/ status = "CANCELLED" /\ p \in {"finish_cancel", "CANCELLED"}

\* An attempt that nobody waits for any more is of a stage the saga has reached.
StrayAt(p, pl, c, lost) ==
    /\ p = "create_order" => \A t \in lost : t = "create_order"
    /\ p \in Drafting \/ pl.expected = "PLACED" =>
          \A t \in lost : t \notin Clearing \cup {"confirm_order"}
    /\ p \in Clearing \/ pl.expected = "VALIDATED" => "confirm_order" \notin lost
    /\ "mark_accepted" \in lost \cup {p} \/ status \in Delivering \cup {"SETTLED"} =>
          c # "unstarted"
    /\ p \in Early \cup {"begin_cancel", "mark_accepted", "deliver", "FAILED"} =>
          \A t \in lost : t \notin LateSteps
    /\ p \in {"try_begin_cancel", "await_child", "drain_child"} =>
          \A t \in lost : t \notin Settling \cup {"try_no_rider"}
    /\ p \notin UnwindSteps \cup {"CANCELLED"} => \A t \in lost : t \notin UnwindSteps
    /\ p = "await_child" /\ "try_begin_cancel" \in lost => status \in {"PICKED_UP", "DELIVERED"}

\* A plan is made once, by the unwind that it is for.
IntentAt(p, pl, c) ==
    /\ p \notin Unwound \cup {"begin_cancel", "FAILED"} => pl = NoPlan
    /\ pl.expected # "absent" => c = "unstarted"
    /\ p = "begin_cancel" => pl.expected # "absent"
    /\ p \in Unwound /\ pl.expected \notin {"PLACED", "VALIDATED"} =>
          pl.void = TRUE /\ pl.release = TRUE
    /\ p = "begin_cancel" /\ pl.expected \in {"PAYMENT_CLEARED", "CONFIRMED"} =>
          pl.void = TRUE /\ pl.release = TRUE
    /\ pl.expected = "PLACED" =>
          pl.reason \in {"item_unavailable", "at_capacity", "system_timeout"}
    /\ pl.expected = "VALIDATED" => pl.reason \in {"payment_declined", "system_timeout"}
    /\ pl.expected = "PAYMENT_CLEARED" => pl.reason = "system_timeout"
    /\ pl.expected = "CONFIRMED" =>
          pl.reason \in {"customer_cancelled", "restaurant_rejected", "restaurant_timeout"}
    /\ pl.expected = "absent" =>
          pl.reason \in {"none", "customer_cancelled", "no_rider_available"}
    /\ p = "FAILED" => pl = NoPlan \/ pl.expected \in {"PLACED", "VALIDATED", "PAYMENT_CLEARED"}

\* What the child's position says of the row, and how it may have closed.
CourierAt(p, c, o, lost) ==
    /\ c = "mark_picked_up" => status \in {"READY", "PICKED_UP"} \cup Unwinding
    /\ c = "await_delivered" => status = "PICKED_UP"
    /\ c = "mark_delivered" => status \in {"PICKED_UP", "DELIVERED"}
    /\ c \notin {"mark_delivered", "closed"} =>
          "mark_delivered" \notin lost /\ status \notin Arrived
    /\ c = "cleanup" \/ o \in {"CANCELLED", "FAILED"} => status \in Unwinding \/ p \in Closed
    /\ c = "closed" => o # "none"
    /\ p \in Settling \cup {"SETTLED", "try_no_rider"} => c = "closed"
    /\ p \in Unwound \ {"drain_child"} => c \in {"unstarted", "closed"}

Cleared == {"PAYMENT_CLEARED", "CONFIRMED", "SETTLED"} \cup Delivering

\* What the card holds and the payment row says, along the path.
BooksAt(p, pl, lost) ==
    /\ pay = "none" => hold \in {"none", "held", "declined"}
    /\ pay = "AUTHORIZED" => hold = "held"
    /\ pay = "DECLINED" => hold = "declined"
    /\ pay = "VOIDED" => hold = "voided" /\ status \in Unwinding
    /\ "record_auth" \in lost \cup {p} => hold # "none"
    /\ "mark_cleared" \in lost \cup {p} \/ status \in Cleared \/ p \in TakingBack =>
          pay \notin {"none", "DECLINED"}
    /\ p \in Drafting \/ pl.expected = "PLACED" => hold = "none"
    /\ pl.reason = "payment_declined" => pay = "DECLINED"

\* Stock is held from validation on, and consumed only for food that arrived.
StockAt(p, lost) ==
    /\ "mark_validated" \in lost \cup {p} \/ status \in Cleared \cup {"VALIDATED"}
       \/ p \in TakingBack => resv # "none"
    /\ resv = "consumed" => status \in Arrived

\* An unwind from the kitchen's side of the order gives back what it finds.
Late(p, pl) == p \in Unwound \cup {"begin_cancel"} /\ pl.expected \notin {"PLACED", "VALIDATED"}
ReturnAt(p, pl) == Late(p, pl) =>
    /\ pay \in {"AUTHORIZED", "VOIDED"} /\ resv \notin {"none", "consumed"}
    /\ p \in {"release", "finish_cancel", "CANCELLED"} => pay = "VOIDED"
    /\ p \in {"finish_cancel", "CANCELLED"} => resv \in {"released", "expired"}

\* What is on record about a cancellation is what its unwind was told.
RecordAt(pl) ==
    /\ reason # "none" => status \in Unwinding
    /\ reason # "none" /\ pl.expected \in {"PLACED", "VALIDATED"} => reason = pl.reason
    /\ reason \in PRE_AUTHORIZATION_REASONS => pl.expected \in {"PLACED", "VALIDATED"}

\* The announcements that are evidence of an authorization.
Confirmations == {"CONFIRMED", "ACCEPTED", "PREPARING", "READY", "PICKED_UP"}
WasConfirmed == \E i \in DOMAIN events : events[i] \in Confirmations

\* Nobody who was confirmed is unwound as if nothing had been held.
EvidenceAt(pl) == WasConfirmed =>
    /\ pay \notin {"none", "DECLINED"}
    /\ status \in Unwinding => pl.expected \in {"absent", "CONFIRMED"}

\* What has been announced when the row is where it is.
Behind(s) ==
    IF s = "absent" THEN {}
    ELSE IF s \in {"PLACED", "VALIDATED", "PAYMENT_CLEARED"} THEN {"PLACED"}
    ELSE IF s = "CONFIRMED" THEN {"PLACED", "CONFIRMED"}
    ELSE IF s = "ACCEPTED" THEN {"PLACED", "CONFIRMED", "ACCEPTED"}
    ELSE IF s = "PREPARING" THEN {"PLACED", "CONFIRMED", "ACCEPTED", "PREPARING"}
    ELSE {"PLACED", "CONFIRMED", "ACCEPTED", "PREPARING", "READY"} \cup
         (IF s = "PICKED_UP" THEN {"PICKED_UP"}
          ELSE IF s = "DELIVERED" THEN {"PICKED_UP", "DELIVERED"}
          ELSE IF s = "SETTLED" THEN {"PICKED_UP", "DELIVERED", "SETTLED"}
          ELSE IF s = "CANCELLED" THEN {"CANCELLED"} ELSE {})
NewsInv ==
    /\ \A i \in DOMAIN events : events[i] \in Behind(status)
    /\ \A i, j \in DOMAIN events : events[i] = events[j] => i = j

\* The parts, for a control state and for the one the saga is in.
PathAt(p, pl, c, o, lost) ==
    /\ WhereAt(p, pl) /\ StrayAt(p, pl, c, lost) /\ CourierAt(p, c, o, lost)
    /\ BooksAt(p, pl, lost) /\ StockAt(p, lost) /\ ReturnAt(p, pl)
    /\ RecordAt(pl) /\ EvidenceAt(pl) /\ NewsInv
PathInv == IntentAt(pc, plan, childPc) /\ PathAt(pc, plan, childPc, outcome, strays)

-----------------------------------------------------------------------------
(* What one effect does, whoever attempts it. *)

\* The row is moved on from the state an effect expects, or left alone.
MovedBy(s) ==
    IF s = "create_order" /\ status = "absent" THEN "PLACED"
    ELSE IF s = "mark_validated" /\ status = "PLACED" THEN "VALIDATED"
    ELSE IF s = "mark_cleared" /\ status = "VALIDATED" THEN "PAYMENT_CLEARED"
    ELSE IF s = "confirm_order" /\ status = "PAYMENT_CLEARED" THEN "CONFIRMED"
    ELSE IF s = "mark_accepted" /\ status = "CONFIRMED" THEN "ACCEPTED"
    ELSE IF s = "mark_picked_up" /\ status = "READY" THEN "PICKED_UP"
    ELSE IF s = "mark_delivered" /\ status = "PICKED_UP" THEN "DELIVERED"
    ELSE IF s = "mark_settled" /\ status = "DELIVERED" THEN "SETTLED"
    ELSE IF s = "finish_cancel" /\ status = "CANCELLING" THEN "CANCELLED"
    ELSE IF s = "begin_cancel" /\ status = plan.expected THEN "CANCELLING"
    ELSE IF s \in {"try_begin_cancel", "try_no_rider"}
            /\ status \in CANCELLABLE_KITCHEN_STATES THEN "CANCELLING"
    ELSE status

\* The events follow the row.
NewsBy ==
    events' = IF status' = status \/ status' \notin Announced THEN events
                                                            ELSE Append(events, status')

\* The books move at four effects only.
BooksBy(s) ==
    \/ UNCHANGED <<pay, hold>>
    \/ s = "psp_authorize" /\ hold = "none" /\ hold' \in {"held", "declined"} /\ pay' = pay
    \/ /\ s = "record_auth" /\ pay = "none" /\ hold' = hold
       /\ pay' = IF hold = "declined" THEN "DECLINED" ELSE "AUTHORIZED"
    \/ s = "void" /\ pay = "AUTHORIZED" /\ pay' = "VOIDED" /\ hold' = "voided"
    \/ s = "capture" /\ pay = "AUTHORIZED" /\ pay' = "CAPTURED" /\ hold' = "captured"

StockBy(s) ==
    \/ UNCHANGED resv
    \/ s = "reserve" /\ resv = "none" /\ resv' = "active"
    \/ s = "release" /\ resv = "active" /\ resv' = "released"
    \/ s = "commit" /\ resv = "active" /\ resv' = "consumed"
    \/ s = "reaper" /\ resv = "active" /\ resv' = "expired"

\* The first writer of a cancellation leaves its reason.
ReasonBy(s) ==
    \/ UNCHANGED reason
    \/ /\ reason = "none" /\ s \in {"begin_cancel", "finish_cancel"} /\ reason' = plan.reason
       /\ status' # status
    \/ /\ reason = "none" /\ s = "try_begin_cancel" /\ reason' = "customer_cancelled"
       /\ status' = "CANCELLING" /\ status \in CANCELLABLE_KITCHEN_STATES
    \/ /\ reason = "none" /\ s = "try_no_rider" /\ reason' = "no_rider_available"
       /\ status' = "CANCELLING" /\ status \in CANCELLABLE_KITCHEN_STATES

\* What an activity does to the row, the news, the books, the stock and the reason.
LEMMA EffectDoes ==
    ASSUME plan.expected \in Statuses \ {"CANCELLING"}, NEW s, Perform(s)
    PROVE  status' = MovedBy(s) /\ NewsBy /\ BooksBy(s) /\ StockBy(s) /\ ReasonBy(s)
<1> USE DEF MovedBy, NewsBy, BooksBy, StockBy, ReasonBy, row, books
<1>1. CASE s \in {"create_order", "mark_validated", "mark_cleared", "confirm_order",
                  "mark_accepted", "mark_picked_up", "mark_delivered", "mark_settled"}
  BY <1>1 DEF Perform, CreateOrder, Mark, Transition, Announced
<1>2. CASE s \in {"reserve", "release", "commit", "cancel_dispatch"}
  BY <1>2 DEF Perform, Reserve, Release, Commit
<1>3. CASE s \in {"psp_authorize", "record_auth", "void", "capture"}
  BY <1>3 DEF Perform, PspAuthorize, RecordAuth, Void, Capture
<1>4. CASE s \in {"try_begin_cancel", "try_no_rider"}
  BY <1>4 DEF Perform, BeginCancelFrom, RecordCancellation, CANCELLABLE_KITCHEN_STATES,
     Announced
<1>5. CASE s \in {"begin_cancel", "finish_cancel"}
  BY <1>5 DEF Perform, BeginCancel, FinishCancel, RecordCancellation, Transition, Announced
<1> QED
  BY <1>1, <1>2, <1>3, <1>4, <1>5 DEF Perform
-----------------------------------------------------------------------------
(* An effect, looked at before anybody acts on its answer. *)

\* An unwind never expects the row to be gone already.
LEMMA PlanNames == PlanInv => plan.expected \in Statuses \ {"CANCELLING"}
BY DEF PlanInv, Statuses

\* Where the saga stands when an effect moves the row.
MoveAt(s, p, pl, c) ==
    \/ status' = status
    \/ s = "create_order" /\ status = "absent" /\ status' = "PLACED" /\ p = "create_order"
    \/ /\ s = "mark_validated" /\ status = "PLACED" /\ status' = "VALIDATED"
       /\ p \in {"reserve", "mark_validated"} \/ GivesUp(p, pl, {"PLACED"})
    \/ /\ s = "mark_cleared" /\ status = "VALIDATED" /\ status' = "PAYMENT_CLEARED"
       /\ p \in Clearing \/ GivesUp(p, pl, {"VALIDATED"})
    \/ /\ s = "confirm_order" /\ status = "PAYMENT_CLEARED" /\ status' = "CONFIRMED"
       /\ p = "confirm_order" \/ GivesUp(p, pl, {"PAYMENT_CLEARED"})
    \/ /\ s = "mark_accepted" /\ status = "CONFIRMED" /\ status' = "ACCEPTED"
       /\ p = "mark_accepted"
    \/ /\ s = "mark_picked_up" /\ status = "READY" /\ status' = "PICKED_UP"
       /\ p \in Underway \/ (p = "FAILED" /\ pl = NoPlan)
    \/ /\ s = "mark_delivered" /\ status = "PICKED_UP" /\ status' = "DELIVERED"
       /\ p \in Underway \/ (p = "FAILED" /\ pl = NoPlan)
    \/ s = "mark_settled" /\ status = "DELIVERED" /\ status' = "SETTLED" /\ p \in Settling
    \/ s = "finish_cancel" /\ status = "CANCELLING" /\ status' = "CANCELLED" /\ p = s
    \/ s = "begin_cancel" /\ status = pl.expected /\ status' = "CANCELLING" /\ p = s
    \/ /\ s \in TakingBack /\ status \in CANCELLABLE_KITCHEN_STATES
       /\ status' = "CANCELLING" /\ p \in TakingBack
    \/ s = "kitchen" /\ status = "ACCEPTED" /\ status' = "PREPARING"
    \/ s = "kitchen" /\ status = "PREPARING" /\ status' = "READY"

\* One effect, the kitchen's move or the reaper's, in full.
EffectAt(s, p, pl, c) ==
    MoveAt(s, p, pl, c) /\ NewsBy /\ BooksBy(s) /\ StockBy(s) /\ ReasonBy(s)

\* The row moves only where the saga's stage lets the activity move it.
LEMMA EffectMoveAt ==
    ASSUME TypeOK, MoneyInv, PathInv, NEW s \in strays \cup {pc, childPc}, Perform(s),
           NEW p, p = pc, NEW pl, pl = plan, NEW c, c = childPc, NEW o, o = outcome,
           NEW lost, lost = strays
    PROVE  MoveAt(s, p, pl, c)
<1>1. status' = MovedBy(s)
  BY EffectDoes, PlanNames DEF MoneyInv
<1>2. /\ WhereAt(p, pl) /\ StrayAt(p, pl, c, lost) /\ CourierAt(p, c, o, lost)
      /\ IntentAt(p, pl, c) /\ PositionInv /\ ChildInv /\ SettlingInv /\ PlanInv
      /\ s \in lost \cup {p, c}
  BY DEF PathInv, PathAt, MoneyInv
<1>3. c \in {"unstarted", "await_food", "assign", "await_delivered", "cleanup", "closed"} \cup ChildSteps
  BY DEF TypeOK
<1>4. pl.expected = "absent" \/ p \in Unwound \cup {"begin_cancel", "FAILED"}
  BY <1>2 DEF IntentAt, NoPlan, UnwindPlan
<1> USE DEF WhereAt, GivesUp, Fails, ChildSteps
<1>10. CASE s = "create_order" /\ status = "absent"
  BY <1>1, <1>2, <1>3, <1>10 DEF MovedBy, MoveAt, Delivering, Arrived
<1>11. CASE s = "mark_validated" /\ status = "PLACED"
  BY <1>1, <1>2, <1>3, <1>11 DEF MovedBy, MoveAt, StrayAt, Drafting, Delivering, Arrived
<1>12. CASE s = "mark_cleared" /\ status = "VALIDATED"
  BY <1>1, <1>2, <1>3, <1>12 DEF MovedBy, MoveAt, StrayAt, Drafting, Clearing, Delivering,
     Arrived
<1>13. CASE s = "confirm_order" /\ status = "PAYMENT_CLEARED"
  BY <1>1, <1>2, <1>3, <1>13 DEF MovedBy, MoveAt, StrayAt, Drafting, Clearing, Delivering,
     Arrived
<1>14. CASE s = "mark_accepted" /\ status = "CONFIRMED"
  BY <1>1, <1>2, <1>3, <1>14 DEF MovedBy, MoveAt, StrayAt, IntentAt, PositionInv,
     ForwardSteps, Delivering, Arrived
<1>15. CASE s = "mark_picked_up" /\ status = "READY"
  BY <1>1, <1>2, <1>3, <1>15 DEF MovedBy, MoveAt, ChildInv, BeforePickup, Underway,
     TakingBack, Delivering, PositionInv, Arrived
<1>16. CASE s = "mark_delivered" /\ status = "PICKED_UP"
  BY <1>1, <1>2, <1>3, <1>16 DEF MovedBy, MoveAt, Underway, Delivering, Arrived
<1>17. CASE s = "mark_settled" /\ status = "DELIVERED"
  BY <1>1, <1>2, <1>3, <1>17 DEF MovedBy, MoveAt, StrayAt, LateSteps, Early, Settling,
     Underway, TakingBack, Delivering, Arrived
<1>18. CASE s = "finish_cancel" /\ status = "CANCELLING"
  BY <1>1, <1>2, <1>3, <1>18 DEF MovedBy, MoveAt, StrayAt, TakingBack, UnwindSteps, Unwound,
     PositionInv, Delivering, Arrived
<1>19. CASE s = "begin_cancel" /\ status = pl.expected
  <2>1. PlanInv /\ (s = p \/ s \in lost)
    BY <1>2, <1>3, <1>19 DEF PlanInv
  <2>2. \/ p = "create_order"
        \/ p \in Drafting \cup Clearing \cup {"confirm_order", "await_decision", "start_child", "mark_accepted"}
        \/ p \in {"begin_cancel", "FAILED"}
    BY <2>1, <1>2, <1>19 DEF PlanInv, Drafting, Clearing, Delivering, Arrived
  <2>3. p \in {"begin_cancel", "FAILED"}
    <3>1. p # "create_order"
      BY <2>1, <1>2, <1>19 DEF StrayAt
    <3>2. status # "absent"
      BY <3>1, <1>2 DEF Delivering, Arrived
    <3> QED
      BY <2>2, <3>1, <3>2, <1>4, <1>19 DEF Drafting, Clearing, Unwound, UnwindSteps
  <2>4. p = "begin_cancel"
    BY <2>1, <2>3, <1>2, <1>19 DEF PlanInv, Delivering, Arrived, Drafting, Clearing,
       Underway, Settling, TakingBack, Unwound, UnwindSteps
  <2> QED
    BY <1>1, <1>19, <2>4 DEF MovedBy, MoveAt
<1>20. CASE s \in TakingBack /\ status \in CANCELLABLE_KITCHEN_STATES
  <2>1. /\ s \in LateSteps /\ (s = p \/ s \in lost) /\ status' = "CANCELLING"
        /\ status \in {"ACCEPTED", "PREPARING", "READY"}
    BY <1>1, <1>2, <1>3, <1>20 DEF MovedBy, TakingBack, CANCELLABLE_KITCHEN_STATES, LateSteps
  <2>2. p \in Underway \cup {"try_no_rider", "FAILED"}
    BY <1>2, <2>1 DEF Arrived
  <2>3. p \notin {"mark_accepted", "deliver", "FAILED"}
    BY <1>2, <1>20, <2>1 DEF StrayAt, LateSteps, TakingBack
  <2>4. p # "await_child"
    BY <1>2, <2>1, <1>20 DEF StrayAt, LateSteps, TakingBack
  <2> QED
    BY <1>20, <2>1, <2>2, <2>3, <2>4 DEF MoveAt, Underway, TakingBack
<1> QED
  BY <1>1, <1>10, <1>11, <1>12, <1>13, <1>14, <1>15, <1>16, <1>17, <1>18, <1>19, <1>20 DEF
     MovedBy, MoveAt, TakingBack

\* The whole of an effect, for whoever attempts it.
LEMMA PerformAt ==
    ASSUME TypeOK, MoneyInv, PathInv, NEW s \in strays \cup {pc, childPc}, Perform(s),
           NEW p, p = pc, NEW pl, pl = plan, NEW c, c = childPc, NEW o, o = outcome,
           NEW lost, lost = strays
    PROVE  EffectAt(s, p, pl, c)
BY EffectMoveAt, EffectDoes, PlanNames DEF EffectAt, MoneyInv

\* The kitchen's and the reaper's moves are effects of the same kind.
LEMMA KitchenAt ==
    ASSUME SetPreparing \/ SetReady, NEW p, NEW pl, NEW c
    PROVE  EffectAt("kitchen", p, pl, c) /\ UNCHANGED books
BY DEF SetPreparing, SetReady, Mark, Transition, EffectAt, MoveAt, NewsBy, BooksBy, StockBy,
   ReasonBy, books, Announced

\* The reaper ends a reservation and touches nothing else.
LEMMA ReaperAt ==
    ASSUME ReaperExpires, NEW p, NEW pl, NEW c
    PROVE  EffectAt("reaper", p, pl, c) /\ UNCHANGED row
BY DEF ReaperExpires, EffectAt, MoveAt, NewsBy, BooksBy, StockBy, ReasonBy, row

\* An effect takes the row at most one step ahead of what the workflow heard.
LEMMA EffectWhere ==
    ASSUME TypeOK, MoneyInv, PathInv, NEW p, p = pc, NEW pl, pl = plan, NEW c, c = childPc,
           NEW o, o = outcome, NEW lost, lost = strays,
           NEW s \in strays \cup {pc, childPc, "kitchen", "reaper"}, EffectAt(s, p, pl, c)
    PROVE  WhereAt(p, pl)'
<1>1. /\ WhereAt(p, pl) /\ StrayAt(p, pl, c, lost) /\ CourierAt(p, c, o, lost)
      /\ IntentAt(p, pl, c) /\ PositionInv /\ ChildInv /\ SettlingInv /\ PlanInv
      /\ s \in lost \cup {p, c, "kitchen", "reaper"}
      /\ MoveAt(s, p, pl, c)
  BY DEF PathInv, PathAt, MoneyInv, EffectAt
<1> QED
  BY <1>1 DEF MoveAt, WhereAt, GivesUp, Fails, Drafting, Clearing, Underway, Delivering,
     TakingBack, Arrived, Settling, Unwound, UnwindSteps, NoPlan, UnwindPlan,
     CANCELLABLE_KITCHEN_STATES

\* An effect leaves no abandoned attempt of a stage that was not reached.
LEMMA EffectStray ==
    ASSUME TypeOK, MoneyInv, PathInv, NEW p, p = pc, NEW pl, pl = plan, NEW c, c = childPc,
           NEW o, o = outcome, NEW lost, lost = strays,
           NEW s \in strays \cup {pc, childPc, "kitchen", "reaper"}, EffectAt(s, p, pl, c)
    PROVE  StrayAt(p, pl, c, lost)'
<1>1. /\ WhereAt(p, pl) /\ StrayAt(p, pl, c, lost) /\ CourierAt(p, c, o, lost)
      /\ IntentAt(p, pl, c) /\ PositionInv /\ ChildInv /\ SettlingInv /\ PlanInv
      /\ s \in lost \cup {p, c, "kitchen", "reaper"}
      /\ MoveAt(s, p, pl, c)
  BY DEF PathInv, PathAt, MoneyInv, EffectAt
<1>2. status' \in Delivering \cup {"SETTLED"} => c # "unstarted"
  BY <1>1 DEF MoveAt, StrayAt, Delivering, ChildInv, PositionInv
<1>3. p = "await_child" /\ "try_begin_cancel" \in lost => status' \in {"PICKED_UP", "DELIVERED"}
  BY <1>1 DEF MoveAt, StrayAt, Settling, TakingBack, CANCELLABLE_KITCHEN_STATES, GivesUp
<1> QED
  BY <1>1, <1>2, <1>3 DEF StrayAt

\* An effect leaves the courier's child where its parent may have it.
LEMMA EffectCourier ==
    ASSUME TypeOK, MoneyInv, PathInv, NEW p, p = pc, NEW pl, pl = plan, NEW c, c = childPc,
           NEW o, o = outcome, NEW lost, lost = strays,
           NEW s \in strays \cup {pc, childPc, "kitchen", "reaper"}, EffectAt(s, p, pl, c)
    PROVE  CourierAt(p, c, o, lost)'
<1>1. /\ WhereAt(p, pl) /\ StrayAt(p, pl, c, lost) /\ CourierAt(p, c, o, lost)
      /\ IntentAt(p, pl, c) /\ PositionInv /\ ChildInv /\ SettlingInv /\ PlanInv
      /\ s \in lost \cup {p, c, "kitchen", "reaper"}
      /\ MoveAt(s, p, pl, c)
  BY DEF PathInv, PathAt, MoneyInv, EffectAt
<1>7. /\ status = "PICKED_UP" => \/ status' = "PICKED_UP"
                                 \/ /\ status' = "DELIVERED" /\ s = "mark_delivered"
                                    /\ p # "mark_delivered"
      /\ status = "DELIVERED" => status' = "DELIVERED" \/ p \in Settling
  BY <1>1 DEF MoveAt, CANCELLABLE_KITCHEN_STATES, PlanInv, Underway
<1>2. c = "mark_picked_up" => status' \in {"READY", "PICKED_UP"} \cup Unwinding
  <2>1. status \in {"READY", "CANCELLING", "CANCELLED"} => status' \in {"READY", "PICKED_UP", "CANCELLING", "CANCELLED"}
    BY <1>1 DEF MoveAt, CANCELLABLE_KITCHEN_STATES, PlanInv
  <2> QED
    BY <1>1, <1>7, <2>1 DEF CourierAt, Unwinding
<1>3. c = "await_delivered" => status' = "PICKED_UP"
  BY <1>1, <1>7 DEF CourierAt
<1>4. c = "mark_delivered" => status' \in {"PICKED_UP", "DELIVERED"}
  BY <1>1, <1>7 DEF CourierAt, Settling
<1>5. c \notin {"mark_delivered", "closed"} => "mark_delivered" \notin lost /\ status' \notin Arrived
  BY <1>1 DEF MoveAt, CourierAt, Arrived, Underway, Settling
<1>6. status \in Unwinding => status' \in Unwinding
  BY <1>1 DEF MoveAt, Unwinding, CANCELLABLE_KITCHEN_STATES, PlanInv
<1> QED
  BY <1>1, <1>2, <1>3, <1>4, <1>5, <1>6 DEF CourierAt

\* An effect moves the payment only as the stage of the saga lets it.
LEMMA EffectBooks ==
    ASSUME TypeOK, MoneyInv, PathInv, NEW p, p = pc, NEW pl, pl = plan, NEW c, c = childPc,
           NEW o, o = outcome, NEW lost, lost = strays,
           NEW s \in strays \cup {pc, childPc, "kitchen", "reaper"}, EffectAt(s, p, pl, c)
    PROVE  BooksAt(p, pl, lost)'
<1>1. StrayAt(p, pl, c, lost) /\ s \in lost \cup {p, c, "kitchen", "reaper"}
  BY DEF PathInv, PathAt
<1>2. MoveAt(s, p, pl, c) /\ BooksBy(s) /\ StockBy(s)
  BY DEF EffectAt
<1>3. BooksAt(p, pl, lost)
  BY DEF PathInv, PathAt
<1>4. status' \in Cleared => status \in Cleared \/ s = "mark_cleared"
  BY <1>2 DEF MoveAt, Cleared, Delivering, CANCELLABLE_KITCHEN_STATES
<1>5. s = "mark_cleared" => "mark_cleared" \in lost \cup {p}
  BY <1>1 DEF MoneyInv, ChildInv, TypeOK, ChildSteps
<1>6. status \in Unwinding => status' \in Unwinding
  BY <1>2 DEF MoveAt, Unwinding, CANCELLABLE_KITCHEN_STATES, MoneyInv, PlanInv
<1>7. CASE UNCHANGED <<pay, hold>>
  BY <1>3, <1>4, <1>5, <1>6, <1>7 DEF BooksAt
<1>8. CASE s = "psp_authorize" /\ hold = "none" /\ hold' \in {"held", "declined"} /\ pay' = pay
  <2>1. "psp_authorize" \in lost \cup {p}
    BY <1>1, <1>8 DEF TypeOK, ChildSteps
  <2>2. p \notin Drafting /\ pl.expected # "PLACED"
    <3>1. IntentAt(p, pl, c)
      BY DEF PathInv
    <3> QED
      BY <1>1, <2>1, <3>1 DEF StrayAt, IntentAt, Drafting, Clearing, Unwound, UnwindSteps,
         NoPlan, UnwindPlan
  <2> QED
    BY <1>3, <1>4, <1>5, <1>8, <2>2 DEF BooksAt
<1>9. CASE /\ s = "record_auth" /\ pay = "none" /\ hold' = hold
           /\ pay' = IF hold = "declined" THEN "DECLINED" ELSE "AUTHORIZED"
  <2>1. hold # "none"
    BY <1>1, <1>3, <1>9 DEF BooksAt, TypeOK, ChildSteps
  <2> QED
    BY <1>3, <1>4, <1>9, <2>1 DEF BooksAt
<1>10. CASE s = "void" /\ pay = "AUTHORIZED" /\ pay' = "VOIDED" /\ hold' = "voided"
  <2>1. p \in UnwindSteps \cup {"CANCELLED"}
    BY <1>1, <1>10 DEF StrayAt, UnwindSteps, TypeOK, ChildSteps
  <2>2. status \in Unwinding
    <3>1. WhereAt(p, pl) /\ PositionInv
      BY DEF PathInv, PathAt, MoneyInv
    <3> QED
      BY <2>1, <3>1 DEF PositionInv, UnwindSteps, WhereAt, GivesUp, Fails, Drafting,
         Clearing, Underway, TakingBack, Settling, Unwinding
  <2> QED
    BY <1>3, <1>6, <1>10, <2>1, <2>2 DEF BooksAt, Drafting, UnwindSteps, Unwinding, Cleared,
       Delivering
<1>11. CASE s = "capture" /\ pay = "AUTHORIZED" /\ pay' = "CAPTURED" /\ hold' = "captured"
  BY <1>3, <1>4, <1>11 DEF BooksAt
<1> QED
  BY <1>2, <1>7, <1>8, <1>9, <1>10, <1>11 DEF BooksBy

\* A reservation is taken and given back in step with the row.
LEMMA EffectStock ==
    ASSUME TypeOK, MoneyInv, PathInv, NEW p, p = pc, NEW pl, pl = plan, NEW c, c = childPc,
           NEW o, o = outcome, NEW lost, lost = strays,
           NEW s \in strays \cup {pc, childPc, "kitchen", "reaper"}, EffectAt(s, p, pl, c)
    PROVE  StockAt(p, lost)'
<1>1. StrayAt(p, pl, c, lost) /\ s \in lost \cup {p, c, "kitchen", "reaper"}
  BY DEF PathInv, PathAt
<1>2. MoveAt(s, p, pl, c) /\ BooksBy(s) /\ StockBy(s)
  BY DEF EffectAt
<1>3. StockAt(p, lost)
  BY DEF PathInv, PathAt
<1>4. /\ status' \in Cleared \cup {"VALIDATED"} => status \in Cleared \cup {"VALIDATED"} \/ s = "mark_validated"
      /\ status \in Arrived => status' \in Arrived
  BY <1>2 DEF MoveAt, Cleared, Delivering, CANCELLABLE_KITCHEN_STATES, MoneyInv, PlanInv,
     Arrived
<1>5. s = "mark_validated" => "mark_validated" \in lost \cup {p}
  BY <1>1 DEF TypeOK, ChildSteps
<1>6. /\ resv' = "none" => resv = "none"
      /\ resv' = "consumed" => resv = "consumed" \/ s = "commit"
  BY <1>2 DEF StockBy
<1>7. s = "commit" => status \in Arrived
  BY <1>1 DEF MoneyInv, SettlingInv, Licensed, Settling, TypeOK, ChildSteps
<1> QED
  BY <1>3, <1>4, <1>5, <1>6, <1>7 DEF StockAt

\* What an unwind owes to give back, it gives back before it closes.
LEMMA EffectReturn ==
    ASSUME TypeOK, MoneyInv, PathInv, NEW p, p = pc, NEW pl, pl = plan, NEW c, c = childPc,
           NEW o, o = outcome, NEW lost, lost = strays,
           NEW s \in strays \cup {pc, childPc, "kitchen", "reaper"}, EffectAt(s, p, pl, c)
    PROVE  ReturnAt(p, pl)'
<1>1. StrayAt(p, pl, c, lost) /\ s \in lost \cup {p, c, "kitchen", "reaper"}
  BY DEF PathInv, PathAt
<1>2. MoveAt(s, p, pl, c) /\ BooksBy(s) /\ StockBy(s)
  BY DEF EffectAt
<1>3. ReturnAt(p, pl)
  BY DEF PathInv, PathAt
<1>4. SUFFICES ASSUME Late(p, pl) PROVE ReturnAt(p, pl)'
  BY DEF ReturnAt, Late
<1>5. /\ s \notin Settling
      /\ p = "begin_cancel" \/ p \in Unwound
  <2>1. status \notin Arrived
    <3>1. WhereAt(p, pl) /\ PlanInv
      BY DEF PathInv, PathAt, MoneyInv
    <3> QED
      BY <3>1, <1>4 DEF Late, WhereAt, GivesUp, Fails, Drafting, Clearing, Underway,
         TakingBack, Settling, Unwound, UnwindSteps, Arrived
  <2> QED
    BY <1>1, <1>4, <2>1 DEF MoneyInv, SettlingInv, Licensed, Late, TypeOK, ChildSteps, Settling
<1> QED
  BY <1>2, <1>3, <1>4, <1>5 DEF ReturnAt, Late, BooksBy, StockBy, Settling

\* The reason on the row is that of the plan which cancelled it.
LEMMA EffectRecord ==
    ASSUME TypeOK, MoneyInv, PathInv, NEW p, p = pc, NEW pl, pl = plan, NEW c, c = childPc,
           NEW o, o = outcome, NEW lost, lost = strays,
           NEW s \in strays \cup {pc, childPc, "kitchen", "reaper"}, EffectAt(s, p, pl, c)
    PROVE  RecordAt(pl)'
<1>1. RecordAt(pl) /\ IntentAt(p, pl, c) /\ PlanInv
  BY DEF PathInv, PathAt, MoneyInv
<1>2. MoveAt(s, p, pl, c) /\ ReasonBy(s)
  BY DEF EffectAt
<1>3. status \in Unwinding => status' \in Unwinding
  BY <1>1, <1>2 DEF MoveAt, Unwinding, CANCELLABLE_KITCHEN_STATES, PlanInv
<1>4. CASE UNCHANGED reason
  BY <1>1, <1>3, <1>4 DEF RecordAt
<1>5. CASE s \in {"begin_cancel", "finish_cancel"} /\ reason' = pl.reason /\ status' # status
  <2>1. status' \in Unwinding
    BY <1>2, <1>5 DEF MoveAt, Unwinding, TakingBack
  <2>2. pl.reason \in PRE_AUTHORIZATION_REASONS => pl.expected \in {"PLACED", "VALIDATED"}
    BY <1>1 DEF IntentAt, PlanInv, PRE_AUTHORIZATION_REASONS
  <2> QED
    BY <1>5, <2>1, <2>2 DEF RecordAt
<1>6. CASE /\ s \in TakingBack /\ reason' \in {"customer_cancelled", "no_rider_available"}
           /\ status' = "CANCELLING" /\ status \in CANCELLABLE_KITCHEN_STATES
  <2>1. p \in TakingBack
    BY <1>2, <1>6 DEF MoveAt, TakingBack, CANCELLABLE_KITCHEN_STATES
  <2>2. pl.expected = "absent"
    BY <1>1, <2>1 DEF IntentAt, TakingBack, Unwound, UnwindSteps, NoPlan, UnwindPlan
  <2> QED
    BY <1>6, <2>2 DEF RecordAt, Unwinding, PRE_AUTHORIZATION_REASONS
<1> QED
  BY <1>2, <1>4, <1>5, <1>6 DEF ReasonBy, TakingBack

\* A move never repeats what was announced, and forgets nothing.
LEMMA MoveNews ==
    ASSUME TypeOK, MoneyInv, PathInv, NEW p, p = pc, NEW pl, pl = plan, NEW c, c = childPc,
           NEW o, o = outcome, NEW lost, lost = strays,
           NEW s \in strays \cup {pc, childPc, "kitchen", "reaper"}, EffectAt(s, p, pl, c)
    PROVE  \/ status' = status
           \/ /\ status' \notin Behind(status)
              /\ Behind(status) \subseteq Behind(status')
              /\ status' \in Announced => status' \in Behind(status')
<1>1. MoveAt(s, p, pl, c) /\ PlanInv /\ IntentAt(p, pl, c)
  BY DEF PathInv, EffectAt, MoneyInv
<1>2. s = "begin_cancel" /\ status' # status => status \in {"PLACED", "VALIDATED", "PAYMENT_CLEARED", "CONFIRMED"}
  BY <1>1 DEF MoveAt, IntentAt, PlanInv, TakingBack
<1> QED
  BY <1>1, <1>2 DEF MoveAt, Behind, Announced, CANCELLABLE_KITCHEN_STATES

\* The outbox tells each status the row has been in, and no other.
LEMMA EffectNews ==
    ASSUME TypeOK, MoneyInv, PathInv, NEW p, p = pc, NEW pl, pl = plan, NEW c, c = childPc,
           NEW o, o = outcome, NEW lost, lost = strays,
           NEW s \in strays \cup {pc, childPc, "kitchen", "reaper"}, EffectAt(s, p, pl, c)
    PROVE  NewsInv'
<1>1. NewsInv /\ NewsBy /\ events \in Seq(Announced)
  BY DEF PathInv, PathAt, EffectAt, TypeOK
<1>2. CASE events' = events
  BY <1>1, <1>2, MoveNews DEF NewsInv
<1>3. CASE status' # status /\ status' \in Announced /\ events' = Append(events, status')
  <2>1. /\ DOMAIN events' = 1 .. Len(events) + 1 /\ DOMAIN events = 1 .. Len(events)
        /\ events'[Len(events) + 1] = status' /\ Len(events) \in Nat
        /\ \A i \in DOMAIN events : events'[i] = events[i]
    BY <1>1, <1>3
  <2>2. \A i \in DOMAIN events : events'[i] \in Behind(status) /\ events'[i] # status'
    BY <1>1, <1>3, <2>1, MoveNews DEF NewsInv
  <2>3. \A i \in DOMAIN events' : i \in DOMAIN events \/ i = Len(events) + 1
    BY <2>1
  <2>4. \A i \in DOMAIN events' : events'[i] \in Behind(status')
    BY <1>3, <2>1, <2>2, <2>3, MoveNews
  <2>5. \A i, j \in DOMAIN events' : events'[i] = events'[j] => i = j
    BY <1>1, <2>1, <2>2, <2>3 DEF NewsInv
  <2> QED
    BY <2>4, <2>5 DEF NewsInv
<1> QED
  BY <1>1, <1>2, <1>3 DEF NewsBy

\* The announcements agree with the money an unwind may find held.
LEMMA EffectEvidence ==
    ASSUME TypeOK, MoneyInv, PathInv, NEW p, p = pc, NEW pl, pl = plan, NEW c, c = childPc,
           NEW o, o = outcome, NEW lost, lost = strays,
           NEW s \in strays \cup {pc, childPc, "kitchen", "reaper"}, EffectAt(s, p, pl, c)
    PROVE  EvidenceAt(pl)'
<1>1. EvidenceAt(pl) /\ NewsInv /\ IntentAt(p, pl, c) /\ PlanInv
  BY DEF PathInv, PathAt, MoneyInv
<1>2. MoveAt(s, p, pl, c) /\ BooksBy(s) /\ NewsBy /\ events \in Seq(Announced)
  BY DEF EffectAt, TypeOK
<1>3. SUFFICES ASSUME WasConfirmed' PROVE /\ pay' \notin {"none", "DECLINED"}
                                          /\ status' \in Unwinding => pl.expected \in {"absent", "CONFIRMED"}
  BY DEF EvidenceAt
<1>4. CASE WasConfirmed
  <2>1. pay' \notin {"none", "DECLINED"}
    BY <1>1, <1>2, <1>4 DEF EvidenceAt, BooksBy
  <2>2. status \notin {"absent", "PLACED", "VALIDATED", "PAYMENT_CLEARED"}
    BY <1>1, <1>4 DEF WasConfirmed, Confirmations, NewsInv, Behind
  <2>3. p \in TakingBack => pl.expected = "absent"
    BY <1>1 DEF IntentAt, TakingBack, Unwound, UnwindSteps, NoPlan, UnwindPlan
  <2>4. status' \in Unwinding => status \in Unwinding \/ pl.expected \in {"absent", "CONFIRMED"}
    BY <1>1, <1>2, <2>2, <2>3 DEF MoveAt, Unwinding, PlanInv
  <2> QED
    BY <1>1, <1>4, <2>1, <2>4 DEF EvidenceAt
<1>5. CASE ~WasConfirmed
  <2>1. status' \in Confirmations
    <3>1. PICK i \in DOMAIN events' : events'[i] \in Confirmations
      BY <1>3 DEF WasConfirmed
    <3>2. events' = Append(events, status')
      BY <1>2, <1>5, <3>1 DEF NewsBy, WasConfirmed
    <3>3. i \in DOMAIN events \/ i = Len(events) + 1
      BY <1>2, <3>1, <3>2
    <3>4. i \in DOMAIN events => events'[i] = events[i]
      BY <1>2, <3>2
    <3>5. events'[Len(events) + 1] = status'
      BY <1>2, <3>2
    <3> QED
      BY <1>5, <3>1, <3>3, <3>4, <3>5 DEF WasConfirmed
  <2>2. BooksAt(p, pl, lost)'
    BY EffectBooks
  <2> QED
    BY <2>1, <2>2 DEF BooksAt, Confirmations, Cleared, Delivering, Unwinding
<1> QED
  BY <1>4, <1>5

\* An effect leaves the saga where it may be, before anybody acts on its answer.
LEMMA EffectKeepsPath ==
    ASSUME TypeOK, MoneyInv, PathInv, NEW p, p = pc, NEW pl, pl = plan, NEW c, c = childPc,
           NEW o, o = outcome, NEW lost, lost = strays,
           NEW s \in strays \cup {pc, childPc, "kitchen", "reaper"}, EffectAt(s, p, pl, c)
    PROVE  PathAt(p, pl, c, o, lost)'
BY EffectWhere, EffectStray, EffectCourier, EffectBooks, EffectStock, EffectReturn,
   EffectRecord, EffectNews,
   EffectEvidence DEF PathAt

-----------------------------------------------------------------------------
(* What the workflow does with an answer: it goes on, gives up, or takes the *)
(* order back.  The row and the books stand as the effect left them.         *)

\* The workflow goes on from p to q with its plan, having been told what the row says.
Follows(p, pl, c, o, q) ==
    \/ p = "create_order" /\ q = "reserve" /\ status # "absent"
    \/ p = "reserve" /\ q = "mark_validated" /\ resv # "none"
    \/ p = "mark_validated" /\ q = "psp_authorize" /\ status # "PLACED"
    \/ p = "psp_authorize" /\ q = "record_auth" /\ hold # "none"
    \/ p = "record_auth" /\ q = "mark_cleared" /\ pay \notin {"none", "DECLINED"}
    \/ p = "mark_cleared" /\ q = "confirm_order" /\ status # "VALIDATED"
    \/ p = "confirm_order" /\ q = "await_decision" /\ status # "PAYMENT_CLEARED"
    \/ p = "await_decision" /\ q = "start_child"
    \/ p = "mark_accepted" /\ q = "deliver" /\ status # "CONFIRMED"
    \/ p = "deliver" /\ q \in {"await_child", "try_begin_cancel"}
    \/ p = "try_begin_cancel" /\ q = "await_child" /\ status \in {"PICKED_UP", "DELIVERED"}
    \/ p = "await_child" /\ q = "capture" /\ c = "closed" /\ o = "DELIVERED"
    \/ p = "await_child" /\ q = "try_no_rider" /\ c = "closed" /\ o = "NO_RIDER"
    \/ p = "capture" /\ q = "commit"
    \/ p = "commit" /\ q = "mark_settled"
    \/ p = "mark_settled" /\ q = "SETTLED" /\ status = "SETTLED"
    \/ p = "finish_cancel" /\ q = "CANCELLED" /\ status = "CANCELLED"
    \/ p = "mark_accepted" /\ q = "FAILED" /\ status \notin {"CONFIRMED", "ACCEPTED"}
    \/ p = "begin_cancel" /\ q = "FAILED" /\ status \notin {"CANCELLING", pl.expected}

\* The compensations, in the order the plan asks for.
Compensates(p, pl, c, q) ==
    /\ q \in UnwindSteps
    /\ \/ p \in {"begin_cancel", "cancel_dispatch"} /\ status = "CANCELLING"
       \/ p = "drain_child" /\ c = "closed"
       \/ p = "void"
       \/ p = "release" /\ q = "finish_cancel"
    /\ Late(p, pl) => \/ p \notin {"void", "release"} /\ q = "void"
                      \/ p = "void" /\ q = "release" /\ pay = "VOIDED"
                      \/ p = "release" /\ resv \in {"released", "expired"}

\* The next step is one the plan and the child allow.
LEMMA FollowsIntent ==
    ASSUME NEW p, NEW pl, NEW c, NEW o, NEW q, IntentAt(p, pl, c), WhereAt(p, pl)',
           pl.expected \in {"absent", "PLACED", "VALIDATED", "PAYMENT_CLEARED", "CONFIRMED"},
           Follows(p, pl, c, o, q)' \/ Compensates(p, pl, c, q)'
    PROVE  IntentAt(q, pl, c)
<1>1. CASE p = "begin_cancel" /\ q = "FAILED" /\ status' \notin {"CANCELLING", pl.expected}
  <2>1. pl.expected \in {"PLACED", "VALIDATED", "PAYMENT_CLEARED"}
    BY <1>1 DEF WhereAt, GivesUp, Fails, Delivering, Arrived, Drafting, Clearing, Underway,
       Settling, TakingBack, Unwound, UnwindSteps
  <2> QED
    BY <1>1, <2>1 DEF IntentAt, Unwound, UnwindSteps
<1>2. CASE Compensates(p, pl, c, q)'
  <2>1. p \in Unwound \cup {"begin_cancel"} /\ q \in Unwound
    BY <1>2 DEF Compensates, Unwound, UnwindSteps
  <2> QED
    BY <1>2, <2>1 DEF IntentAt, Unwound, UnwindSteps, Compensates
<1>3. CASE p = "finish_cancel" /\ q = "CANCELLED"
  BY <1>3 DEF IntentAt, Unwound, UnwindSteps
<1>4. CASE /\ p \notin Unwound \cup {"begin_cancel", "FAILED"} 
           /\ q \notin Unwound \cup {"begin_cancel"}
  BY <1>4 DEF IntentAt, Unwound, UnwindSteps, NoPlan, UnwindPlan
<1> QED
  BY <1>1, <1>2, <1>3, <1>4 DEF Follows, Unwound, UnwindSteps

\* An answer that lets the saga go on leaves it where the row is.
LEMMA FollowsPath ==
    ASSUME NEW p, NEW pl, NEW c, NEW o, NEW lost, NEW q, IntentAt(p, pl, c),
           pl.expected \in {"absent", "PLACED", "VALIDATED", "PAYMENT_CLEARED", "CONFIRMED"},
           PathAt(p, pl, c, o, lost)', PaidInv', ChildInv', childPc' = c, outcome' = o,
           Follows(p, pl, c, o, q)'
    PROVE  PathAt(q, pl, c, o, lost)'
<1> USE DEF Follows
<1>1. WhereAt(q, pl)'
  BY DEF PathAt, WhereAt, Drafting, Clearing, Underway, Settling, TakingBack, Unwound,
     UnwindSteps, GivesUp, Fails,
     Delivering, Arrived, IntentAt, ChildInv, AfterReady, PastPickup
<1>2. StrayAt(q, pl, c, lost)'
  BY DEF PathAt, StrayAt, Drafting, Clearing, Settling, LateSteps, Early, ForwardSteps,
     UnwindSteps, IntentAt, NoPlan, UnwindPlan, Unwound
<1>3. CourierAt(q, c, o, lost)'
  BY DEF PathAt, CourierAt, Settling, Unwound, UnwindSteps, Closed
<1>0. q \in TakingBack => status' \in Cleared
  BY DEF PathAt, WhereAt, GivesUp, Fails, Drafting, Clearing, Settling, Unwound, UnwindSteps,
     TakingBack, Cleared, Delivering
<1>4. BooksAt(q, pl, lost)'
  BY <1>0 DEF PathAt, BooksAt, Drafting
<1>5. StockAt(q, lost)'
  BY <1>0 DEF PathAt, StockAt
<1>6. ReturnAt(q, pl)'
  BY DEF PathAt, ReturnAt, Late, Unwound, UnwindSteps
<1> QED
  BY <1>1, <1>2, <1>3, <1>4, <1>5, <1>6 DEF PathAt

\* So does an answer heard while it unwinds.
LEMMA CompensatesPath ==
    ASSUME NEW p, NEW pl, NEW c, NEW o, NEW lost, NEW q, IntentAt(p, pl, c),
           pl.expected \in {"absent", "PLACED", "VALIDATED", "PAYMENT_CLEARED", "CONFIRMED"},
           PathAt(p, pl, c, o, lost)', PaidInv', ChildInv', childPc' = c, outcome' = o,
           Compensates(p, pl, c, q)'
    PROVE  PathAt(q, pl, c, o, lost)'
<1> USE DEF Compensates
<1>1. WhereAt(q, pl)'
  BY DEF PathAt, WhereAt, Drafting, Clearing, Underway, Settling, TakingBack, Unwound,
     UnwindSteps, GivesUp, Fails
<1>2. StrayAt(q, pl, c, lost)'
  BY DEF PathAt, StrayAt, Drafting, Clearing, Settling, LateSteps, Early, ForwardSteps,
     UnwindSteps
<1>3. CourierAt(q, c, o, lost)'
  BY DEF PathAt, CourierAt, Settling, Unwound, UnwindSteps, Closed, IntentAt
<1>4. BooksAt(q, pl, lost)'
  BY DEF PathAt, BooksAt, Drafting, TakingBack, UnwindSteps
<1>5. StockAt(q, lost)'
  BY DEF PathAt, StockAt, TakingBack, UnwindSteps
<1>6. ReturnAt(q, pl)'
  BY DEF PathAt, ReturnAt, Late, Unwound, UnwindSteps
<1> QED
  BY <1>1, <1>2, <1>3, <1>4, <1>5, <1>6 DEF PathAt

\* A plan the workflow makes when it gives up on p, and what it knows then.
MakesPlan(p, ql) ==
    \/ /\ p = "reserve" /\ resv = "none" /\ ql.expected = "PLACED"
       /\ ql.reason \in {"item_unavailable", "at_capacity"}
    \/ /\ p = "record_auth" /\ pay = "DECLINED" /\ ql.expected = "VALIDATED"
       /\ ql.reason = "payment_declined"
    \/ /\ p \in ForwardSteps /\ ql.expected = Stage(p) /\ ql.reason = "system_timeout"
       /\ ql.expected = "PAYMENT_CLEARED" => ql.void = TRUE /\ ql.release = TRUE
    \/ /\ p = "await_decision" /\ ql.expected = "CONFIRMED" /\ ql.void = TRUE /\ ql.release = TRUE
       /\ ql.reason \in {"customer_cancelled", "restaurant_rejected", "restaurant_timeout"}

\* So does a forward step given up, with the plan made for it.
LEMMA GivesUpPath ==
    ASSUME NEW p, NEW pl, NEW c, NEW o, NEW lost, NEW ql, IntentAt(p, pl, c),
           p \in ForwardSteps \cup {"await_decision"} => c = "unstarted",
           TypeOK', PathAt(p, pl, c, o, lost)', PaidInv', MakesPlan(p, ql)'
    PROVE  IntentAt("begin_cancel", ql, c) /\ PathAt("begin_cancel", ql, c, o, lost)'
<1> USE DEF MakesPlan, ForwardSteps, Stage
<1>0. /\ c = "unstarted" /\ status' \notin Unwinding \cup Arrived
      /\ p \in ForwardSteps \cup {"await_decision"}
      /\ p \in {"await_decision", "confirm_order"} => status' \in Cleared
  BY DEF PathAt, WhereAt, GivesUp, Fails, Drafting, Clearing, Underway, Settling, Unwound,
     UnwindSteps, TakingBack, Cleared, Delivering, Arrived, Unwinding
<1>1. WhereAt("begin_cancel", ql)'
  BY <1>0 DEF PathAt, WhereAt, Drafting, Clearing, Underway, Settling, GivesUp, Fails
<1>2. StrayAt("begin_cancel", ql, c, lost)'
  BY <1>0 DEF PathAt, StrayAt, Drafting, Clearing, Early, UnwindSteps
<1>3. CourierAt("begin_cancel", c, o, lost)'
  BY <1>0 DEF PathAt, CourierAt, Settling, Unwound, UnwindSteps, Closed
<1>4. BooksAt("begin_cancel", ql, lost)'
  BY <1>0 DEF PathAt, BooksAt, Drafting, TakingBack
<1>5. StockAt("begin_cancel", lost)'
  BY DEF PathAt, StockAt, TakingBack
<1>6. ReturnAt("begin_cancel", ql)'
  BY <1>0 DEF PathAt, ReturnAt, Late, Unwound, UnwindSteps, BooksAt, StockAt, PaidInv, TypeOK
<1>7. RecordAt(ql)' /\ EvidenceAt(ql)'
  BY <1>0 DEF PathAt, RecordAt, EvidenceAt, PRE_AUTHORIZATION_REASONS
<1>8. IntentAt("begin_cancel", ql, c)
  BY <1>0 DEF IntentAt, Unwound, UnwindSteps
<1> QED
  BY <1>1, <1>2, <1>3, <1>4, <1>5, <1>6, <1>7, <1>8 DEF PathAt

\* From the kitchen, the order is taken back for its customer or for want of a rider.
LEMMA TakesBackPath ==
    ASSUME NEW p, NEW pl, NEW c, NEW o, NEW lost, NEW q, NEW ql, IntentAt(p, pl, c),
           TypeOK', PathAt(p, pl, c, o, lost)', PaidInv', status' = "CANCELLING",
           \/ p = "try_begin_cancel" /\ q = "drain_child"
           \/ p = "try_no_rider" /\ q = "cancel_dispatch",
           ql.expected = pl.expected, ql.void = TRUE, ql.release = TRUE,
           ql.reason \in {"customer_cancelled", "no_rider_available"}
    PROVE  IntentAt(q, ql, c) /\ PathAt(q, ql, c, o, lost)'
<1>0. pl.expected = "absent" /\ p \in TakingBack
  BY DEF IntentAt, NoPlan, UnwindPlan, TakingBack, Unwound, UnwindSteps
<1>1. WhereAt(q, ql)'
  BY DEF WhereAt, Unwound, TakingBack
<1>2. StrayAt(q, ql, c, lost)'
  BY <1>0 DEF PathAt, StrayAt, Drafting, Clearing, Early, UnwindSteps, ForwardSteps
<1>3. CourierAt(q, c, o, lost)'
  BY <1>0 DEF PathAt, CourierAt, Settling, Unwound, UnwindSteps, Unwinding
<1>4. BooksAt(q, ql, lost)'
  BY <1>0 DEF PathAt, BooksAt, Drafting, TakingBack
<1>5. StockAt(q, lost)'
  BY <1>0 DEF PathAt, StockAt, TakingBack
<1>6. ReturnAt(q, ql)'
  BY <1>0 DEF PathAt, ReturnAt, Late, UnwindSteps, BooksAt, StockAt, PaidInv, Arrived, TypeOK
<1>7. RecordAt(ql)' /\ EvidenceAt(ql)'
  BY <1>0 DEF PathAt, RecordAt, EvidenceAt
<1>8. IntentAt(q, ql, c)
  BY <1>0 DEF IntentAt, Unwound, UnwindSteps
<1> QED
  BY <1>1, <1>2, <1>3, <1>4, <1>5, <1>6, <1>7, <1>8 DEF PathAt

\* A retry starts its activity over; an abandoned attempt may be left behind.
LEMMA RetriesPath ==
    ASSUME NEW p \in ParentSteps, NEW pl, NEW c, NEW o, NEW lost, NEW left, IntentAt(p, pl, c),
           PathAt(p, pl, c, o, lost)', left \in {lost, lost \cup {p}}
    PROVE  IntentAt(FirstHalf(p), pl, c) /\ PathAt(FirstHalf(p), pl, c, o, left)'
<1> USE DEF FirstHalf
<1>1. WhereAt(FirstHalf(p), pl)'
  BY DEF PathAt, WhereAt, Drafting, Clearing, Underway, Settling, TakingBack, Unwound,
     UnwindSteps, GivesUp, Fails
<1>0. p \in Unwound \cup {"begin_cancel"} \/ pl.expected = "absent"
  BY DEF IntentAt, NoPlan, UnwindPlan, ParentSteps, ForwardSteps, UnwindSteps
<1>2. StrayAt(FirstHalf(p), pl, c, left)'
  BY <1>0 DEF PathAt, StrayAt, Drafting, Clearing, Early, ForwardSteps, LateSteps, Settling,
     UnwindSteps,
     ParentSteps, Unwound
<1>3. CourierAt(FirstHalf(p), c, o, left)'
  BY DEF PathAt, CourierAt, Settling, Unwound, UnwindSteps, ParentSteps, ForwardSteps, Closed
<1>4. BooksAt(FirstHalf(p), pl, left)'
  BY DEF PathAt, BooksAt, Drafting, TakingBack
<1>5. StockAt(FirstHalf(p), left)'
  BY DEF PathAt, StockAt, TakingBack
<1>6. ReturnAt(FirstHalf(p), pl)'
  BY DEF PathAt, ReturnAt, Late, Unwound, UnwindSteps
<1>7. IntentAt(FirstHalf(p), pl, c)
  BY DEF IntentAt, Unwound, UnwindSteps
<1> QED
  BY <1>1, <1>2, <1>3, <1>4, <1>5, <1>6, <1>7 DEF PathAt

\* An abandoned attempt runs on to its next effect, or dies.
LEMMA StraysPath ==
    ASSUME NEW p, NEW pl, NEW c, NEW o, NEW lost, NEW s \in lost, NEW left,
           PathAt(p, pl, c, o, lost)', left \subseteq lost \cup Continuation(s),
           s = "psp_authorize" => hold' # "none", pay' # "none" \/ s # "record_auth"
    PROVE  PathAt(p, pl, c, o, left)'
<1>1. \A t \in left : \/ t \in lost
                      \/ s = "reserve" /\ t = "mark_validated" /\ resv' # "none"
                      \/ s = "psp_authorize" /\ t = "record_auth"
                      \/ s = "record_auth" /\ t = "mark_cleared" /\ pay' # "DECLINED"
                      \/ s = "commit" /\ t = "mark_settled"
  BY DEF Continuation
<1>2. StrayAt(p, pl, c, left)'
  BY <1>1 DEF PathAt, StrayAt, Drafting, Clearing, LateSteps, Settling, UnwindSteps
<1>3. CourierAt(p, c, o, left)'
  BY <1>1 DEF PathAt, CourierAt
<1>4. BooksAt(p, pl, left)'
  BY <1>1 DEF PathAt, BooksAt
<1>5. StockAt(p, left)'
  BY <1>1 DEF PathAt, StockAt
<1> QED
  BY <1>2, <1>3, <1>4, <1>5 DEF PathAt

\* The child goes on from c to d, and may close: p is where its parent stands.
ChildGoes(p, c, o, d, n) ==
    \/ c = "await_food" /\ d = "assign" /\ n = o
    \/ c = "assign" /\ d = "mark_picked_up" /\ n = o /\ status \in {"READY"} \cup Unwinding
    \/ c = "assign" /\ d = "closed" /\ n = "NO_RIDER"
    \/ c = "mark_picked_up" /\ d = "await_delivered" /\ n = o /\ status = "PICKED_UP"
    \/ c = "mark_picked_up" /\ d = "closed" /\ n = "FAILED" /\ status \notin {"READY", "PICKED_UP"}
    \/ c = "await_delivered" /\ d = "mark_delivered" /\ n = o
    \/ c = "mark_delivered" /\ d = "closed" /\ n = "DELIVERED" /\ status = "DELIVERED"
    \/ /\ p \in {"drain_child"} \cup Closed /\ c \notin {"unstarted", "closed", "cleanup"}
       /\ \/ c \notin ChildSteps /\ d = "cleanup" /\ n = o
          \/ d = "closed" /\ n = "CANCELLED"
    \/ c = "cleanup" /\ d = "closed" /\ n = "CANCELLED"

\* The courier's child moves on without disturbing its parent.
LEMMA ChildPath ==
    ASSUME NEW p, NEW pl, NEW c, NEW o, NEW lost, NEW d, NEW n, IntentAt(p, pl, c),
           PathAt(p, pl, c, o, lost)', ChildGoes(p, c, o, d, n)'
    PROVE  IntentAt(p, pl, d) /\ PathAt(p, pl, d, n, lost)'
<1>1. c \notin {"unstarted", "closed"} /\ d # "unstarted"
  BY DEF ChildGoes, ChildSteps
<1>2. IntentAt(p, pl, d)
  BY <1>1 DEF IntentAt
<1>3. StrayAt(p, pl, d, lost)'
  BY <1>1 DEF PathAt, StrayAt
<1>4. CourierAt(p, d, n, lost)'
  <2>1. p = "drain_child" => status' = "CANCELLING"
    BY DEF PathAt, WhereAt, GivesUp, Fails, Drafting, Clearing, Underway, Settling, TakingBack
  <2> QED
    BY <1>1, <2>1 DEF PathAt, CourierAt, ChildGoes, ChildSteps, Closed, Unwinding, Arrived
<1> QED
  BY <1>2, <1>3, <1>4 DEF PathAt

-----------------------------------------------------------------------------
(* The steps of the saga. *)

\* An effect of the workflow, its child or a late attempt keeps the path.
LEMMA PerformKeepsPath ==
    ASSUME TypeOK, MoneyInv, PathInv, NEW s \in strays \cup {pc, childPc}, Perform(s),
           NEW p, p = pc, NEW pl, pl = plan, NEW c, c = childPc, NEW o, o = outcome,
           NEW lost, lost = strays
    PROVE  PathAt(p, pl, c, o, lost)'
BY PerformAt, EffectKeepsPath

\* A step that touches neither the row nor the books.
LEMMA QuietKeepsPath ==
    ASSUME UNCHANGED <<row, books>>, NEW p, NEW pl, NEW c, NEW o, NEW lost, PathAt(p, pl, c, o, lost)
    PROVE  PathAt(p, pl, c, o, lost)'
BY DEF row, books, PathAt, WhereAt, StrayAt, CourierAt, BooksAt, StockAt, ReturnAt, RecordAt,
   EvidenceAt, NewsInv,
   GivesUp, Fails, WasConfirmed

\* The first state is on the path.
LEMMA PathInit == Init => PathInv
<1> SUFFICES ASSUME Init PROVE PathInv
  OBVIOUS
<1>1. IntentAt("create_order", NoPlan, "unstarted")
  BY DEF IntentAt, NoPlan, UnwindPlan, Unwound, UnwindSteps
<1>2. WhereAt("create_order", NoPlan) /\ StrayAt("create_order", NoPlan, "unstarted", {})
  BY DEF Init, WhereAt, StrayAt, Delivering
<1>3. CourierAt("create_order", "unstarted", "none", {})
  BY DEF Init, CourierAt, Arrived, Settling, Unwound, UnwindSteps
<1>4. BooksAt("create_order", NoPlan, {}) /\ StockAt("create_order", {})
  BY DEF Init, BooksAt, StockAt, Cleared, Delivering, TakingBack, NoPlan, UnwindPlan
<1>5. ReturnAt("create_order", NoPlan)
  BY DEF ReturnAt, Late, Unwound, UnwindSteps
<1>6. RecordAt(NoPlan) /\ EvidenceAt(NoPlan) /\ NewsInv
  BY DEF Init, RecordAt, EvidenceAt, WasConfirmed, NewsInv, PRE_AUTHORIZATION_REASONS
<1> QED
  BY <1>1, <1>2, <1>3, <1>4, <1>5, <1>6 DEF Init, PathInv, PathAt

\* The only two steps that may fail the workflow.
MayFail(p, q) == q = "FAILED" => p \in {"begin_cancel", "mark_accepted"}

\* The next control state, as the lemmas above leave it.
LEMMA PathAfter ==
    ASSUME NEW q, NEW ql, NEW d, NEW n, NEW left, pc' = q, plan' = ql, childPc' = d, outcome' = n, strays' = left,
           IntentAt(q, ql, d), PathAt(q, ql, d, n, left)'
    PROVE  PathInv'
BY DEF PathInv

\* What the workflow may rely on when its current effect was heard.
LEMMA OwnEffects ==
    ASSUME TypeOK, MoneyInv, PathInv, NEW p \in ParentSteps, p = pc, Perform(p)
    PROVE  /\ p = "create_order" => status' # "absent"
           /\ p = "mark_validated" => status' # "PLACED"
           /\ p = "psp_authorize" => hold' # "none"
           /\ p = "record_auth" => pay' # "none"
           /\ p = "mark_cleared" => status' # "VALIDATED"
           /\ p = "confirm_order" => status' # "PAYMENT_CLEARED"
           /\ p = "mark_accepted" => status' # "CONFIRMED"
           /\ p = "begin_cancel" => status' # plan.expected
           /\ p \in TakingBack => status' \notin CANCELLABLE_KITCHEN_STATES
           /\ p = "void" => pay' # "AUTHORIZED"
           /\ p = "release" => resv' # "active"
           /\ p = "capture" => pay' # "AUTHORIZED"
           /\ p = "finish_cancel" => status' # "CANCELLING"
           /\ p = "mark_settled" => status' # "DELIVERED"
<1> USE DEF row, books
<1>1. CASE p \in {"create_order", "mark_validated", "mark_cleared", "confirm_order", "mark_accepted",
                  "mark_settled", "finish_cancel"}
  BY <1>1 DEF Perform, CreateOrder, Mark, FinishCancel, Transition, TakingBack
<1>2. CASE p \in {"reserve", "release", "commit", "cancel_dispatch"}
  BY <1>2 DEF Perform, Reserve, Release, Commit, TakingBack
<1>3. CASE p \in {"psp_authorize", "record_auth", "void", "capture"}
  BY <1>3 DEF Perform, PspAuthorize, RecordAuth, Void, Capture, TakingBack
<1>4. CASE p \in TakingBack
  BY <1>4 DEF Perform, BeginCancelFrom, CANCELLABLE_KITCHEN_STATES, TakingBack
<1>5. CASE p = "begin_cancel"
  BY <1>5, PlanNames DEF Perform, BeginCancel, Transition, MoneyInv, TakingBack
<1> QED
  BY <1>1, <1>2, <1>3, <1>4, <1>5 DEF ParentSteps, ForwardSteps, UnwindSteps, TakingBack

\* Every answer the workflow hears keeps the path.
LEMMA AnswerStep ==
    ASSUME TypeOK, MoneyInv, PathInv, Next, ForwardPath \/ DeliveryPath \/ UnwindPath
    PROVE  PathInv' /\ MayFail(pc, pc')
<1>1. PICK p \in ParentSteps : Answered(p)
  BY DEF ForwardPath, DeliveryPath, UnwindPath, CreateOrderStep,
     ValidateAndReserve, MarkValidated, AuthorizePayment, RecordAuthorization,
     MarkCleared, ConfirmOrder, MarkAccepted, TryBeginCancel, TryNoRider,
     CancelDispatch, CapturePayment, CommitReservation, SettleOrder,
     BeginCancelStep, VoidAuthorization, ReleaseReservation, FinishCancelStep,
     Marked, ParentSteps, ForwardSteps, UnwindSteps
<1>2. p = pc /\ Perform(p) /\ UNCHANGED <<flags, child, strays>>
  BY <1>1 DEF Answered
<1>3. PICK pl, c, o, lost, q, ql : /\ pl = plan /\ c = childPc /\ o = outcome /\ lost = strays
                                  /\ q = pc' /\ ql = plan'
  OBVIOUS
<1>4. /\ childPc' = c /\ outcome' = o /\ strays' = lost
      /\ pl \in Plans /\ pl.void \in BOOLEAN /\ pl.release \in BOOLEAN
      /\ pl.expected \in {"absent", "PLACED", "VALIDATED", "PAYMENT_CLEARED", "CONFIRMED"}
  BY <1>2, <1>3 DEF child, TypeOK, Plans, MoneyInv, PlanInv
<1>5. PathAt(p, pl, c, o, lost)' /\ IntentAt(p, pl, c)
  BY <1>2, <1>3, PerformKeepsPath DEF PathInv
<1>6. TypeOK' /\ PaidInv' /\ ChildInv'
  BY TypeStep, MoneyStep DEF MoneyInv
<1>7. CASE ql = pl /\ (Follows(p, pl, c, o, q)' \/ Compensates(p, pl, c, q)')
  <2>1. IntentAt(q, pl, c)
    BY <1>4, <1>5, <1>7, FollowsIntent DEF PathAt
  <2>2. PathAt(q, pl, c, o, lost)'
    BY <1>4, <1>5, <1>6, <1>7, FollowsPath, CompensatesPath
  <2>3. MayFail(p, q)
    BY <1>7 DEF MayFail, Follows, Compensates, UnwindSteps
  <2> QED
    BY <1>2, <1>3, <1>4, <1>7, <2>1, <2>2, <2>3, PathAfter
<1>8. CASE q = "begin_cancel" /\ MakesPlan(p, ql)'
  <2>1. p \in ForwardSteps \cup {"await_decision"} => c = "unstarted"
    BY <1>2, <1>3 DEF MoneyInv, PositionInv
  <2>2. IntentAt(q, ql, c) /\ PathAt(q, ql, c, o, lost)'
    BY <1>5, <1>6, <1>8, <2>1, GivesUpPath
  <2>3. MayFail(p, q)
    BY <1>8 DEF MayFail
  <2> QED
    BY <1>2, <1>3, <1>4, <2>2, <2>3, PathAfter
<1>9. CASE /\ \/ p = "try_begin_cancel" /\ q = "drain_child"
              \/ p = "try_no_rider" /\ q = "cancel_dispatch"
           /\ status' = "CANCELLING" /\ ql.expected = pl.expected /\ ql.void = TRUE /\ ql.release = TRUE
           /\ ql.reason \in {"customer_cancelled", "no_rider_available"}
  <2>1. IntentAt(q, ql, c) /\ PathAt(q, ql, c, o, lost)'
    BY <1>5, <1>6, <1>9, TakesBackPath
  <2>2. MayFail(p, q)
    BY <1>9 DEF MayFail
  <2> QED
    BY <1>2, <1>3, <1>4, <2>1, <2>2, PathAfter
<1>10. WhereAt(p, pl)' /\ BooksAt(p, pl, lost)' /\ ReturnAt(p, pl)' /\ StockAt(p, lost)'
  BY <1>5 DEF PathAt
<1>11. CASE ForwardPath
  <2>1. CASE CreateOrderStep \/ MarkValidated \/ AuthorizePayment \/ MarkCleared \/ ConfirmOrder
    <3>1. Follows(p, pl, c, o, q)' /\ ql = pl
      BY <1>2, <1>3, <1>10, <2>1, OwnEffects DEF CreateOrderStep, MarkValidated,
         AuthorizePayment, MarkCleared,
         ConfirmOrder, Marked, Answered, Follows, WhereAt, GivesUp, Fails, Drafting, Clearing, Underway, Settling,
         TakingBack, Unwound, UnwindSteps
    <3> QED
      BY <1>7, <3>1
  <2>2. CASE ValidateAndReserve
    <3>1. \/ Follows(p, pl, c, o, q)' /\ ql = pl
          \/ MakesPlan(p, ql)' /\ q = "begin_cancel"
      BY <1>2, <1>3, <2>2 DEF ValidateAndReserve, Answered, Follows, MakesPlan, Unwind,
         UnwindPlan
    <3> QED
      BY <1>7, <1>8, <3>1
  <2>3. CASE RecordAuthorization
    <3>1. \/ Follows(p, pl, c, o, q)' /\ ql = pl
          \/ MakesPlan(p, ql)' /\ q = "begin_cancel"
      BY <1>2, <1>3, <2>3, OwnEffects DEF RecordAuthorization, Answered, Follows,
         MakesPlan, Unwind, UnwindPlan
    <3> QED
      BY <1>7, <1>8, <3>1
  <2> QED
    BY <1>11, <2>1, <2>2, <2>3 DEF ForwardPath
<1>12. CASE DeliveryPath
  <2>1. CASE MarkAccepted
    <3>1. Follows(p, pl, c, o, q)' /\ ql = pl
      BY <1>2, <1>3, <2>1, OwnEffects DEF MarkAccepted, Marked, Answered, Follows
    <3> QED
      BY <1>7, <3>1
  <2>2. CASE TryBeginCancel
    <3>1. CASE status' = "CANCELLING"
      <4>1. /\ p = "try_begin_cancel" /\ q = "drain_child"
            /\ ql = UnwindPlan(pl.expected, "customer_cancelled", TRUE, TRUE)
        BY <1>2, <1>3, <2>2, <3>1 DEF TryBeginCancel, Answered
      <4>2. /\ ql.expected = pl.expected /\ ql.void = TRUE /\ ql.release = TRUE
            /\ ql.reason = "customer_cancelled"
        BY <4>1 DEF UnwindPlan
      <4> QED
        BY <1>9, <3>1, <4>1, <4>2
    <3>2. CASE status' # "CANCELLING"
      <4>1. status' \in {"PICKED_UP", "DELIVERED"} /\ p = "try_begin_cancel"
        BY <1>2, <1>10, <2>2, <3>2, OwnEffects DEF TryBeginCancel, Answered, WhereAt,
           GivesUp, Fails, Drafting,
           Clearing, Delivering, Settling, Unwound, UnwindSteps, TakingBack, CANCELLABLE_KITCHEN_STATES
      <4> QED
        BY <1>2, <1>3, <1>7, <2>2, <3>2, <4>1 DEF TryBeginCancel, Follows
    <3> QED
      BY <3>1, <3>2
  <2>3. CASE TryNoRider
    <3>1. status' = "CANCELLING"
      BY <1>2, <1>10, <2>3, OwnEffects DEF TryNoRider, Answered, WhereAt, GivesUp, Fails,
         Drafting,
         Clearing, Underway, Settling, Unwound, UnwindSteps, TakingBack, CANCELLABLE_KITCHEN_STATES
    <3> QED
      <4>1. /\ p = "try_no_rider" /\ q = "cancel_dispatch"
            /\ ql = UnwindPlan(pl.expected, "no_rider_available", TRUE, TRUE)
        BY <1>2, <1>3, <2>3, <3>1 DEF TryNoRider, Answered
      <4>2. /\ ql.expected = pl.expected /\ ql.void = TRUE /\ ql.release = TRUE
            /\ ql.reason = "no_rider_available"
        BY <4>1 DEF UnwindPlan
      <4> QED
        BY <1>9, <3>1, <4>1, <4>2
  <2>4. CASE CancelDispatch
    <3>1. Compensates(p, pl, c, q)' /\ ql = pl
      <4>1. p = "cancel_dispatch" /\ status' = "CANCELLING" /\ ql = pl
        BY <1>2, <1>3, <1>10, <2>4 DEF CancelDispatch, Answered, WhereAt, GivesUp,
           Fails, Drafting,
           Clearing, Underway, Settling, TakingBack
      <4>2. Late(p, pl) => pl.void = TRUE
        BY <1>5, <4>1 DEF IntentAt, Late, Unwound
      <4> QED
        BY <1>3, <1>4, <2>4, <4>1, <4>2 DEF CancelDispatch, UnwindFrom, Compensates, UnwindSteps
    <3> QED
      BY <1>7, <3>1
  <2>5. CASE CapturePayment
    <3>1. pay' = "CAPTURED" /\ p = "capture"
      BY <1>2, <1>6, <1>10, <2>5, OwnEffects DEF CapturePayment, Answered, WhereAt,
         GivesUp, Fails, Drafting,
         Clearing, Underway, Settling, TakingBack, Unwound, UnwindSteps, BooksAt, Cleared, Delivering, Arrived,
         Unwinding, TypeOK
    <3> QED
      BY <1>2, <1>3, <1>7, <2>5, <3>1 DEF CapturePayment, Follows
  <2>6. CASE CommitReservation
    BY <1>2, <1>3, <1>7, <2>6 DEF CommitReservation, Answered, Follows
  <2>7. CASE SettleOrder
    <3>1. status' = "SETTLED" /\ p = "mark_settled"
      BY <1>2, <1>10, <2>7, OwnEffects DEF SettleOrder, Marked, Answered, WhereAt,
         GivesUp, Fails, Drafting,
         Clearing, Underway, Settling, TakingBack, Unwound, UnwindSteps, Arrived
    <3> QED
      BY <1>2, <1>3, <1>7, <2>7, <3>1 DEF SettleOrder, Marked, Follows
  <2> QED
    BY <1>12, <2>1, <2>2, <2>3, <2>4, <2>5, <2>6, <2>7 DEF DeliveryPath
<1>13. CASE UnwindPath
  <2>1. CASE BeginCancelStep
    <3>1. p = "begin_cancel" /\ ql = pl /\ status' # pl.expected
      BY <1>2, <1>3, <2>1, OwnEffects DEF BeginCancelStep, Answered
    <3>2. CASE status' = "CANCELLING"
      <4>1. Late(p, pl) => pl.void = TRUE
        BY <1>4, <1>5, <3>1 DEF IntentAt, Late
      <4>2. Compensates(p, pl, c, q)'
        BY <1>3, <1>4, <2>1, <3>1, <3>2, <4>1 DEF BeginCancelStep, UnwindFrom,
           Compensates, UnwindSteps
      <4> QED
        BY <1>7, <3>1, <4>2
    <3>3. CASE status' # "CANCELLING"
      BY <1>3, <1>7, <2>1, <3>1, <3>3 DEF BeginCancelStep, Follows
    <3> QED
      BY <3>2, <3>3
  <2>2. CASE VoidAuthorization
    <3>1. p = "void" /\ ql = pl /\ pay' # "AUTHORIZED"
      BY <1>2, <1>3, <2>2, OwnEffects DEF VoidAuthorization, Answered
    <3>2. Late(p, pl) => pl.release = TRUE /\ pay' = "VOIDED"
      BY <1>5, <1>10, <3>1 DEF IntentAt, Late, Unwound, UnwindSteps, ReturnAt
    <3>3. Compensates(p, pl, c, q)'
      BY <1>3, <2>2, <3>1, <3>2 DEF VoidAuthorization, Compensates, UnwindSteps
    <3> QED
      BY <1>7, <3>1, <3>3
  <2>3. CASE ReleaseReservation
    <3>1. p = "release" /\ ql = pl /\ resv' # "active"
      BY <1>2, <1>3, <2>3, OwnEffects DEF ReleaseReservation, Answered
    <3>2. Late(p, pl) => resv' \in {"released", "expired"}
      BY <1>6, <1>10, <3>1 DEF ReturnAt, TypeOK, Late
    <3>3. Compensates(p, pl, c, q)'
      BY <1>3, <2>3, <3>1, <3>2 DEF ReleaseReservation, Compensates, UnwindSteps
    <3> QED
      BY <1>7, <3>1, <3>3
  <2>4. CASE FinishCancelStep
    <3>1. p = "finish_cancel" /\ status' = "CANCELLED"
      BY <1>2, <1>10, <2>4, OwnEffects DEF FinishCancelStep, Marked, Answered, WhereAt,
         GivesUp, Fails, Drafting,
         Clearing, Underway, Settling, TakingBack
    <3> QED
      BY <1>3, <1>7, <2>4, <3>1 DEF FinishCancelStep, Marked, Follows
  <2> QED
    BY <1>13, <2>1, <2>2, <2>3, <2>4 DEF UnwindPath
<1> QED
  BY <1>11, <1>12, <1>13

\* So does every end of a wait: a decision, a signal, a timer.
LEMMA WaitStep ==
    ASSUME TypeOK, MoneyInv, PathInv, Next, Waits
    PROVE  PathInv' /\ MayFail(pc, pc')
<1>1. PICK p, pl, c, o, lost, q, ql : /\ p = pc /\ pl = plan /\ c = childPc /\ o = outcome /\ lost = strays
                                     /\ q = pc' /\ ql = plan'
  OBVIOUS
<1>2. PathAt(p, pl, c, o, lost) /\ IntentAt(p, pl, c)
  BY <1>1 DEF PathInv
<1>3. TypeOK' /\ PaidInv' /\ ChildInv'
  BY TypeStep, MoneyStep DEF MoneyInv
<1>4. /\ pl.void \in BOOLEAN /\ pl.release \in BOOLEAN
      /\ pl.expected \in {"absent", "PLACED", "VALIDATED", "PAYMENT_CLEARED", "CONFIRMED"}
  BY <1>1 DEF TypeOK, Plans, MoneyInv, PlanInv
<1>5. /\ UNCHANGED <<row, books>> /\ outcome' = o
      /\ childPc' = c \/ (p = "start_child" /\ childPc' = "await_food")
      /\ strays' = lost \/ RanOutOfTime
  BY <1>1 DEF Waits, RanOutOfTime, Decided, AcceptTimeout, StartChild, DeliverOrCancel,
     DrainChild, AwaitChild, child
<1>6. PathAt(p, pl, c, o, lost)'
  BY <1>2, <1>5, QuietKeepsPath
<1>7. CASE /\ ql = pl /\ childPc' = c /\ strays' = lost
           /\ Follows(p, pl, c, o, q)' \/ Compensates(p, pl, c, q)'
  <2>1. IntentAt(q, pl, c)
    BY <1>2, <1>4, <1>6, <1>7, FollowsIntent DEF PathAt
  <2>2. PathAt(q, pl, c, o, lost)'
    BY <1>2, <1>3, <1>4, <1>5, <1>6, <1>7, FollowsPath, CompensatesPath
  <2>3. MayFail(p, q)
    BY <1>7 DEF MayFail, Follows, Compensates, UnwindSteps
  <2> QED
    BY <1>1, <1>5, <1>7, <2>1, <2>2, <2>3, PathAfter
<1>8. CASE RanOutOfTime
  <2>1. /\ p \in ForwardSteps /\ q = "begin_cancel" /\ childPc' = c /\ strays' \in {lost, lost \cup {p}}
        /\ ql = UnwindPlan(Stage(p), "system_timeout", Stage(p) # "PLACED", TRUE)
    BY <1>1, <1>8 DEF RanOutOfTime, Unwind, child
  <2>2. MakesPlan(p, ql)'
    <3>1. ql.expected = Stage(p) /\ ql.reason = "system_timeout" /\ ql.release = TRUE
      BY <2>1 DEF UnwindPlan
    <3>2. ql.expected = "PAYMENT_CLEARED" => ql.void = TRUE
      BY <2>1, <3>1 DEF UnwindPlan
    <3> QED
      BY <2>1, <3>1, <3>2 DEF MakesPlan
  <2>3. p \in ForwardSteps \cup {"await_decision"} => c = "unstarted"
    BY <1>1 DEF MoneyInv, PositionInv
  <2>4. IntentAt("begin_cancel", ql, c)
    BY <1>2, <1>3, <1>6, <2>2, <2>3, GivesUpPath
  <2>5. PathAt("begin_cancel", ql, c, o, lost)'
    BY <1>2, <1>3, <1>6, <2>2, <2>3, GivesUpPath
  <2>6. PICK left : left = strays'
    OBVIOUS
  <2>7. PathAt("begin_cancel", ql, c, o, left)'
    <3>1. /\ left \in {lost, lost \cup {p}} /\ p \in ForwardSteps
          /\ ql.expected = Stage(p)
      BY <2>1, <2>6 DEF UnwindPlan
    <3>2. StrayAt("begin_cancel", ql, c, left)'
      BY <2>5, <3>1 DEF PathAt, StrayAt, ForwardSteps, Stage, Drafting, Clearing,
         LateSteps, Settling, UnwindSteps
    <3>3. CourierAt("begin_cancel", c, o, left)'
      BY <2>5, <3>1 DEF PathAt, CourierAt, ForwardSteps
    <3>4. BooksAt("begin_cancel", ql, left)'
      BY <1>6, <2>5, <3>1 DEF PathAt, BooksAt, ForwardSteps
    <3>5. StockAt("begin_cancel", left)'
      BY <1>6, <2>5, <3>1 DEF PathAt, StockAt, ForwardSteps
    <3> QED
      BY <2>5, <3>2, <3>3, <3>4, <3>5 DEF PathAt
  <2> QED
    BY <1>1, <1>5, <2>1, <2>4, <2>6, <2>7, PathAfter DEF MayFail
<1>9. CASE Decided \/ AcceptTimeout
  <2>1. p = "await_decision" /\ childPc' = c /\ strays' = lost
    BY <1>1, <1>9 DEF Decided, AcceptTimeout, child
  <2>2. CASE q = "start_child" /\ ql = pl
    BY <1>7, <2>1, <2>2 DEF Follows
  <2>3. CASE /\ q = "begin_cancel"
             /\ \E why \in {"customer_cancelled", "restaurant_rejected", "restaurant_timeout"} :
                   ql = UnwindPlan("CONFIRMED", why, TRUE, TRUE)
    <3>1. MakesPlan(p, ql)'
      BY <2>1, <2>3 DEF MakesPlan, UnwindPlan
    <3>2. p \in ForwardSteps \cup {"await_decision"} => c = "unstarted"
      BY <1>1 DEF MoneyInv, PositionInv
    <3>3. IntentAt(q, ql, c) /\ PathAt(q, ql, c, o, lost)'
      BY <1>2, <1>3, <1>6, <2>3, <3>1, <3>2, GivesUpPath
    <3> QED
      BY <1>1, <1>5, <2>1, <2>3, <3>3, PathAfter DEF MayFail
  <2> QED
    BY <1>1, <1>9, <2>2, <2>3 DEF Decided, AcceptTimeout, Unwind
<1>10. CASE StartChild
  <2>1. p = "start_child" /\ q = "mark_accepted" /\ childPc' = "await_food" /\ strays' = lost /\ ql = pl
        /\ c = "unstarted"
    BY <1>1, <1>10 DEF StartChild, MoneyInv, PositionInv
  <2>2. IntentAt("mark_accepted", pl, "await_food")
    BY <1>2, <2>1 DEF IntentAt, Unwound, UnwindSteps, NoPlan, UnwindPlan
  <2>3. WhereAt("mark_accepted", pl)' /\ status' = "CONFIRMED"
    BY <1>6, <2>1 DEF PathAt, WhereAt, GivesUp, Fails, Drafting, Clearing, Underway,
       Settling, TakingBack, Unwound,
       UnwindSteps
  <2>4. StrayAt("mark_accepted", pl, "await_food", lost)'
    BY <1>6, <2>1 DEF PathAt, StrayAt, Drafting, Clearing, Early, UnwindSteps
  <2>5. CourierAt("mark_accepted", "await_food", o, lost)'
    BY <1>6, <2>1, <2>3 DEF PathAt, CourierAt, Settling, Unwound, UnwindSteps, Arrived,
       Unwinding, Closed
  <2>6. BooksAt("mark_accepted", pl, lost)' /\ StockAt("mark_accepted", lost)'
    BY <1>6, <2>1 DEF PathAt, BooksAt, StockAt, Drafting, TakingBack
  <2>7. ReturnAt("mark_accepted", pl)'
    BY DEF ReturnAt, Late, Unwound, UnwindSteps
  <2>8. PathAt("mark_accepted", pl, "await_food", o, lost)'
    BY <1>6, <2>3, <2>4, <2>5, <2>6, <2>7 DEF PathAt
  <2> QED
    BY <1>1, <1>5, <2>1, <2>2, <2>8, PathAfter DEF MayFail
<1>11. CASE DeliverOrCancel
  BY <1>1, <1>7, <1>11 DEF DeliverOrCancel, Follows, child
<1>12. CASE DrainChild
  <2>1. p = "drain_child" /\ c = "closed" /\ ql = pl /\ childPc' = c /\ strays' = lost
    BY <1>1, <1>12 DEF DrainChild, child
  <2>2. Late(p, pl) => pl.void = TRUE
    BY <1>2, <2>1 DEF IntentAt, Late, Unwound
  <2>3. Compensates(p, pl, c, q)'
    BY <1>1, <1>4, <1>12, <2>1, <2>2 DEF DrainChild, UnwindFrom, Compensates, UnwindSteps
  <2> QED
    BY <1>7, <2>1, <2>3
<1>13. CASE AwaitChild
  <2>1. p = "await_child" /\ c = "closed" /\ ql = pl /\ childPc' = c /\ strays' = lost
    BY <1>1, <1>13 DEF AwaitChild, child
  <2>2. o \in {"DELIVERED", "NO_RIDER"}
    <3>1. status \notin Unwinding
      BY <1>2, <2>1 DEF PathAt, WhereAt, GivesUp, Fails, Drafting, Clearing, Delivering,
         Settling, TakingBack, Unwound,
         UnwindSteps, Arrived, Unwinding
    <3> QED
      BY <1>1, <1>2, <2>1, <3>1 DEF PathAt, CourierAt, Closed, TypeOK
  <2>3. Follows(p, pl, c, o, q)'
    BY <1>1, <1>13, <2>1, <2>2 DEF AwaitChild, Follows
  <2> QED
    BY <1>7, <2>1, <2>3
<1> QED
  BY <1>8, <1>9, <1>10, <1>11, <1>12, <1>13 DEF Waits

\* So does an attempt that is retried, abandoned or late.
LEMMA AttemptStep ==
    ASSUME TypeOK, MoneyInv, PathInv, Next, Attempts
    PROVE  PathInv'
<1>1. PICK p, pl, c, o, lost, q, ql : /\ p = pc /\ pl = plan /\ c = childPc /\ o = outcome /\ lost = strays
                                     /\ q = pc' /\ ql = plan'
  OBVIOUS
<1>2. PathAt(p, pl, c, o, lost) /\ IntentAt(p, pl, c)
  BY <1>1 DEF PathInv
<1>3. TypeOK' /\ PaidInv' /\ ChildInv'
  BY TypeStep, MoneyStep DEF MoneyInv
<1>4. /\ pl.void \in BOOLEAN /\ pl.release \in BOOLEAN
      /\ pl.expected \in {"absent", "PLACED", "VALIDATED", "PAYMENT_CLEARED", "CONFIRMED"}
  BY <1>1 DEF TypeOK, Plans, MoneyInv, PlanInv
<1>5. /\ childPc' = c /\ outcome' = o /\ ql = pl
  BY <1>1 DEF Attempts, AnswerLost, AttemptAbandoned, StrayLands, StrayDies, child, flow
<1>6. PICK left : left = strays'
  OBVIOUS
<1>7. CASE AnswerLost \/ AttemptAbandoned
  <2>1. p \in ParentSteps /\ q = FirstHalf(p) /\ left \in {lost, lost \cup {p}}
    BY <1>1, <1>6, <1>7 DEF AnswerLost, AttemptAbandoned
  <2>2. PathAt(p, pl, c, o, lost)'
    <3>1. CASE AnswerLost
      BY <1>1, <3>1, PerformKeepsPath DEF AnswerLost
    <3>2. CASE AttemptAbandoned
      BY <1>2, <3>2, QuietKeepsPath DEF AttemptAbandoned
    <3> QED
      BY <1>7, <3>1, <3>2
  <2>3. IntentAt(q, pl, c) /\ PathAt(q, pl, c, o, left)'
    BY <1>2, <2>1, <2>2, RetriesPath
  <2> QED
    BY <1>1, <1>5, <1>6, <2>3, PathAfter
<1>8. CASE StrayLands
  <2>1. PICK s \in lost : Perform(s) /\ left = (lost \ {s}) \cup Continuation(s) /\ q = p
    BY <1>1, <1>6, <1>8 DEF StrayLands, flow
  <2>2. PathAt(p, pl, c, o, lost)'
    BY <1>1, <2>1, PerformKeepsPath
  <2>3. /\ s = "psp_authorize" => hold' # "none"
        /\ s = "record_auth" => pay' # "none"
    BY <2>1 DEF Perform, PspAuthorize, RecordAuth
  <2>4. PathAt(p, pl, c, o, left)'
    BY <2>1, <2>2, <2>3, StraysPath
  <2> QED
    BY <1>1, <1>2, <1>5, <1>6, <2>1, <2>4, PathAfter
<1>9. CASE StrayDies
  <2>1. PICK s \in lost : left = lost \ {s} /\ q = p /\ UNCHANGED <<row, books>>
    BY <1>1, <1>6, <1>9 DEF StrayDies, flow
  <2>2. PathAt(p, pl, c, o, lost)'
    BY <1>2, <2>1, QuietKeepsPath
  <2>3. PathAt(p, pl, c, o, left)'
    BY <2>1, <2>2 DEF PathAt, StrayAt, CourierAt, BooksAt, StockAt
  <2> QED
    BY <1>1, <1>2, <1>5, <1>6, <2>1, <2>3, PathAfter
<1> QED
  BY <1>7, <1>8, <1>9 DEF Attempts

\* So does every step of the courier's child.
LEMMA DeliveryStep ==
    ASSUME TypeOK, MoneyInv, PathInv, Next, Delivery
    PROVE  PathInv'
<1>1. PICK p, pl, c, o, lost, q, ql : /\ p = pc /\ pl = plan /\ c = childPc /\ o = outcome /\ lost = strays
                                     /\ q = pc' /\ ql = plan'
  OBVIOUS
<1>2. PathAt(p, pl, c, o, lost) /\ IntentAt(p, pl, c)
  BY <1>1 DEF PathInv
<1>3. TypeOK' /\ PaidInv' /\ ChildInv'
  BY TypeStep, MoneyStep DEF MoneyInv
<1>4. /\ pl.void \in BOOLEAN /\ pl.release \in BOOLEAN
      /\ pl.expected \in {"absent", "PLACED", "VALIDATED", "PAYMENT_CLEARED", "CONFIRMED"}
  BY <1>1 DEF TypeOK, Plans, MoneyInv, PlanInv
<1>5. PICK d, n, left : d = childPc' /\ n = outcome' /\ left = strays'
  OBVIOUS
<1>6. q = p /\ ql = pl /\ (left = lost \/ ChildAttemptAbandoned)
  BY <1>1, <1>5 DEF Delivery, FoodArrivesAtDispatch, Assigned, MarkPickedUp, CourierDelivers,
     MarkDelivered,
     ChildAnswerLost, ChildAttemptAbandoned, ChildCancelled, ChildCleanup, flow
<1>7. CASE ChildAttemptAbandoned
  <2>1. c \in ChildSteps /\ left = lost \cup {c} /\ d = c /\ n = o /\ UNCHANGED <<row, books>>
    BY <1>1, <1>5, <1>7 DEF ChildAttemptAbandoned, child
  <2>2. PathAt(p, pl, c, o, lost)'
    BY <1>2, <2>1, QuietKeepsPath
  <2>3. p # "create_order"
    BY <1>1, <2>1 DEF MoneyInv, PositionInv, ChildSteps
  <2>4. StrayAt(p, pl, c, left)'
    BY <2>1, <2>2, <2>3 DEF PathAt, StrayAt, ChildSteps, Clearing, LateSteps, Settling,
       UnwindSteps
  <2>5. CourierAt(p, c, o, left)' /\ BooksAt(p, pl, left)' /\ StockAt(p, left)'
    BY <2>1, <2>2 DEF PathAt, CourierAt, BooksAt, StockAt, ChildSteps
  <2>6. PathAt(p, pl, c, o, left)'
    BY <2>2, <2>4, <2>5 DEF PathAt
  <2> QED
    BY <1>1, <1>2, <1>5, <1>6, <2>1, <2>6, PathAfter
<1>8. CASE MarkPickedUp \/ MarkDelivered \/ ChildAnswerLost
  <2>1. c \in ChildSteps /\ Perform(c)
    BY <1>1, <1>8 DEF MarkPickedUp, MarkDelivered, ChildAnswerLost, ChildSteps
  <2>2. PathAt(p, pl, c, o, lost)' /\ left = lost
    BY <1>1, <1>5, <1>8, <2>1, PerformKeepsPath DEF MarkPickedUp, MarkDelivered, ChildAnswerLost
  <2>3. CASE MarkPickedUp \/ MarkDelivered
    <3>1. /\ c = "mark_picked_up" => status' # "READY"
          /\ c = "mark_delivered" => status' # "PICKED_UP"
      BY <2>1 DEF Perform, Mark, Transition
    <3>2. CourierAt(p, c, o, lost)'
      BY <2>2 DEF PathAt
    <3>3. ChildGoes(p, c, o, d, n)'
      BY <1>1, <1>5, <2>3, <3>1, <3>2 DEF MarkPickedUp, MarkDelivered, CloseChild,
         ChildGoes, CourierAt
    <3>4. IntentAt(p, pl, d) /\ PathAt(p, pl, d, n, lost)'
      BY <1>2, <2>2, <3>3, ChildPath
    <3> QED
      BY <1>1, <1>5, <1>6, <2>2, <3>4, PathAfter
  <2>4. CASE ChildAnswerLost
    <3>1. d = c /\ n = o
      BY <1>1, <1>5, <2>4 DEF ChildAnswerLost, child
    <3> QED
      BY <1>1, <1>2, <1>5, <1>6, <2>2, <3>1, PathAfter
  <2> QED
    BY <1>8, <2>3, <2>4
<1>9. CASE FoodArrivesAtDispatch \/ Assigned \/ CourierDelivers \/ ChildCancelled \/ ChildCleanup
  <2>1. UNCHANGED <<row, books>> /\ left = lost
    BY <1>1, <1>5, <1>9 DEF FoodArrivesAtDispatch, Assigned, CourierDelivers,
       ChildCancelled, ChildCleanup
  <2>2. PathAt(p, pl, c, o, lost)'
    BY <1>2, <2>1, QuietKeepsPath
  <2>3. c = "assign" => status \in {"READY"} \cup Unwinding
    BY <1>1 DEF MoneyInv, ChildInv, AfterReady, PastPickup, BeforePickup, Unwinding
  <2>4. ChildGoes(p, c, o, d, n)'
    <3>1. CASE FoodArrivesAtDispatch \/ CourierDelivers \/ ChildCleanup
      BY <1>1, <1>5, <3>1 DEF FoodArrivesAtDispatch, CourierDelivers, ChildCleanup,
         CloseChild, ChildGoes
    <3>2. CASE Assigned
      BY <1>1, <1>5, <2>1, <2>3, <3>2 DEF Assigned, CloseChild, ChildGoes, row
    <3>3. CASE ChildCancelled
      BY <1>1, <1>5, <3>3 DEF ChildCancelled, CloseChild, ChildGoes, ChildOpen
    <3> QED
      BY <1>9, <3>1, <3>2, <3>3
  <2>5. IntentAt(p, pl, d) /\ PathAt(p, pl, d, n, lost)'
    BY <1>2, <2>2, <2>4, ChildPath
  <2> QED
    BY <1>1, <1>5, <1>6, <2>1, <2>5, PathAfter
<1> QED
  BY <1>7, <1>8, <1>9 DEF Delivery

\* So do the kitchen, the customer and the reaper.
LEMMA EnvironmentStep ==
    ASSUME TypeOK, MoneyInv, PathInv, Next, Environment
    PROVE  PathInv'
<1>1. PICK p, pl, c, o, lost, q, ql : /\ p = pc /\ pl = plan /\ c = childPc /\ o = outcome /\ lost = strays
                                     /\ q = pc' /\ ql = plan'
  OBVIOUS
<1>2. PathAt(p, pl, c, o, lost) /\ IntentAt(p, pl, c)
  BY <1>1 DEF PathInv
<1>3. TypeOK' /\ PaidInv' /\ ChildInv'
  BY TypeStep, MoneyStep DEF MoneyInv
<1>4. /\ pl.void \in BOOLEAN /\ pl.release \in BOOLEAN
      /\ pl.expected \in {"absent", "PLACED", "VALIDATED", "PAYMENT_CLEARED", "CONFIRMED"}
  BY <1>1 DEF TypeOK, Plans, MoneyInv, PlanInv
<1>5. q = p /\ ql = pl /\ childPc' = c /\ outcome' = o /\ strays' = lost
  BY <1>1 DEF Environment, KitchenDecides, SetPreparing, SetReady, RequestCancel,
     ParentSignal, FoodReadySignal,
     ReaperExpires, flow, child
<1>6. PathAt(p, pl, c, o, lost)'
  <2>1. CASE SetPreparing \/ SetReady
    BY <1>1, <2>1, KitchenAt, EffectKeepsPath
  <2>2. CASE ReaperExpires
    BY <1>1, <2>2, ReaperAt, EffectKeepsPath
  <2>3. CASE KitchenDecides \/ RequestCancel \/ ParentSignal \/ FoodReadySignal
    <3>1. UNCHANGED <<row, books>>
      BY <2>3 DEF KitchenDecides, RequestCancel, ParentSignal, FoodReadySignal
    <3> QED
      BY <1>2, <3>1, QuietKeepsPath
  <2> QED
    BY <2>1, <2>2, <2>3 DEF Environment
<1> QED
  BY <1>1, <1>2, <1>5, <1>6, PathAfter

\* Hence every step does.
LEMMA PathStep == TypeOK /\ MoneyInv /\ PathInv /\ [Next]_vars => PathInv'
<1> SUFFICES ASSUME TypeOK, MoneyInv, PathInv, [Next]_vars PROVE PathInv'
  OBVIOUS
<1>1. CASE Next
  BY <1>1, AnswerStep, WaitStep, AttemptStep, DeliveryStep, EnvironmentStep DEF Next
<1>2. CASE UNCHANGED vars
  <2>1. UNCHANGED <<row, books, pc, plan, childPc, outcome, strays>>
    BY <1>2 DEF vars, flow, child
  <2>2. PICK p, pl, c, o, lost : p = pc /\ pl = plan /\ c = childPc /\ o = outcome /\ lost = strays
    OBVIOUS
  <2>3. IntentAt(p, pl, c) /\ PathAt(p, pl, c, o, lost)'
    BY <2>1, <2>2, QuietKeepsPath DEF PathInv
  <2> QED
    BY <2>1, <2>2, <2>3, PathAfter
<1> QED
  BY <1>1, <1>2

\* The strengthened invariant, for every bound on abandoned attempts.
LEMMA PathHolds == Spec => [](TypeOK /\ MoneyInv /\ PathInv)
BY TypeInit, TypeStep, MoneyInit, MoneyStep, PathInit, PathStep, PTL DEF Spec

-----------------------------------------------------------------------------
(* What follows of it. *)

\* Only two steps take the workflow to FAILED (BeginCancelStep, MarkAccepted).
LEMMA FailingStep ==
    ASSUME TypeOK, MoneyInv, PathInv, Next, pc # "FAILED", pc' = "FAILED"
    PROVE  /\ pc \in {"begin_cancel", "mark_accepted"}
           /\ status' = status /\ plan' = plan
<1>1. CASE ForwardPath \/ DeliveryPath \/ UnwindPath \/ Waits
  <2>1. pc \in {"begin_cancel", "mark_accepted"}
    BY <1>1, AnswerStep, WaitStep DEF MayFail
  <2>2. BeginCancelStep \/ MarkAccepted
    BY <1>1, <2>1 DEF ForwardPath, DeliveryPath, UnwindPath, Waits, CreateOrderStep,
       ValidateAndReserve, MarkValidated, AuthorizePayment, RecordAuthorization,
       MarkCleared, ConfirmOrder, MarkAccepted, TryBeginCancel, TryNoRider,
       CancelDispatch, CapturePayment, CommitReservation, SettleOrder,
       BeginCancelStep, VoidAuthorization, ReleaseReservation, FinishCancelStep,
       Marked, Answered, RanOutOfTime, Decided, AcceptTimeout, StartChild,
       DeliverOrCancel, DrainChild, AwaitChild, ForwardSteps
  <2>3. CASE BeginCancelStep
    BY <2>3 DEF BeginCancelStep, Answered, Perform, BeginCancel, Transition, UnwindFrom
  <2>4. CASE MarkAccepted
    BY <2>4 DEF MarkAccepted, Marked, Answered, Perform, Mark, Transition
  <2> QED
    BY <2>1, <2>2, <2>3, <2>4
<1>2. CASE Attempts
  <2>1. pc' = pc \/ (pc \in ParentSteps /\ pc' = FirstHalf(pc))
    BY <1>2 DEF Attempts, AnswerLost, AttemptAbandoned, StrayLands, StrayDies, flow
  <2> QED
    BY <2>1 DEF FirstHalf, ParentSteps, ForwardSteps, UnwindSteps
<1>3. CASE Delivery \/ Environment
  BY <1>3 DEF Delivery, FoodArrivesAtDispatch, Assigned, MarkPickedUp, CourierDelivers,
     MarkDelivered, ChildAnswerLost, ChildAttemptAbandoned, ChildCancelled, ChildCleanup,
     Environment, KitchenDecides, SetPreparing, SetReady, RequestCancel, ParentSignal,
     FoodReadySignal, ReaperExpires, flow
<1> QED
  BY <1>1, <1>2, <1>3 DEF Next

\* A workflow fails at two steps only: where it names the state of a step it
\* gave up on, whose unheard attempt moved the row, and where the kitchen
\* outran the retry of mark_accepted (RanOutOfTime, BeginCancelStep,
\* MarkAccepted).
THEOREM FailsCorrect == Spec => FailsOnlyOnUnheardMove
<1>1. ASSUME TypeOK, MoneyInv, PathInv, Next, pc # "FAILED", pc' = "FAILED"
      PROVE  \/ /\ pc = "begin_cancel"
                /\ plan.reason \in {"system_timeout", "item_unavailable", "at_capacity"}
                /\ <<plan.expected, status>> \in
                      {<<"PLACED", "VALIDATED">>, <<"VALIDATED", "PAYMENT_CLEARED">>,
                       <<"PAYMENT_CLEARED", "CONFIRMED">>}
             \/ /\ pc = "mark_accepted"
                /\ status \in {"PREPARING", "READY", "PICKED_UP", "DELIVERED"}
  <2>1. /\ pc \in {"begin_cancel", "mark_accepted"} /\ status' = status /\ plan' = plan
    BY <1>1, FailingStep
  <2>2. PathInv'
    BY <1>1, PathStep
  <2>3. PICK p, pl, st, left : p = pc /\ pl = plan /\ st = status /\ left = strays'
    OBVIOUS
  <2>4. IntentAt(p, pl, childPc)
    BY <1>1, <2>3 DEF PathInv
  <2>5. pl = plan' /\ st = status' /\ pc' = "FAILED"
    BY <1>1, <2>1, <2>3
  <2>6. /\ WhereAt("FAILED", pl)' /\ BooksAt("FAILED", pl, left)'
    BY <2>2, <2>3, <2>5 DEF PathInv, PathAt
  <2>7. \/ <<pl.expected, st>> \in {<<"PLACED", "VALIDATED">>, <<"VALIDATED", "PAYMENT_CLEARED">>,
                                    <<"PAYMENT_CLEARED", "CONFIRMED">>}
        \/ pl = NoPlan /\ st \in {"PREPARING", "READY", "PICKED_UP", "DELIVERED"}
    BY <2>5, <2>6 DEF WhereAt, GivesUp, Fails, Drafting, Clearing, Underway, TakingBack, Settling,
       Unwound, UnwindSteps, Delivering
  <2>8. NoPlan.expected = "absent"
    BY DEF NoPlan, UnwindPlan
  <2>9. CASE p = "begin_cancel"
    <3>1. pl.expected \in {"PLACED", "PAYMENT_CLEARED"} =>
             pl.reason \in {"system_timeout", "item_unavailable", "at_capacity"}
      BY <2>4 DEF IntentAt
    <3>2. pl.expected = "VALIDATED" /\ st = "PAYMENT_CLEARED" => pl.reason = "system_timeout"
      BY <2>4, <2>5, <2>6 DEF IntentAt, BooksAt, Cleared
    <3> QED
      BY <2>3, <2>4, <2>7, <2>8, <2>9, <3>1, <3>2 DEF IntentAt
  <2>10. CASE p = "mark_accepted"
    BY <2>3, <2>4, <2>7, <2>8, <2>10 DEF IntentAt, Unwound, UnwindSteps
  <2> QED
    BY <2>1, <2>3, <2>9, <2>10
<1>2. TypeOK /\ MoneyInv /\ PathInv /\ [Next]_vars =>
         [pc # "FAILED" /\ pc' = "FAILED" =>
             \/ /\ pc = "begin_cancel"
                /\ plan.reason \in {"system_timeout", "item_unavailable", "at_capacity"}
                /\ <<plan.expected, status>> \in
                      {<<"PLACED", "VALIDATED">>, <<"VALIDATED", "PAYMENT_CLEARED">>,
                       <<"PAYMENT_CLEARED", "CONFIRMED">>}
             \/ /\ pc = "mark_accepted"
                /\ status \in {"PREPARING", "READY", "PICKED_UP", "DELIVERED"}]_vars
  BY <1>1
<1> QED
  BY <1>2, PathHolds, PTL DEF Spec, FailsOnlyOnUnheardMove

\* A cancellation decided after confirmation ends with nothing held (_unwind).
THEOREM CancelCorrect == Spec => []KitchenCancelHoldsNothing
<1>1. TypeOK /\ MoneyInv /\ PathInv => KitchenCancelHoldsNothing
  <2> SUFFICES ASSUME PathInv, status = "CANCELLED", reason \in KitchenReasons
               PROVE  pay = "VOIDED" /\ hold = "voided" /\ resv \in {"released", "expired"}
    BY DEF KitchenCancelHoldsNothing
  <2>1. /\ WhereAt(pc, plan) /\ IntentAt(pc, plan, childPc) /\ BooksAt(pc, plan, strays)
        /\ ReturnAt(pc, plan) /\ RecordAt(plan)
    BY DEF PathInv, PathAt
  <2>2. pc \in {"finish_cancel", "CANCELLED"}
    BY <2>1 DEF WhereAt, Delivering, Arrived
  <2>3. plan.expected \notin {"PLACED", "VALIDATED"}
    BY <2>1 DEF RecordAt, IntentAt, KitchenReasons
  <2>4. Late(pc, plan)
    BY <2>2, <2>3 DEF Late, Unwound, UnwindSteps
  <2> QED
    BY <2>1, <2>2, <2>4 DEF ReturnAt, BooksAt
<1> QED
  BY <1>1, PathHolds, PTL

\* Retried and late attempts announce nothing twice (transition()).
THEOREM AnnouncedCorrect == Spec => []AnnouncedOnce
<1>1. TypeOK /\ MoneyInv /\ PathInv => AnnouncedOnce
  <2> SUFFICES ASSUME PathInv PROVE AnnouncedOnce
    OBVIOUS
  <2>1. NewsInv
    BY DEF PathInv, PathAt
  <2> QED
    BY <2>1 DEF AnnouncedOnce, NewsInv, Behind
<1> QED
  BY <1>1, PathHolds, PTL

\* food_ready always has a target, and no courier outlives a closed order
\* (run starts the child before the ACCEPTED row, and drains it).
THEOREM CourierCorrect == Spec => [](CourierCueHasTarget /\ ParentOutlivesChild)
<1>1. TypeOK /\ MoneyInv /\ PathInv => CourierCueHasTarget /\ ParentOutlivesChild
  <2> SUFFICES ASSUME PathInv PROVE CourierCueHasTarget /\ ParentOutlivesChild
    OBVIOUS
  <2>1. StrayAt(pc, plan, childPc, strays) /\ CourierAt(pc, childPc, outcome, strays)
    BY DEF PathInv, PathAt
  <2>2. CourierCueHasTarget
    BY <2>1 DEF CourierCueHasTarget, CANCELLABLE_KITCHEN_STATES, StrayAt, Delivering
  <2>3. ParentOutlivesChild
    BY <2>1 DEF ParentOutlivesChild, ChildOpen, CourierAt, Unwound, UnwindSteps, Settling
  <2> QED
    BY <2>2, <2>3
<1> QED
  BY <1>1, PathHolds, PTL

-----------------------------------------------------------------------------
(* The promise of OrderLifecycle. *)

\* One effect moves the row or the books, never both.
LEMMA OneAtATime ==
    ASSUME NEW s, Perform(s)
    PROVE  UNCHANGED row \/ UNCHANGED books
BY DEF Perform, CreateOrder, Mark, Reserve, PspAuthorize, RecordAuth, Void, Capture, Release,
   Commit, BeginCancelFrom,
   BeginCancel, FinishCancel, row, books

\* The lifecycle's forward moves, one by one.
LEMMA ForwardIs ==
    /\ DOMAIN Lifecycle!Forward = {"PLACED", "VALIDATED", "PAYMENT_CLEARED", "CONFIRMED", "ACCEPTED", "PREPARING",
                                   "READY", "PICKED_UP", "DELIVERED"}
    /\ Lifecycle!Forward["PLACED"] = "VALIDATED" /\ Lifecycle!Forward["VALIDATED"] = "PAYMENT_CLEARED"
    /\ Lifecycle!Forward["PAYMENT_CLEARED"] = "CONFIRMED" /\ Lifecycle!Forward["CONFIRMED"] = "ACCEPTED"
    /\ Lifecycle!Forward["ACCEPTED"] = "PREPARING" /\ Lifecycle!Forward["PREPARING"] = "READY"
    /\ Lifecycle!Forward["READY"] = "PICKED_UP" /\ Lifecycle!Forward["PICKED_UP"] = "DELIVERED"
    /\ Lifecycle!Forward["DELIVERED"] = "SETTLED"
BY DEF Lifecycle!Forward

\* The money moves as the lifecycle lets it.
LEMMA MoneyMoves ==
    ASSUME TypeOK, MoneyInv, PathInv, NEW p, p = pc, NEW pl, pl = plan, NEW c, c = childPc,
           NEW o, o = outcome, NEW lost, lost = strays,
           NEW s \in strays \cup {pc, childPc, "kitchen", "reaper"}, EffectAt(s, p, pl, c),
           status' = status
    PROVE  [Lifecycle!Next]_(Lifecycle!vars)
<1>1. BooksBy(s) /\ events' = events
  BY DEF EffectAt, NewsBy
<1>2. StrayAt(p, pl, c, lost) /\ WhereAt(p, pl) /\ s \in lost \cup {p, c, "kitchen", "reaper"}
      /\ PositionInv /\ SettlingInv /\ PaidInv
  BY DEF PathInv, PathAt, MoneyInv
<1>3. CASE UNCHANGED <<pay, hold>> \/ (s = "psp_authorize" /\ pay' = pay)
  BY <1>1, <1>3 DEF Lifecycle!vars, Money
<1>4. CASE /\ s = "record_auth" /\ pay = "none"
           /\ pay' = IF hold = "declined" THEN "DECLINED" ELSE "AUTHORIZED"
  BY <1>1, <1>4 DEF Lifecycle!vars, Lifecycle!Next, Lifecycle!Hold, Money
<1>5. CASE s = "void" /\ pay = "AUTHORIZED" /\ pay' = "VOIDED"
  <2>1. p \in UnwindSteps \cup {"CANCELLED"}
    BY <1>2, <1>5 DEF StrayAt, UnwindSteps, TypeOK, ChildSteps
  <2>2. status \in Unwinding
    BY <1>2, <2>1 DEF PositionInv, UnwindSteps, WhereAt, GivesUp, Fails, Drafting, Clearing,
       Underway, TakingBack,
       Settling, Unwinding
  <2> QED
    BY <1>1, <1>5, <2>2 DEF Lifecycle!Next, Lifecycle!Return, Money, Unwinding
<1>6. CASE s = "capture" /\ pay = "AUTHORIZED" /\ pay' = "CAPTURED"
  <2>1. status = "DELIVERED"
    BY <1>2, <1>6 DEF SettlingInv, Licensed, PaidInv, Arrived, Settling, TypeOK, ChildSteps
  <2> QED
    BY <1>1, <1>6, <2>1 DEF Lifecycle!Next, Lifecycle!Take, Money
<1> QED
  BY <1>1, <1>3, <1>4, <1>5, <1>6 DEF BooksBy

\* The row moves as the lifecycle lets it.
LEMMA RowMoves ==
    ASSUME TypeOK, MoneyInv, PathInv, NEW p, p = pc, NEW pl, pl = plan, NEW c, c = childPc,
           NEW o, o = outcome, NEW lost, lost = strays,
           NEW s \in strays \cup {pc, childPc, "kitchen", "reaper"}, EffectAt(s, p, pl, c),
           status' # status, UNCHANGED books
    PROVE  Lifecycle!Next
<1>1. MoveAt(s, p, pl, c) /\ Money' = Money
      /\ events' = IF status' \notin Announced THEN events ELSE Append(events, status')
  BY DEF EffectAt, NewsBy, Money, books
<1>2. Lifecycle!MoveTo(status')
  <2>1. status' \in Announced \cup {"VALIDATED", "PAYMENT_CLEARED", "CANCELLING"}
    BY <1>1 DEF MoveAt, Announced
  <2> QED
    BY <1>1, <2>1 DEF Lifecycle!MoveTo, Lifecycle!Silent, Announced
<1>3. CASE status = "absent"
  <2>1. status' = "PLACED"
    <3>1. IntentAt(p, pl, c)
      BY DEF PathInv
    <3> QED
      BY <1>1, <1>3, <3>1 DEF MoveAt, IntentAt, CANCELLABLE_KITCHEN_STATES
  <2> QED
    BY <1>1, <1>2, <1>3, <2>1 DEF Lifecycle!Next, Lifecycle!Place
<1>4. CASE status \in DOMAIN Lifecycle!Forward /\ status' = Lifecycle!Forward[status]
  <2>1. status = "DELIVERED" => Money = "taken"
    <3>1. status = "DELIVERED" => s = "mark_settled"
      BY <1>1, <1>4, ForwardIs DEF MoveAt
    <3>2. s = "mark_settled" => pay = "CAPTURED"
      BY DEF MoneyInv, SettlingInv, Licensed, TypeOK, ChildSteps
    <3> QED
      BY <3>1, <3>2 DEF Money
  <2> QED
    BY <1>1, <1>2, <1>4, <2>1 DEF Lifecycle!Next, Lifecycle!Advance
<1>5. CASE status \in Lifecycle!Cancellable /\ status' = "CANCELLING"
  BY <1>1, <1>2, <1>5 DEF Lifecycle!Next, Lifecycle!BeginCancel
<1>6. CASE status = "CANCELLING" /\ status' = "CANCELLED"
  BY <1>1, <1>2, <1>6 DEF Lifecycle!Next, Lifecycle!FinishCancel
<1>7. \/ status = "absent"
      \/ status \in DOMAIN Lifecycle!Forward /\ status' = Lifecycle!Forward[status]
      \/ status \in Lifecycle!Cancellable /\ status' = "CANCELLING"
      \/ status = "CANCELLING" /\ status' = "CANCELLED"
  <2>1. s = "begin_cancel" /\ status = pl.expected => status \in {"absent", "PLACED", "VALIDATED", "PAYMENT_CLEARED", "CONFIRMED"}
    BY DEF MoneyInv, PlanInv
  <2> QED
    BY <1>1, <2>1, ForwardIs DEF MoveAt, Lifecycle!Cancellable, CANCELLABLE_KITCHEN_STATES
<1> QED
  BY <1>3, <1>4, <1>5, <1>6, <1>7

\* Every step is an effect of somebody, or touches neither row nor books.
LEMMA StepKinds ==
    ASSUME TypeOK, Next
    PROVE  \/ UNCHANGED <<row, books>>
           \/ \E s \in strays \cup {pc, childPc} : Perform(s)
           \/ SetPreparing \/ SetReady \/ ReaperExpires
<1>1. CASE ForwardPath \/ DeliveryPath \/ UnwindPath
  BY <1>1 DEF ForwardPath, DeliveryPath, UnwindPath, CreateOrderStep,
     ValidateAndReserve, MarkValidated, AuthorizePayment, RecordAuthorization,
     MarkCleared, ConfirmOrder, MarkAccepted, TryBeginCancel, TryNoRider,
     CancelDispatch, CapturePayment, CommitReservation, SettleOrder,
     BeginCancelStep, VoidAuthorization, ReleaseReservation, FinishCancelStep,
     Marked, Answered
<1>2. CASE Waits
  BY <1>2 DEF Waits, RanOutOfTime, Decided, AcceptTimeout, StartChild, DeliverOrCancel,
     DrainChild, AwaitChild
<1>3. CASE Attempts
  BY <1>3 DEF Attempts, AnswerLost, AttemptAbandoned, StrayLands, StrayDies
<1>4. CASE Delivery
  BY <1>4 DEF Delivery, FoodArrivesAtDispatch, Assigned, MarkPickedUp, CourierDelivers,
     MarkDelivered, ChildAnswerLost,
     ChildAttemptAbandoned, ChildCancelled, ChildCleanup
<1>5. CASE Environment
  BY <1>5 DEF Environment, KitchenDecides, RequestCancel, ParentSignal, FoodReadySignal
<1> QED
  BY <1>1, <1>2, <1>3, <1>4, <1>5 DEF Next

\* Every step of the saga is a step of the lifecycle or a stutter.
LEMMA LifecycleStep ==
    ASSUME TypeOK, MoneyInv, PathInv, [Next]_vars
    PROVE  [Lifecycle!Next]_(Lifecycle!vars)
<1>1. PICK p, pl, c, o, lost : p = pc /\ pl = plan /\ c = childPc /\ o = outcome /\ lost = strays
  OBVIOUS
<1>2. ASSUME NEW s \in strays \cup {pc, childPc, "kitchen", "reaper"}, EffectAt(s, p, pl, c),
             UNCHANGED row \/ UNCHANGED books
      PROVE  [Lifecycle!Next]_(Lifecycle!vars)
  <2>1. status' # status => UNCHANGED books
    BY <1>2 DEF row
  <2> QED
    BY <1>1, <1>2, <2>1, MoneyMoves, RowMoves
<1>3. CASE UNCHANGED <<row, books>>
  BY <1>3 DEF row, books, Lifecycle!vars, Money
<1>4. CASE \E s \in strays \cup {pc, childPc} : Perform(s)
  <2>1. PICK s \in strays \cup {pc, childPc} : Perform(s)
    BY <1>4
  <2> QED
    BY <1>1, <1>2, <2>1, PerformAt, OneAtATime
<1>5. CASE SetPreparing \/ SetReady
  BY <1>1, <1>2, <1>5, KitchenAt
<1>6. CASE ReaperExpires
  BY <1>1, <1>2, <1>6, ReaperAt
<1>7. CASE UNCHANGED vars
  BY <1>3, <1>7 DEF vars
<1> QED
  BY <1>3, <1>4, <1>5, <1>6, <1>7, StepKinds

\* With all its retries, races and strays the saga implements the lifecycle of
\* one order: legal moves only, an announcement each, and the money in step.
THEOREM LifecycleCorrect == Spec => ImplementsLifecycle
<1>1. Init => Lifecycle!Init
  BY DEF Init, Lifecycle!Init, Money
<1>2. TypeOK /\ MoneyInv /\ PathInv /\ [Next]_vars => [Lifecycle!Next]_(Lifecycle!vars)
  BY LifecycleStep
<1> QED
  BY <1>1, <1>2, PathHolds, PTL DEF Spec, ImplementsLifecycle, Lifecycle!Spec

-----------------------------------------------------------------------------
(* What the customer is told about the money. *)

\* A verdict speaks of the money only while the order is not served, and
\* says that the unwind is done only of a cancelled order.
SpeaksOfMoney(v, t) ==
    v.held # {} => /\ v.held = payment_held(t)
                   /\ t.status \notin {"DELIVERED", "SETTLED"}
                   /\ v.unwind_done = TRUE => t.status = "CANCELLED"

\* A verdict that says nothing of money is about money in no way that matters.
LEMMA PlainVerdicts ==
    ASSUME NEW r, NEW e, NEW b, NEW t
    PROVE  SpeaksOfMoney(Verdict(r, e), t) /\ SpeaksOfMoney(Bounded(r, e, b), t)
BY DEF Verdict, Bounded, SpeaksOfMoney

\* One that does rests on the reason and the stamps (resolve).
LEMMA OwingVerdicts ==
    ASSUME NEW r, NEW e, NEW b, NEW t, NEW done, done = TRUE => t.status = "CANCELLED",
           t.status \notin {"DELIVERED", "SETTLED"}
    PROVE  /\ SpeaksOfMoney(OwingMoney(Verdict(r, e), t, done), t)
           /\ SpeaksOfMoney(OwingMoney(Bounded(r, e, b), t, done), t)
BY DEF OwingMoney, Verdict, Bounded, SpeaksOfMoney

\* Whatever resolve says of the money follows from the timeline's facts.
LEMMA ResolveSpeaks ==
    ASSUME NEW t, NEW now, NEW delivery, NEW load, NEW budget
    PROVE  SpeaksOfMoney(resolve(t, now, delivery, load, budget), t)
<1>1. CASE t.status \in {"DELIVERED", "SETTLED"}
  BY <1>1, PlainVerdicts DEF resolve, SpeaksOfMoney
<1>2. CASE t.status \in {"REFUNDED", "PICKED_UP"}
  BY <1>2, PlainVerdicts DEF resolve, SpeaksOfMoney
<1>3. CASE t.status \in {"CANCELLING", "CANCELLED"}
  <2>1. PICK why, done : /\ resolve(t, now, delivery, load, budget) = OwingMoney(Verdict(why, {}), t, done)
                         /\ done = TRUE => t.status = "CANCELLED"
    <3>1. CASE t.cancel_reason = {}
      BY <1>3, <3>1 DEF resolve
    <3>2. CASE t.cancel_reason # {}
      BY <1>3, <3>2 DEF resolve
    <3> QED
      BY <3>1, <3>2
  <2> QED
    BY <1>3, <2>1, OwingVerdicts
<1>4. CASE t.status = "READY"
  <2>1. resolve(t, now, delivery, load, budget) = ready(t, now, delivery, budget)
    BY <1>4 DEF resolve
  <2>2. \E r, e, b : ready(t, now, delivery, budget) \in
           {Verdict(r, e), Bounded(r, e, b), OwingMoney(Bounded(r, e, b), t, FALSE)}
    BY DEF ready
  <2> QED
    BY <1>4, <2>1, <2>2, PlainVerdicts, OwingVerdicts
<1>5. CASE t.status \in {"ACCEPTED", "PREPARING"}
  BY <1>5, PlainVerdicts DEF resolve, kitchen, Verdict, SpeaksOfMoney
<1>6. CASE t.status \in {"CONFIRMED", "PLACED", "VALIDATED", "PAYMENT_CLEARED"}
  <2>1. \E r, e, b : resolve(t, now, delivery, load, budget) = OwingMoney(Bounded(r, e, b), t, FALSE)
    BY <1>6 DEF resolve
  <2> QED
    BY <1>6, <2>1, OwingVerdicts
<1>7. CASE t.status \notin {"DELIVERED", "SETTLED", "REFUNDED", "PICKED_UP", "CANCELLING", "CANCELLED", "READY",
                           "ACCEPTED", "PREPARING", "CONFIRMED", "PLACED", "VALIDATED", "PAYMENT_CLEARED"}
  <2>1. resolve(t, now, delivery, load, budget) = Verdict("unknown", {})
    BY <1>7 DEF resolve
  <2> QED
    BY <2>1, PlainVerdicts
<1> QED
  BY <1>1, <1>2, <1>3, <1>4, <1>5, <1>6, <1>7

\* The sentence is what the verdict holds of the money, or none.
LEMMA RenderSpeaks ==
    ASSUME NEW v
    PROVE  render(v).money \in {"nothing", money_sentence(v.held, v.unwind_done)}
BY DEF render

\* What the assistant is given of the row.
LEMMA TimelineIs ==
    ASSUME NEW at, NEW t, t = timeline(order_timeline(at))
    PROVE  /\ t.status = status /\ t.cancel_reason = {reason} \ {"none"}
           /\ t.stamp["payment_cleared_at"] = {}
           /\ \A m \in Milestones \ {"payment_cleared_at"} : t.stamp[m] # {} => WasConfirmed
<1>1. t = [order_timeline(at) EXCEPT !.stamp["payment_cleared_at"] = {}]
  BY DEF timeline
<1>2. /\ order_timeline(at).stamp \in [Milestones -> {{at}, {}}]
      /\ \A m \in Milestones : order_timeline(at).stamp[m] # {} => WasConfirmed
  BY DEF order_timeline, MILESTONES, WasAnnounced, WasConfirmed, Confirmations, Milestones
<1>3. t.stamp = [order_timeline(at).stamp EXCEPT !["payment_cleared_at"] = {}]
  BY <1>1 DEF order_timeline
<1>4. t.status = status /\ t.cancel_reason = {reason} \ {"none"}
  BY <1>1 DEF order_timeline
<1> QED
  BY <1>2, <1>3, <1>4 DEF Milestones

\* The evidence is true: who was announced as confirmed had a hold, who gave a
\* reason from before the authorization has none.
LEMMA EvidenceIsTrue ==
    ASSUME TypeOK, MoneyInv, PathInv, NEW t, t.status = status, t.cancel_reason = {reason} \ {"none"},
           t.stamp["payment_cleared_at"] = {},
           \A m \in Milestones \ {"payment_cleared_at"} : t.stamp[m] # {} => WasConfirmed
    PROVE  /\ payment_held(t) = {FALSE} => hold \notin {"held", "captured"}
           /\ payment_held(t) # {FALSE} /\ payment_held(t) # {} =>
                 /\ status \notin {"DELIVERED", "SETTLED"} => hold \in {"held", "voided"}
                 /\ status = "CANCELLED" => hold = "voided"
<1>1. PICK p, pl, c, o, lost : p = pc /\ pl = plan /\ c = childPc /\ o = outcome /\ lost = strays
  OBVIOUS
<1>2. /\ IntentAt(p, pl, c) /\ WhereAt(p, pl) /\ BooksAt(p, pl, lost) /\ ReturnAt(p, pl)
      /\ RecordAt(pl) /\ EvidenceAt(pl)
  BY <1>1 DEF PathInv, PathAt
<1>3. /\ payment_held(t) = {FALSE} => reason \in PRE_AUTHORIZATION_REASONS
      /\ payment_held(t) # {FALSE} /\ payment_held(t) # {} => WasConfirmed
  BY DEF payment_held
<1>4. reason \in PRE_AUTHORIZATION_REASONS => hold \in {"none", "declined"}
  <2> SUFFICES ASSUME reason \in PRE_AUTHORIZATION_REASONS PROVE hold \in {"none", "declined"}
    OBVIOUS
  <2>1. pl.expected \in {"PLACED", "VALIDATED"} /\ reason = pl.reason
    BY <1>2 DEF RecordAt, PRE_AUTHORIZATION_REASONS
  <2>2. CASE pl.expected = "PLACED"
    BY <1>2, <2>2 DEF BooksAt
  <2>3. CASE pl.expected = "VALIDATED"
    <3>1. pl.reason = "payment_declined"
      BY <1>2, <2>1, <2>3 DEF IntentAt, PRE_AUTHORIZATION_REASONS
    <3> QED
      BY <1>2, <3>1 DEF BooksAt
  <2> QED
    BY <2>1, <2>2, <2>3
<1>5. WasConfirmed /\ status \notin {"DELIVERED", "SETTLED"} => hold \in {"held", "voided"}
  <2>1. WasConfirmed => pay \in {"AUTHORIZED", "VOIDED", "CAPTURED"}
    BY <1>2 DEF EvidenceAt, TypeOK
  <2> QED
    BY <1>2, <2>1 DEF BooksAt, MoneyInv, PaidInv, Arrived
<1>6. WasConfirmed /\ status = "CANCELLED" => hold = "voided"
  <2> SUFFICES ASSUME WasConfirmed, status = "CANCELLED" PROVE hold = "voided"
    OBVIOUS
  <2>1. p \in {"finish_cancel", "CANCELLED"}
    BY <1>2 DEF WhereAt, Delivering, Arrived
  <2>2. Late(p, pl)
    BY <1>2, <2>1 DEF EvidenceAt, Unwinding, Late, Unwound, UnwindSteps
  <2> QED
    BY <1>2, <2>1, <2>2 DEF ReturnAt, BooksAt
<1> QED
  BY <1>3, <1>4, <1>5, <1>6

\* No customer is told something false about the money (ExplainService.explain):
\* never "nothing was charged" over a hold, never "released" before it is.
THEOREM SentenceCorrect == Spec => []MoneySentenceIsTrue
<1>1. TypeOK /\ MoneyInv /\ PathInv => MoneySentenceIsTrue
  <2> SUFFICES ASSUME TypeOK, MoneyInv, PathInv, NEW said \in Told
               PROVE  /\ said.money = "never charged" => hold \notin {"held", "captured"}
                      /\ said.money = "releasing" => hold \in {"held", "voided"}
                      /\ said.money = "released" => hold = "voided"
    BY DEF MoneySentenceIsTrue
  <2>1. PICK at, now, delivery : said \in Says(at, now, delivery)
    BY DEF Told
  <2>2. PICK t, v : /\ t = timeline(order_timeline(at))
                    /\ v = resolve(t, now, delivery, {}, DefaultBudget) /\ said = render(v)
    BY <2>1 DEF Says, explain
  <2>3. said.money \in {"nothing", money_sentence(v.held, v.unwind_done)} /\ SpeaksOfMoney(v, t)
    BY <2>2, RenderSpeaks, ResolveSpeaks
  <2>4. /\ payment_held(t) = {FALSE} => hold \notin {"held", "captured"}
        /\ payment_held(t) # {FALSE} /\ payment_held(t) # {} =>
              /\ status \notin {"DELIVERED", "SETTLED"} => hold \in {"held", "voided"}
              /\ status = "CANCELLED" => hold = "voided"
    BY <2>2, TimelineIs, EvidenceIsTrue
  <2>5. t.status = status
    BY <2>2, TimelineIs
  <2>6. said.money = "never charged" => v.held = {FALSE}
    BY <2>3 DEF money_sentence
  <2>7. said.money \in {"releasing", "released"} => v.held # {FALSE} /\ v.held # {}
    BY <2>3 DEF money_sentence
  <2>8. said.money = "released" => v.unwind_done = TRUE
    BY <2>3 DEF money_sentence
  <2> QED
    BY <2>3, <2>4, <2>5, <2>6, <2>7, <2>8 DEF SpeaksOfMoney
<1> QED
  BY <1>1, PathHolds, PTL

=============================================================================
