------------------------------ MODULE Dispatch ------------------------------
(***************************************************************************)
(* Dispatch: riders with their offer lock and their jobs, one delivery row *)
(* per order, and the delivery workflow that runs the offer cascade.       *)
(*                                                                         *)
(* Each write of the two DynamoDB tables is one conditional UpdateItem, so *)
(* each is one step; a handler is as many steps as it has writes and reads *)
(* that steer it.  The workflow calls dispatch through activities: an      *)
(* attempt whose answer is lost is made again, and the abandoned attempt   *)
(* may still be running (a stray).  The geo index is not the truth and may *)
(* show or hide any rider, so a search may find any of them or none.       *)
(* The order row is kept as far as the courier matters; OrderSaga has it   *)
(* in full.                                                                *)
(***************************************************************************)
EXTENDS Naturals, Sequences, FiniteSets

CONSTANTS
    Riders, Orders,
    Cap,            \* rider_cap: deliveries one rider may have at a time
    MaxOffers,      \* offers there are ever made
    MaxLost         \* answers, signals and calls that are lost

ASSUME CapAssumption == Cap \in Nat \ {0} /\ MaxOffers \in Nat /\ MaxLost \in Nat
ASSUME NamesAssumption == "none" \notin Riders /\ IsFiniteSet(Orders)

VARIABLES
    online,     \* rider_state.status
    lock,       \* rider_state.offer_lock: an offer, 0 for none
    jobs,       \* rider_state.active_deliveries
    row,        \* the deliveries table
    made,       \* the offers made so far: offer f is made[f]
    pc,         \* where the delivery workflow of an order stands
    rider,      \* its rider: the candidate of the offer, then the courier
    offer,      \* its current offer
    exclude,    \* the riders it does not ask again
    picked, delivered,  \* the couriers whose signals it has
    status,     \* orders.status
    stamp,      \* orders.rider_id
    calls,      \* attempts of activities that are running
    taps,       \* rider requests that are running
    mail,       \* courier signals on their way
    replies,    \* what accept_offer has answered to riders whose accept applied
    lost

store == <<online, lock, jobs, row, made>>
flow == <<pc, rider, offer, exclude, picked, delivered>>
order == <<status, stamp>>
riderSide == <<taps, mail, replies>>
vars == <<store, flow, order, calls, riderSide, lost>>

RowStates == {"none", "OFFERING", "ASSIGNED", "PICKED_UP", "DELIVERED", "CANCELLED"}
Taken == {"ASSIGNED", "PICKED_UP", "DELIVERED"}

Activities == {"find", "expire", "record", "unassign", "cancel"}
Waits == {"loop", "window", "await_pickup", "await_delivery"}
Marks == {"mark_picked_up", "mark_delivered", "no_rider"}
Stages == Activities \cup Waits \cup Marks \cup {"closed"}

Free(r) == lock[r] = 0 /\ Cardinality(jobs[r]) < Cap
Unlock(r, f) == lock' = IF r \in Riders /\ lock[r] = f THEN [lock EXCEPT ![r] = 0] ELSE lock
Drop(r, o) == jobs' = IF r \in Riders THEN [jobs EXCEPT ![r] = @ \ {o}] ELSE jobs
At(o, state) == [state |-> state, rider |-> row[o].rider, offer |-> row[o].offer]
Move(o, state) == row' = [row EXCEPT ![o] = At(o, state)]

-----------------------------------------------------------------------------
(* Activities: an attempt, its steps, and what the workflow does with the  *)
(* answer.                                                                 *)

First(kind) ==
    IF kind = "find" THEN "reserve" ELSE IF kind = "expire" THEN "release"
    ELSE IF kind = "record" THEN "stamp" ELSE IF kind = "unassign" THEN "unassign"
    ELSE "get"

Current(o) == {c \in calls : c.order = o /\ c.role = "current"}

\* execute_activity: an attempt is made, and made again when it is lost.
Attempt(o) ==
    /\ pc[o] \in Activities /\ Current(o) = {}
    /\ calls' = calls \cup
          {[order |-> o, kind |-> pc[o], at |-> First(pc[o]), rider |-> rider[o],
            offer |-> offer[o], ex |-> exclude[o], role |-> "current", n |-> lost]}
    /\ UNCHANGED <<store, flow, order, riderSide, lost>>

Call(c, at, r, f, role) ==
    [order |-> c.order, kind |-> c.kind, at |-> at, rider |-> r, offer |-> f,
     ex |-> c.ex, role |-> role, n |-> c.n]
Replaced(c, d) == calls' = (calls \ {c}) \cup {d}
Becomes(c, at) == Replaced(c, Call(c, at, c.rider, c.offer, c.role))
Stray(c) == Call(c, c.at, c.rider, c.offer, "stray")

Goto(o, place) == pc' = [pc EXCEPT ![o] = place]

\* The answer of a stray is nobody's.
Answered(c, place, r, f, ex) ==
    /\ calls' = calls \ {c}
    /\ \/ /\ c.role = "current"
          /\ Goto(c.order, place)
          /\ rider' = [rider EXCEPT ![c.order] = r]
          /\ offer' = [offer EXCEPT ![c.order] = f]
          /\ exclude' = [exclude EXCEPT ![c.order] = ex]
          /\ UNCHANGED <<picked, delivered>>
       \/ /\ c.role = "stray" /\ UNCHANGED flow

Plain(c, place) == Answered(c, place, rider[c.order], offer[c.order], exclude[c.order])
Missed(c, r) == Answered(c, "loop", "none", 0, exclude[c.order] \cup {r})

\* Fault: the lock is taken before the capacity is looked at.
FaultyReserve(c) ==
    /\ c.kind = "find" /\ c.at = "reserve"
    /\ \E r \in online \ c.ex :
          /\ lock[r] = 0 /\ Len(made) < MaxOffers
          /\ lock' = [lock EXCEPT ![r] = Len(made) + 1]
          /\ made' = Append(made, [order |-> c.order, rider |-> r])
          /\ Replaced(c, Call(c, "put", r, Len(made) + 1, c.role))
    /\ UNCHANGED <<online, jobs, row, flow, order, riderSide, lost>>

\* find_and_offer: the best candidate whose conditional write succeeds.
Reserve(c) ==
    /\ c.kind = "find" /\ c.at = "reserve"
    /\ \E r \in online \ c.ex :
          /\ Free(r) /\ Len(made) < MaxOffers
          /\ lock' = [lock EXCEPT ![r] = Len(made) + 1]
          /\ made' = Append(made, [order |-> c.order, rider |-> r])
          /\ Replaced(c, Call(c, "put", r, Len(made) + 1, c.role))
    /\ UNCHANGED <<online, jobs, row, flow, order, riderSide, lost>>

\* Nobody near, alive and free: the breather, and a fresh round.
NoCandidates(c) ==
    /\ c.kind = "find" /\ c.at = "reserve"
    /\ Answered(c, "loop", "none", 0, {})
    /\ UNCHANGED <<store, order, riderSide, lost>>

\* Fault: the offer is recorded whatever the row says.
FaultyPutOffering(c) ==
    /\ c.kind = "find" /\ c.at = "put"
    /\ row' = [row EXCEPT ![c.order] =
                  [state |-> "OFFERING", rider |-> c.rider, offer |-> c.offer]]
    /\ Answered(c, "window", c.rider, c.offer, exclude[c.order])
    /\ UNCHANGED <<online, lock, jobs, made, order, riderSide, lost>>

\* put_offering: a taken or cancelled row stays; its refusal goes unread.
PutOffering(c) ==
    /\ c.kind = "find" /\ c.at = "put"
    /\ row' = IF row[c.order].state \in {"none", "OFFERING"}
              THEN [row EXCEPT ![c.order] =
                       [state |-> "OFFERING", rider |-> c.rider, offer |-> c.offer]]
              ELSE row
    /\ Answered(c, "window", c.rider, c.offer, exclude[c.order])
    /\ UNCHANGED <<online, lock, jobs, made, order, riderSide, lost>>

\* expire_offer: the lock, if this offer still holds it.
ReleaseOffer(c) ==
    /\ c.kind = "expire" /\ c.at = "release"
    /\ Unlock(c.rider, c.offer)
    /\ \/ lock[c.rider] = c.offer /\ Missed(c, c.rider)
       \/ lock[c.rider] # c.offer /\ Becomes(c, "read") /\ UNCHANGED flow
    /\ UNCHANGED <<online, jobs, row, made, order, riderSide, lost>>

\* The accept was first: the row says who has the delivery.
ReadRow(c) ==
    /\ c.kind = "expire" /\ c.at = "read"
    /\ \/ /\ row[c.order].state \in Taken
          /\ Answered(c, "record", row[c.order].rider, 0, exclude[c.order])
       \/ row[c.order].state \notin Taken /\ Missed(c, c.rider)
    /\ UNCHANGED <<store, order, riderSide, lost>>

\* record_rider: last write wins.
Stamp(c) ==
    /\ c.kind = "record" /\ c.at = "stamp"
    /\ stamp' = [stamp EXCEPT ![c.order] = c.rider]
    /\ Plain(c, "await_pickup")
    /\ UNCHANGED <<store, status, riderSide, lost>>

\* unassign_stalled: only an assignment of this rider that is not picked up;
\* any other row is taken for a pickup.
Unassign(c) ==
    /\ c.kind = "unassign" /\ c.at = "unassign"
    /\ \/ /\ row[c.order].state = "ASSIGNED" /\ row[c.order].rider = c.rider
          /\ Move(c.order, "OFFERING")
          /\ Becomes(c, "finish") /\ UNCHANGED flow
       \/ /\ ~(row[c.order].state = "ASSIGNED" /\ row[c.order].rider = c.rider)
          /\ Plain(c, "mark_picked_up") /\ UNCHANGED row
    /\ UNCHANGED <<online, lock, jobs, made, order, riderSide, lost>>

UnassignFinish(c) ==
    /\ c.kind = "unassign" /\ c.at = "finish"
    /\ Drop(c.rider, c.order)
    /\ Missed(c, c.rider)
    /\ UNCHANGED <<online, lock, row, made, order, riderSide, lost>>

\* cancel: the row is read, then cancelled out of OFFERING or else ASSIGNED,
\* and whoever was in the row that was read is freed.
GetRow(c) ==
    /\ c.kind = "cancel" /\ c.at = "get"
    /\ Replaced(c, Call(c, "OFFERING", row[c.order].rider, row[c.order].offer, c.role))
    /\ UNCHANGED <<store, flow, order, riderSide, lost>>

CancelRow(c) ==
    /\ c.kind = "cancel" /\ c.at \in {"OFFERING", "ASSIGNED"}
    /\ \/ /\ row[c.order].state = c.at
          /\ Move(c.order, "CANCELLED")
          /\ \/ c.rider # "none" /\ Becomes(c, "release") /\ UNCHANGED flow
             \/ c.rider = "none" /\ Plain(c, "closed")
       \/ /\ row[c.order].state # c.at
          /\ \/ c.at = "OFFERING" /\ Becomes(c, "ASSIGNED") /\ UNCHANGED flow
             \/ c.at = "ASSIGNED" /\ Plain(c, "closed")
          /\ UNCHANGED row
    /\ UNCHANGED <<online, lock, jobs, made, order, riderSide, lost>>

CancelRelease(c) ==
    /\ c.kind = "cancel" /\ c.at = "release"
    /\ Unlock(c.rider, c.offer)
    /\ Becomes(c, "finish")
    /\ UNCHANGED <<online, jobs, row, made, flow, order, riderSide, lost>>

CancelFinish(c) ==
    /\ c.kind = "cancel" /\ c.at = "finish"
    /\ Drop(c.rider, c.order)
    /\ Plain(c, "closed")
    /\ UNCHANGED <<online, lock, row, made, order, riderSide, lost>>

CallStep(c) ==
    \/ Reserve(c) \/ NoCandidates(c) \/ PutOffering(c) \/ ReleaseOffer(c)
    \/ ReadRow(c) \/ Stamp(c) \/ Unassign(c) \/ UnassignFinish(c) \/ GetRow(c)
    \/ CancelRow(c) \/ CancelRelease(c) \/ CancelFinish(c)

Loses == lost < MaxLost /\ lost' = lost + 1

\* The attempt dies where it stands, or its answer is lost.
CallDies(c) ==
    /\ Loses /\ calls' = calls \ {c}
    /\ UNCHANGED <<store, flow, order, riderSide>>

\* STEP_TIMEOUT gives up on an attempt that is still running.
CallAbandoned(c) ==
    /\ Loses /\ c.role = "current"
    /\ Replaced(c, Stray(c))
    /\ UNCHANGED <<store, flow, order, riderSide>>

-----------------------------------------------------------------------------
(* The delivery workflow between its activities, and its parent. *)

\* Fault: the deadline is looked at only after a miss.
FaultyDeadline(o) ==
    /\ pc[o] = "loop" /\ exclude[o] # {}
    /\ Goto(o, "no_rider")
    /\ UNCHANGED <<store, rider, offer, exclude, picked, delivered, order,
                   calls, riderSide, lost>>

\* The READY-unassigned deadline, looked at before each attempt.
Deadline(o) ==
    /\ pc[o] = "loop"
    /\ Goto(o, "no_rider")
    /\ UNCHANGED <<store, rider, offer, exclude, picked, delivered, order,
                   calls, riderSide, lost>>

\* The next attempt; the end of an offer's window; no pickup in time.  The
\* accept never ends a window early: order refuses the signal (see Notify).
TimerStep(o) ==
    /\ \/ pc[o] = "loop" /\ Goto(o, "find")
       \/ pc[o] = "window" /\ Goto(o, "expire")
       \/ pc[o] = "await_pickup" /\ Goto(o, "unassign")
    /\ UNCHANGED <<store, rider, offer, exclude, picked, delivered, order,
                   calls, riderSide, lost>>

\* Signals are scoped to their rider.
SignalSeen(o) ==
    /\ \/ pc[o] = "await_pickup" /\ rider[o] \in picked[o] /\ Goto(o, "mark_picked_up")
       \/ pc[o] = "await_delivery" /\ rider[o] \in delivered[o] /\ Goto(o, "mark_delivered")
    /\ UNCHANGED <<store, rider, offer, exclude, picked, delivered, order,
                   calls, riderSide, lost>>

\* MARK_PICKED_UP loses to a cancel that has the row; so does the child.
MarkPickedUp(o) ==
    /\ pc[o] = "mark_picked_up" /\ status[o] = "READY"
    /\ status' = [status EXCEPT ![o] = "PICKED_UP"]
    /\ Goto(o, "await_delivery")
    /\ UNCHANGED <<store, rider, offer, exclude, picked, delivered, stamp,
                   calls, riderSide, lost>>

MarkDelivered(o) ==
    /\ pc[o] = "mark_delivered"
    /\ status' = [status EXCEPT ![o] = "DELIVERED"]
    /\ Goto(o, "closed")
    /\ UNCHANGED <<store, rider, offer, exclude, picked, delivered, stamp,
                   calls, riderSide, lost>>

\* NO_RIDER: the parent's TRY_BEGIN_CANCEL, then its CANCEL_DISPATCH.
TryNoRider(o) ==
    /\ pc[o] = "no_rider" /\ status[o] = "READY"
    /\ status' = [status EXCEPT ![o] = "CANCELLING"]
    /\ Goto(o, "cancel")
    /\ UNCHANGED <<store, rider, offer, exclude, picked, delivered, stamp,
                   calls, riderSide, lost>>

\* The customer's TRY_BEGIN_CANCEL.
CustomerCancels(o) ==
    /\ pc[o] # "closed" /\ status[o] = "READY"
    /\ status' = [status EXCEPT ![o] = "CANCELLING"]
    /\ UNCHANGED <<store, flow, stamp, calls, riderSide, lost>>

\* child.cancel(): at a wait the cleanup frees what dispatch holds; at an
\* activity (an ActivityError, not a CancelledError) it does not run, and the
\* attempt is left to itself.
ChildCancelled(o) ==
    /\ status[o] = "CANCELLING" /\ pc[o] \notin {"cancel", "closed"}
    /\ \/ pc[o] \in Waits /\ Goto(o, "cancel")
       \/ pc[o] \notin Waits /\ Goto(o, "closed")
    /\ calls' = (calls \ Current(o)) \cup {Stray(c) : c \in Current(o)}
    /\ UNCHANGED <<store, rider, offer, exclude, picked, delivered, order,
                   riderSide, lost>>

-----------------------------------------------------------------------------
(* The riders. *)

GoOnline(r) ==
    /\ online' = online \cup {r}
    /\ UNCHANGED <<lock, jobs, row, made, flow, order, calls, riderSide, lost>>

\* A rider who goes offline keeps the lock and the jobs.
GoOffline(r) ==
    /\ online' = online \ {r}
    /\ UNCHANGED <<lock, jobs, row, made, flow, order, calls, riderSide, lost>>

Tap(kind, o, r, f) == [kind |-> kind, order |-> o, rider |-> r, offer |-> f]

\* What the courier relay answers.  The order service wants the offer with
\* "accepted"; OrderCourierClient never sends it, so that is a 422, which the
\* client takes for an outage.
Notify(event) == IF event = "accepted" THEN "unavailable" ELSE "ok"

\* accept_offer: lock -> job on the rider...
Accept(f) ==
    LET r == made[f].rider
    IN  /\ lock[r] = f
        /\ lock' = [lock EXCEPT ![r] = 0]
        /\ jobs' = [jobs EXCEPT ![r] = @ \cup {made[f].order}]
        /\ taps' = taps \cup {Tap("assign", made[f].order, r, f)}
        /\ UNCHANGED <<online, row, made, flow, order, calls, mail, replies, lost>>

\* ... then OFFERING -> ASSIGNED on the row; its refusal goes unread.
Assign(t) ==
    /\ t.kind = "assign"
    /\ row' = IF row[t.order].state = "OFFERING" /\ row[t.order].offer = t.offer
              THEN [row EXCEPT ![t.order] = At(t.order, "ASSIGNED")] ELSE row
    /\ taps' = taps \ {t}
    /\ replies' = replies \cup {Notify("accepted")}
    /\ UNCHANGED <<online, lock, jobs, made, flow, order, calls, mail, lost>>

\* picked_up: the guarded move or this rider's own replay, then the signal.
\* (A replay of what the workflow has heard changes nothing and is left out.)
PickedUp(r, o) ==
    /\ row[o].rider = r /\ row[o].state \in Taken
    /\ row[o].state = "ASSIGNED" \/ r \notin picked[o]
    /\ row' = IF row[o].state = "ASSIGNED" THEN [row EXCEPT ![o] = At(o, "PICKED_UP")] ELSE row
    /\ mail' = mail \cup {[order |-> o, event |-> "picked_up", rider |-> r]}
    /\ UNCHANGED <<online, lock, jobs, made, flow, order, calls, taps, replies, lost>>

\* Fault: a repeated tap is a conflict.
FaultyDelivered(r, o) ==
    /\ row[o].rider = r /\ row[o].state = "PICKED_UP"
    /\ Move(o, "DELIVERED")
    /\ taps' = taps \cup {Tap("finish", o, r, 0)}
    /\ UNCHANGED <<online, lock, jobs, made, flow, order, calls, mail, replies, lost>>

\* delivered: the row, then the rider's slot, then the signal.
Delivered(r, o) ==
    /\ row[o].rider = r /\ row[o].state \in {"PICKED_UP", "DELIVERED"}
    /\ row[o].state = "PICKED_UP" \/ r \notin delivered[o]
    /\ Move(o, "DELIVERED")
    /\ taps' = taps \cup {Tap("finish", o, r, 0)}
    /\ UNCHANGED <<online, lock, jobs, made, flow, order, calls, mail, replies, lost>>

FinishDelivery(t) ==
    /\ t.kind = "finish"
    /\ Drop(t.rider, t.order)
    /\ taps' = taps \ {t}
    /\ mail' = mail \cup {[order |-> t.order, event |-> "delivered", rider |-> t.rider]}
    /\ UNCHANGED <<online, lock, row, made, flow, order, calls, replies, lost>>

TapDies(t) ==
    /\ Loses /\ taps' = taps \ {t}
    /\ UNCHANGED <<store, flow, order, calls, mail, replies>>

\* signal_courier: a closed workflow answers 404 and the fact is dropped.
Signal(m) ==
    /\ mail' = mail \ {m}
    /\ \/ /\ m.event = "picked_up" /\ pc[m.order] # "closed"
          /\ picked' = [picked EXCEPT ![m.order] = @ \cup {m.rider}]
          /\ UNCHANGED delivered
       \/ /\ m.event = "delivered" /\ pc[m.order] # "closed"
          /\ delivered' = [delivered EXCEPT ![m.order] = @ \cup {m.rider}]
          /\ UNCHANGED picked
       \/ /\ pc[m.order] = "closed" /\ UNCHANGED <<picked, delivered>>
    /\ UNCHANGED <<store, pc, rider, offer, exclude, order, calls, taps, replies, lost>>

SignalLost(m) ==
    /\ Loses /\ mail' = mail \ {m}
    /\ UNCHANGED <<store, flow, order, calls, taps, replies>>

-----------------------------------------------------------------------------
Init ==
    /\ online = {} /\ lock = [r \in Riders |-> 0] /\ jobs = [r \in Riders |-> {}]
    /\ row = [o \in Orders |-> [state |-> "none", rider |-> "none", offer |-> 0]]
    /\ made = << >>
    /\ pc = [o \in Orders |-> "loop"]
    /\ rider = [o \in Orders |-> "none"] /\ offer = [o \in Orders |-> 0]
    /\ exclude = [o \in Orders |-> {}]
    /\ picked = [o \in Orders |-> {}] /\ delivered = [o \in Orders |-> {}]
    /\ status = [o \in Orders |-> "READY"] /\ stamp = [o \in Orders |-> "none"]
    /\ calls = {} /\ taps = {} /\ mail = {} /\ replies = {} /\ lost = 0

Flow(o) ==
    \/ Attempt(o) \/ Deadline(o) \/ TimerStep(o) \/ SignalSeen(o)
    \/ MarkPickedUp(o) \/ MarkDelivered(o) \/ TryNoRider(o)
    \/ CustomerCancels(o) \/ ChildCancelled(o)

RiderStep ==
    \/ \E r \in Riders : GoOnline(r) \/ GoOffline(r)
    \/ \E r \in Riders, o \in Orders : PickedUp(r, o) \/ Delivered(r, o)
    \/ \E f \in DOMAIN made : Accept(f)
    \/ \E t \in taps : Assign(t) \/ FinishDelivery(t)
    \/ \E m \in mail : Signal(m)

Losses ==
    \/ \E c \in calls : CallDies(c) \/ CallAbandoned(c)
    \/ \E t \in taps : TapDies(t)
    \/ \E m \in mail : SignalLost(m)

Next ==
    \/ \E o \in Orders : Flow(o)
    \/ \E c \in calls : CallStep(c)
    \/ RiderStep \/ Losses

Spec == Init /\ [][Next]_vars

\* Temporal goes on with a workflow and with its activities, its timers fire,
\* and what is sent arrives or is lost; a rider with the food delivers it, and
\* the app repeats a tap that was not answered.  Nothing makes a rider accept
\* or pick up.
Fairness ==
    /\ \A o \in Orders :
          /\ WF_vars(Attempt(o) \/ SignalSeen(o) \/ MarkPickedUp(o) \/ MarkDelivered(o))
          /\ WF_vars(TryNoRider(o) \/ ChildCancelled(o))
          /\ WF_vars(TimerStep(o)) /\ SF_vars(Deadline(o))
          /\ WF_vars(\E c \in calls : c.order = o /\ CallStep(c))
          /\ \A r \in Riders : WF_vars(Delivered(r, o))
    /\ WF_vars(\E t \in taps : Assign(t) \/ FinishDelivery(t))
    /\ \A o \in Orders, r \in Riders, e \in {"picked_up", "delivered"} :
          SF_vars([order |-> o, event |-> e, rider |-> r] \in mail
                  /\ Signal([order |-> o, event |-> e, rider |-> r]))

FairSpec == Spec /\ Fairness

-----------------------------------------------------------------------------
(* Properties. *)

Offers == 0..MaxOffers
Places == {"reserve", "put", "release", "read", "stamp", "unassign", "finish", "get",
           "OFFERING", "ASSIGNED"}
Calls == [order : Orders, kind : Activities, at : Places,
          rider : Riders \cup {"none"}, offer : Offers, ex : SUBSET Riders,
          role : {"current", "stray"}, n : 0..MaxLost]
Taps == [kind : {"assign", "finish"}, order : Orders, rider : Riders, offer : Offers]
TypeOK ==
    /\ online \subseteq Riders /\ lock \in [Riders -> Offers]
    /\ jobs \in [Riders -> SUBSET Orders]
    /\ row \in [Orders -> [state : RowStates, rider : Riders \cup {"none"}, offer : Offers]]
    /\ made \in Seq([order : Orders, rider : Riders]) /\ Len(made) <= MaxOffers
    /\ pc \in [Orders -> Stages]
    /\ rider \in [Orders -> Riders \cup {"none"}] /\ offer \in [Orders -> Offers]
    /\ exclude \in [Orders -> SUBSET Riders]
    /\ picked \in [Orders -> SUBSET Riders] /\ delivered \in [Orders -> SUBSET Riders]
    /\ status \in [Orders -> {"READY", "PICKED_UP", "DELIVERED", "CANCELLING"}]
    /\ stamp \in [Orders -> Riders \cup {"none"}]
    /\ calls \subseteq Calls /\ taps \subseteq Taps
    /\ mail \subseteq [order : Orders, event : {"picked_up", "delivered"}, rider : Riders]
    /\ replies \subseteq {"unavailable", "ok"} /\ lost \in 0..MaxLost

\* ADR-0011: a rider is never promised to more deliveries than the cap, the
\* offer that is being considered included, however many cascades and strays
\* compete for the rider.
CapRespected ==
    \A r \in Riders : Cardinality(jobs[r]) + (IF lock[r] = 0 THEN 0 ELSE 1) <= Cap

\* While riders may have one delivery at a time, which is the code's default, the
\* courier of a delivery row has the delivery among its jobs, so that nobody
\* offers that rider another one: the two tables agree although each handler
\* writes one after the other.  A cap of two does not keep them together (README).
CourierHasJob ==
    Cap = 1 =>
        \A o \in Orders :
            row[o].state \in {"ASSIGNED", "PICKED_UP"} => o \in jobs[row[o].rider]

\* Once the food is with a courier, no expired offer, stall or cancel takes the
\* delivery away from that courier.
PickupIsFinal ==
    [][\A o \in Orders :
          row[o].state \in {"PICKED_UP", "DELIVERED"} =>
              /\ row'[o].rider = row[o].rider
              /\ row'[o].state \in {row[o].state, "DELIVERED"}]_vars

\* An order is marked delivered only when its courier delivered it: not on a
\* ghost's late signals, and not after a stall was answered wrongly.
DeliveredIsReal ==
    \A o \in Orders :
        status[o] = "DELIVERED" => /\ row[o].state = "DELIVERED"
                                   /\ row[o].rider = rider[o]

\* The cascade comes to an end: a courier has the food or the order is
\* cancelled, whoever declines, stalls or vanishes.
CascadeEnds == \A o \in Orders : <>(pc[o] \in {"closed", "await_delivery"})

\* A delivery the courier completed is marked, although the signal was lost.
DeliveryIsMarked ==
    \A o \in Orders :
        (row[o].state = "DELIVERED" /\ pc[o] = "await_delivery") ~> status[o] = "DELIVERED"

Idle(o) == /\ \A c \in calls : c.order # o
           /\ \A t \in taps : t.order # o

\* This and the next two are not met by the code (README).
\* DeliveryWorkflow: "a cancelled order must never strand a locked or assigned
\* rider": once nothing of it is running any more, nobody is held for it.
CancelFreesRiders ==
    \A o \in Orders :
        (pc[o] = "closed" /\ status[o] = "CANCELLING" /\ Idle(o)
            /\ row[o].state \in {"none", "OFFERING", "ASSIGNED", "CANCELLED"}) =>
            \A r \in Riders : /\ o \notin jobs[r]
                              /\ lock[r] # 0 => made[lock[r]].order # o

\* expire_offer: "read the row and tell the workflow the truth it missed": a
\* workflow that looks for another rider has not overlooked a courier who has
\* the food (it would end as NO_RIDER, and the parent would undo the order).
NoCourierOverlooked ==
    \A o \in Orders : pc[o] = "loop" => row[o].state \notin {"PICKED_UP", "DELIVERED"}

\* accept_offer, of an accept that applied and its retries: "answers success".
AcceptAnswersSuccess == "unavailable" \notin replies
=============================================================================
