--------------------------- MODULE DispatchProofs ---------------------------
(***************************************************************************)
(* Proofs about Dispatch, for any riders, orders, number of offers and     *)
(* number of losses: a rider's cap is respected, a pickup is final, what   *)
(* is marked delivered was delivered, and, with a cap of one, a courier    *)
(* keeps the job.                                                          *)
(***************************************************************************)
EXTENDS Dispatch, FiniteSetTheorems, SequenceTheorems, TLAPS

-----------------------------------------------------------------------------
(* A pickup is final.  All that is needed of the state is that the         *)
(* deliveries table has a row per order.                                   *)

Table == row = [o \in Orders |-> row[o]]

\* A row changes only out of "none", OFFERING, ASSIGNED, or on to DELIVERED.
RowMove(o) ==
    \/ row[o].state \in {"none", "OFFERING", "ASSIGNED"}
    \/ /\ row'[o].rider = row[o].rider
       /\ row'[o].state \in {row[o].state, "DELIVERED"}

LEMMA Moves ==
    ASSUME Table, NEW x, NEW s,
           row' = [row EXCEPT ![x] = At(x, s)],
           row[x].state \in {"OFFERING", "ASSIGNED"} \/ s = "DELIVERED"
    PROVE  Table' /\ \A o \in Orders : RowMove(o)
BY DEF Table, At, RowMove

LEMMA RowStep ==
    ASSUME Table, [Next]_vars
    PROVE  Table' /\ \A o \in Orders : RowMove(o)
<1>1. CASE UNCHANGED row
  BY <1>1 DEF Table, RowMove
<1>2. CASE \E c \in calls : CallStep(c)
  <2>1. PICK c \in calls : CallStep(c)
    BY <1>2
  <2>2. CASE PutOffering(c)
    BY <2>2 DEF PutOffering, Table, RowMove
  <2>3. CASE Unassign(c)
    BY <2>3, <1>1, Moves DEF Unassign, Move
  <2>4. CASE CancelRow(c)
    BY <2>4, <1>1, Moves DEF CancelRow, Move
  <2>5. CASE UNCHANGED row
    BY <2>5, <1>1
  <2> QED
    BY <2>1, <2>2, <2>3, <2>4, <2>5
    DEF CallStep, Reserve, NoCandidates, ReleaseOffer, ReadRow, Stamp, UnassignFinish,
        GetRow, CancelRelease, CancelFinish, store
<1>3. CASE RiderStep
  <2>1. CASE \E r \in Riders, o \in Orders : PickedUp(r, o) \/ Delivered(r, o)
    BY <2>1, <1>1, Moves DEF PickedUp, Delivered, Move
  <2>2. CASE \E t \in taps : Assign(t)
    BY <2>2, <1>1, Moves DEF Assign
  <2>3. CASE UNCHANGED row
    BY <2>3, <1>1
  <2> QED
    BY <1>3, <2>1, <2>2, <2>3
    DEF RiderStep, GoOnline, GoOffline, Accept, FinishDelivery, Signal, store
<1>4. CASE \E o \in Orders : Flow(o)
  BY <1>4, <1>1
  DEF Flow, Attempt, Deadline, TimerStep, SignalSeen, MarkPickedUp, MarkDelivered,
      TryNoRider, CustomerCancels, ChildCancelled, store
<1>5. CASE Losses
  BY <1>5, <1>1 DEF Losses, CallDies, CallAbandoned, TapDies, SignalLost, store
<1>6. CASE UNCHANGED vars
  BY <1>6, <1>1 DEF vars, store
<1> QED
  BY <1>2, <1>3, <1>4, <1>5, <1>6 DEF Next

\* Once a courier has the food, no late offer, revoke or cancel takes the
\* delivery away, whatever is retried or lost.
THEOREM PickupFinal == Spec => PickupIsFinal
<1>1. Init => Table
  BY DEF Init, Table
<1>2. Table /\ [Next]_vars => Table'
  BY RowStep
<1>3. Table /\ [Next]_vars =>
        [\A o \in Orders :
            row[o].state \in {"PICKED_UP", "DELIVERED"} =>
                /\ row'[o].rider = row[o].rider
                /\ row'[o].state \in {row[o].state, "DELIVERED"}]_vars
  BY RowStep DEF RowMove
<1> QED
  BY <1>1, <1>2, <1>3, PTL DEF Spec, PickupIsFinal

-----------------------------------------------------------------------------
(* The cap.  An offer that holds a rider's lock counts like a job, so that   *)
(* accepting it adds nothing.                                                *)

Ledger ==
    /\ online \subseteq Riders
    /\ lock \in [Riders -> Nat] /\ jobs \in [Riders -> SUBSET Orders]
    /\ made \in Seq([order : Orders, rider : Riders])
    /\ \A c \in calls : c.order \in Orders

CapInv == Ledger /\ CapRespected

LEMMA JobSets ==
    ASSUME Ledger, NEW r \in Riders, NEW o
    PROVE  /\ Cardinality(jobs[r]) \in Nat
           /\ Cardinality(jobs[r] \ {o}) \in Nat
           /\ Cardinality(jobs[r] \ {o}) <= Cardinality(jobs[r])
           /\ Cardinality(jobs[r] \cup {o}) \in Nat
           /\ Cardinality(jobs[r] \cup {o}) <= Cardinality(jobs[r]) + 1
<1>1. IsFiniteSet(jobs[r])
  <2>1. jobs[r] \subseteq Orders
    BY DEF Ledger
  <2> QED
    BY <2>1, NamesAssumption, FS_Subset
<1>2. /\ IsFiniteSet(jobs[r] \ {o}) /\ Cardinality(jobs[r] \ {o}) <= Cardinality(jobs[r])
  BY <1>1, FS_Subset
<1>3. /\ IsFiniteSet(jobs[r] \cup {o})
      /\ Cardinality(jobs[r] \cup {o}) =
            IF o \in jobs[r] THEN Cardinality(jobs[r]) ELSE Cardinality(jobs[r]) + 1
  BY <1>1, FS_AddElement
<1>4. /\ Cardinality(jobs[r]) \in Nat /\ Cardinality(jobs[r] \ {o}) \in Nat
      /\ Cardinality(jobs[r] \cup {o}) \in Nat
  BY <1>1, <1>2, <1>3, FS_CardinalityType
<1> QED
  BY <1>2, <1>3, <1>4

\* What a step may do to the riders.
LEMMA Quiet ==
    ASSUME CapInv, UNCHANGED <<lock, jobs>>, online' \subseteq Riders, UNCHANGED made,
           \A c \in calls' : c.order \in Orders
    PROVE  CapInv'
BY DEF CapInv, Ledger, CapRespected

LEMMA Unlocks ==
    ASSUME CapInv, NEW r, NEW f, Unlock(r, f), UNCHANGED <<online, jobs, made>>,
           \A c \in calls' : c.order \in Orders
    PROVE  CapInv'
<1>1. CASE r \in Riders /\ lock[r] = f
  <2>1. lock' = [lock EXCEPT ![r] = 0]
    BY <1>1 DEF Unlock
  <2>2. Ledger'
    BY <1>1, <2>1 DEF CapInv, Ledger
  <2>3. ASSUME NEW q \in Riders
        PROVE  Cardinality(jobs[q]) + (IF lock'[q] = 0 THEN 0 ELSE 1) <= Cap
    <3>1. Cardinality(jobs[q]) \in Nat
      BY JobSets DEF CapInv
    <3>2. lock'[q] = IF q = r THEN 0 ELSE lock[q]
      BY <1>1, <2>1 DEF CapInv, Ledger
    <3>3. Cardinality(jobs[q]) + (IF lock[q] = 0 THEN 0 ELSE 1) <= Cap
      BY DEF CapInv, CapRespected
    <3> QED
      BY <3>1, <3>2, <3>3, CapAssumption
  <2> QED
    BY <2>2, <2>3 DEF CapInv, CapRespected
<1>2. CASE ~(r \in Riders /\ lock[r] = f)
  BY <1>2, Quiet DEF Unlock, CapInv, Ledger
<1> QED
  BY <1>1, <1>2

LEMMA Drops ==
    ASSUME CapInv, NEW r, NEW o, Drop(r, o), UNCHANGED <<online, lock, made>>,
           \A c \in calls' : c.order \in Orders
    PROVE  CapInv'
<1>1. CASE r \in Riders
  <2>1. jobs' = [jobs EXCEPT ![r] = jobs[r] \ {o}]
    BY <1>1 DEF Drop
  <2>2. Ledger'
    BY <1>1, <2>1 DEF CapInv, Ledger
  <2>3. ASSUME NEW q \in Riders
        PROVE  Cardinality(jobs'[q]) + (IF lock[q] = 0 THEN 0 ELSE 1) <= Cap
    <3>1. /\ Cardinality(jobs[q]) \in Nat /\ Cardinality(jobs[q] \ {o}) \in Nat
          /\ Cardinality(jobs[q] \ {o}) <= Cardinality(jobs[q])
      BY JobSets DEF CapInv
    <3>2. jobs'[q] = jobs[q] \/ jobs'[q] = jobs[q] \ {o}
      BY <1>1, <2>1 DEF CapInv, Ledger
    <3>3. Cardinality(jobs[q]) + (IF lock[q] = 0 THEN 0 ELSE 1) <= Cap
      BY DEF CapInv, CapRespected
    <3>4. CASE jobs'[q] = jobs[q]
      BY <3>3, <3>4
    <3>5. CASE jobs'[q] = jobs[q] \ {o}
      <4>1. Cardinality(jobs'[q]) = Cardinality(jobs[q] \ {o})
        BY <3>5
      <4> QED
        BY <3>1, <3>3, <4>1, CapAssumption
    <3> QED
      BY <3>2, <3>4, <3>5
  <2> QED
    BY <2>2, <2>3 DEF CapInv, CapRespected
<1>2. CASE r \notin Riders
  BY <1>2, Quiet DEF Drop, CapInv, Ledger
<1> QED
  BY <1>1, <1>2

\* A call is replaced by one of the same order, or is gone.
LEMMA SameOrders ==
    ASSUME Ledger, NEW c \in calls
    PROVE  /\ \A d : Replaced(c, d) /\ d.order = c.order => \A e \in calls' : e.order \in Orders
           /\ \A at, r, f, role : Call(c, at, r, f, role).order = c.order
           /\ \A place, r, f, ex :
                 Answered(c, place, r, f, ex) => \A e \in calls' : e.order \in Orders
BY DEF Ledger, Replaced, Call, Answered

LEMMA CapCall ==
    ASSUME CapInv, NEW c \in calls, CallStep(c)
    PROVE  CapInv'
<1>0. Ledger
  BY DEF CapInv
<1>1. ASSUME \E d : Replaced(c, d) /\ d.order = c.order PROVE \A e \in calls' : e.order \in Orders
  BY <1>0, <1>1, SameOrders
<1>2. ASSUME \E place, r, f, ex : Answered(c, place, r, f, ex)
      PROVE  \A e \in calls' : e.order \in Orders
  BY <1>0, <1>2, SameOrders
<1>3. ASSUME NEW at, Becomes(c, at) PROVE \A e \in calls' : e.order \in Orders
  BY <1>0, <1>1, <1>3, SameOrders DEF Becomes
<1>4. ASSUME NEW place, Plain(c, place) PROVE \A e \in calls' : e.order \in Orders
  BY <1>2, <1>4 DEF Plain
<1>5. ASSUME NEW r, Missed(c, r) PROVE \A e \in calls' : e.order \in Orders
  BY <1>2, <1>5 DEF Missed
<1>6. ASSUME UNCHANGED <<online, lock, jobs, made>>, \A e \in calls' : e.order \in Orders
      PROVE  CapInv'
  BY <1>0, <1>6, Quiet DEF Ledger
<1>7. CASE Reserve(c)
  <2>1. PICK r \in online \ c.ex :
           /\ Free(r) /\ lock' = [lock EXCEPT ![r] = Len(made) + 1]
           /\ made' = Append(made, [order |-> c.order, rider |-> r])
           /\ Replaced(c, Call(c, "put", r, Len(made) + 1, c.role))
    BY <1>7 DEF Reserve
  <2>2. r \in Riders /\ c.order \in Orders /\ Len(made) \in Nat
    BY <1>0 DEF Ledger
  <2>3. \A e \in calls' : e.order \in Orders
    BY <2>1, <1>1, <1>0, SameOrders
  <2>4. Ledger'
    <3>1. [order |-> c.order, rider |-> r] \in [order : Orders, rider : Riders]
      BY <2>2
    <3>2. made' \in Seq([order : Orders, rider : Riders])
      BY <2>1, <3>1, <1>0 DEF Ledger
    <3> QED
      BY <1>7, <1>0, <2>1, <2>2, <2>3, <3>2 DEF Ledger, Reserve
  <2>5. ASSUME NEW q \in Riders
        PROVE  Cardinality(jobs[q]) + (IF lock'[q] = 0 THEN 0 ELSE 1) <= Cap
    <3>1. Cardinality(jobs[q]) \in Nat
      BY <1>0, JobSets
    <3>2. CASE q = r
      BY <2>1, <3>1, <3>2, CapAssumption DEF Free
    <3>3. CASE q # r
      <4>1. lock'[q] = lock[q]
        BY <2>1, <3>3, <1>0 DEF Ledger
      <4> QED
        BY <4>1 DEF CapInv, CapRespected
    <3> QED
      BY <3>2, <3>3
  <2> QED
    BY <1>7, <2>4, <2>5 DEF CapInv, CapRespected, Reserve
<1>8. CASE NoCandidates(c)
  BY <1>8, <1>2, <1>6 DEF NoCandidates, store
<1>9. CASE PutOffering(c)
  BY <1>9, <1>2, <1>6 DEF PutOffering
<1>10. CASE ReleaseOffer(c)
  <2>1. \A e \in calls' : e.order \in Orders
    BY <1>10, <1>3, <1>5 DEF ReleaseOffer
  <2> QED
    BY <1>10, <2>1, Unlocks DEF ReleaseOffer
<1>11. CASE ReadRow(c)
  BY <1>11, <1>2, <1>5, <1>6 DEF ReadRow, store
<1>12. CASE Stamp(c)
  BY <1>12, <1>4, <1>6 DEF Stamp, store
<1>13. CASE Unassign(c)
  BY <1>13, <1>3, <1>4, <1>6 DEF Unassign
<1>14. CASE UnassignFinish(c)
  BY <1>14, <1>5, Drops DEF UnassignFinish
<1>15. CASE GetRow(c)
  BY <1>15, <1>0, <1>1, <1>6, SameOrders DEF GetRow, store
<1>16. CASE CancelRow(c)
  BY <1>16, <1>3, <1>4, <1>6 DEF CancelRow
<1>17. CASE CancelRelease(c)
  BY <1>17, <1>3, Unlocks DEF CancelRelease
<1>18. CASE CancelFinish(c)
  BY <1>18, <1>4, Drops DEF CancelFinish
<1> QED
  BY <1>7, <1>8, <1>9, <1>10, <1>11, <1>12, <1>13, <1>14, <1>15, <1>16, <1>17, <1>18 DEF CallStep

LEMMA CapRider ==
    ASSUME CapInv, RiderStep
    PROVE  CapInv'
<1>0. Ledger
  BY DEF CapInv
<1>1. ASSUME UNCHANGED <<lock, jobs, made, calls>>, online' \subseteq Riders PROVE CapInv'
  BY <1>0, <1>1, Quiet DEF Ledger
<1>2. CASE \E r \in Riders : GoOnline(r) \/ GoOffline(r)
  BY <1>0, <1>1, <1>2 DEF GoOnline, GoOffline, Ledger
<1>3. CASE \E r \in Riders, o \in Orders : PickedUp(r, o) \/ Delivered(r, o)
  BY <1>0, <1>1, <1>3 DEF PickedUp, Delivered, Ledger
<1>4. CASE \E f \in DOMAIN made : Accept(f)
  <2>1. PICK f \in DOMAIN made : Accept(f)
    BY <1>4
  <2> DEFINE r == made[f].rider
             o == made[f].order
  <2>2. made[f] \in [order : Orders, rider : Riders] /\ f # 0
    <3>1. made \in Seq([order : Orders, rider : Riders])
      BY <1>0 DEF Ledger
    <3>2. f \in 1..Len(made)
      BY <3>1
    <3>3. f # 0
      BY <3>2
    <3>4. made[f] \in [order : Orders, rider : Riders]
      BY <3>1, <3>2, ElementOfSeq
    <3> QED
      BY <3>3, <3>4
  <2>3. r \in Riders /\ o \in Orders
    BY <2>2
  <2>4. /\ lock[r] = f /\ lock' = [lock EXCEPT ![r] = 0]
        /\ jobs' = [jobs EXCEPT ![r] = jobs[r] \cup {o}]
        /\ UNCHANGED <<online, made, calls>>
    BY <2>1 DEF Accept
  <2> HIDE DEF r, o
  <2>5. Ledger'
    BY <1>0, <2>3, <2>4 DEF Ledger
  <2>6. ASSUME NEW q \in Riders
        PROVE  Cardinality(jobs'[q]) + (IF lock'[q] = 0 THEN 0 ELSE 1) <= Cap
    <3>1. /\ Cardinality(jobs[q]) \in Nat /\ Cardinality(jobs[q] \cup {o}) \in Nat
          /\ Cardinality(jobs[q] \cup {o}) <= Cardinality(jobs[q]) + 1
      BY <1>0, JobSets
    <3>2. Cardinality(jobs[q]) + (IF lock[q] = 0 THEN 0 ELSE 1) <= Cap
      BY DEF CapInv, CapRespected
    <3>3. CASE q = r
      <4>1. jobs'[q] = jobs[q] \cup {o} /\ lock'[q] = 0 /\ lock[q] # 0
        BY <1>0, <2>2, <2>3, <2>4, <3>3 DEF Ledger
      <4>2. Cardinality(jobs'[q]) = Cardinality(jobs[q] \cup {o})
        BY <4>1
      <4> QED
        BY <3>1, <3>2, <4>1, <4>2, CapAssumption
    <3>4. CASE q # r
      <4>1. jobs'[q] = jobs[q] /\ lock'[q] = lock[q]
        BY <1>0, <2>3, <2>4, <3>4 DEF Ledger
      <4> QED
        BY <3>2, <4>1
    <3> QED
      BY <3>3, <3>4
  <2> QED
    BY <2>5, <2>6 DEF CapInv, CapRespected
<1>5. CASE \E t \in taps : Assign(t) \/ FinishDelivery(t)
  <2>1. PICK t \in taps : Assign(t) \/ FinishDelivery(t)
    BY <1>5
  <2>2. CASE Assign(t)
    BY <1>0, <1>1, <2>2 DEF Assign, Ledger
  <2>3. CASE FinishDelivery(t)
    BY <1>0, <2>3, Drops DEF FinishDelivery, Ledger
  <2> QED
    BY <2>1, <2>2, <2>3
<1>6. CASE \E m \in mail : Signal(m)
  BY <1>0, <1>1, <1>6 DEF Signal, store, Ledger
<1> QED
  BY <1>2, <1>3, <1>4, <1>5, <1>6 DEF RiderStep

LEMMA CapStep ==
    ASSUME CapInv, [Next]_vars
    PROVE  CapInv'
<1>0. Ledger
  BY DEF CapInv
<1>1. ASSUME UNCHANGED store, \A c \in calls' : c.order \in Orders PROVE CapInv'
  BY <1>0, <1>1, Quiet DEF Ledger, store
<1>2. CASE \E o \in Orders : Flow(o)
  <2>1. PICK o \in Orders : Flow(o)
    BY <1>2
  <2>2. CASE Attempt(o)
    <3>1. \A c \in calls' : c.order \in Orders
      BY <1>0, <2>2 DEF Attempt, Ledger
    <3> QED
      BY <2>2, <3>1, <1>1 DEF Attempt
  <2>3. CASE ChildCancelled(o)
    <3>1. \A c \in calls' : c \in calls \/ \E d \in calls : c = Stray(d)
      BY <2>3 DEF ChildCancelled, Current
    <3>2. \A d \in calls : Stray(d).order = d.order
      BY <1>0, SameOrders DEF Stray
    <3>3. \A c \in calls' : c.order \in Orders
      BY <1>0, <3>1, <3>2 DEF Ledger
    <3> QED
      BY <2>3, <3>3, <1>1 DEF ChildCancelled
  <2>4. CASE UNCHANGED <<store, calls>>
    BY <1>0, <1>1, <2>4 DEF Ledger
  <2> QED
    BY <2>1, <2>2, <2>3, <2>4
    DEF Flow, Deadline, TimerStep, SignalSeen, MarkPickedUp, MarkDelivered, TryNoRider,
        CustomerCancels
<1>3. CASE \E c \in calls : CallStep(c)
  BY <1>3, CapCall
<1>4. CASE RiderStep
  BY <1>4, CapRider
<1>5. CASE Losses
  <2>1. UNCHANGED store
    BY <1>5 DEF Losses, CallDies, CallAbandoned, TapDies, SignalLost
  <2>2. CASE \E c \in calls : CallDies(c)
    BY <1>0, <1>1, <2>1, <2>2 DEF CallDies, Ledger
  <2>3. CASE \E c \in calls : CallAbandoned(c)
    <3>1. PICK c \in calls : Replaced(c, Stray(c))
      BY <2>3 DEF CallAbandoned
    <3>2. \A e \in calls' : e.order \in Orders
      BY <1>0, <3>1, SameOrders DEF Stray
    <3> QED
      BY <1>1, <2>1, <3>2
  <2>4. CASE UNCHANGED calls
    BY <1>0, <1>1, <2>1, <2>4 DEF Ledger
  <2> QED
    BY <1>5, <2>2, <2>3, <2>4 DEF Losses, TapDies, SignalLost
<1>6. CASE UNCHANGED vars
  BY <1>0, <1>1, <1>6 DEF vars, Ledger
<1> QED
  BY <1>2, <1>3, <1>4, <1>5, <1>6 DEF Next

\* ADR-0011: for any number of riders, orders, cascades and losses, a rider's
\* jobs and the offer under its lock never exceed the cap.
THEOREM CapCorrect == Spec => []CapRespected
<1>1. Init => CapInv
  <2> SUFFICES ASSUME Init PROVE CapInv
    OBVIOUS
  <2>1. Ledger
    BY DEF Init, Ledger
  <2>2. ASSUME NEW r \in Riders
        PROVE  Cardinality(jobs[r]) + (IF lock[r] = 0 THEN 0 ELSE 1) <= Cap
    <3>1. jobs[r] = {} /\ lock[r] = 0
      BY DEF Init
    <3> QED
      BY <3>1, FS_EmptySet, CapAssumption
  <2> QED
    BY <2>1, <2>2 DEF CapInv, CapRespected
<1>2. CapInv /\ [Next]_vars => CapInv'
  BY CapStep
<1>3. CapInv => CapRespected
  BY DEF CapInv
<1> QED
  BY <1>1, <1>2, <1>3, PTL DEF Spec

-----------------------------------------------------------------------------
(* What is marked was delivered.  A delivered row is final, and the signal  *)
(* that marks the order comes from the rider who delivered it; so the       *)
(* workflow must still mean that rider, and nobody answers for it.          *)

Done(o, r) == row[o].state = "DELIVERED" /\ row[o].rider = r

Shape ==
    /\ Table
    /\ pc = [o \in Orders |-> pc[o]] /\ rider = [o \in Orders |-> rider[o]]
    /\ status = [o \in Orders |-> status[o]]
    /\ delivered = [o \in Orders |-> delivered[o]]

\* Who is said to have delivered has.
Heard ==
    /\ \A t \in taps : t.kind = "finish" => t.order \in Orders /\ Done(t.order, t.rider)
    /\ \A m \in mail : m.event = "delivered" => m.order \in Orders /\ Done(m.order, m.rider)
    /\ \A o \in Orders : \A r \in delivered[o] : Done(o, r)

\* The workflow has at most one attempt whose answer it takes, and waits for it.
Calling ==
    /\ \A c \in calls : /\ c.order \in Orders
                        /\ c.role = "current" => /\ pc[c.order] = c.kind
                                                 /\ c.kind \in Activities
    /\ \A c, d \in calls : c.role = "current" /\ d.role = "current" /\ c.order = d.order => c = d

Marked ==
    /\ \A o \in Orders : status[o] = "DELIVERED" => pc[o] = "closed"
    /\ \A o \in Orders : pc[o] = "mark_delivered" \/ status[o] = "DELIVERED" => Done(o, rider[o])

RealInv == Shape /\ Heard /\ Calling /\ Marked

LEMMA RealInit == Init => RealInv
BY DEF Init, RealInv, Shape, Table, Heard, Calling, Marked

LEMMA DoneKept ==
    ASSUME Table, [Next]_vars, NEW o \in Orders, NEW r, Done(o, r)
    PROVE  Done(o, r)'
BY RowStep DEF RowMove, Done

LEMMA TapsTrue ==
    ASSUME RealInv, Next, NEW t \in taps', t.kind = "finish"
    PROVE  t.order \in Orders /\ Done(t.order, t.rider)'
<1>1. CASE t \in taps
  BY <1>1, DoneKept DEF RealInv, Shape, Heard
<1>2. CASE \E r \in Riders, o \in Orders : Delivered(r, o) /\ t = Tap("finish", o, r, 0)
  <2>1. PICK r \in Riders, o \in Orders : Delivered(r, o) /\ t = Tap("finish", o, r, 0)
    BY <1>2
  <2>2. row[o].rider = r /\ row' = [row EXCEPT ![o] = At(o, "DELIVERED")]
    BY <2>1 DEF Delivered, Move
  <2>3. t.order = o /\ t.rider = r
    BY <2>1 DEF Tap
  <2> QED
    BY <2>2, <2>3 DEF RealInv, Shape, Table, At, Done
<1>3. \/ taps' \subseteq taps
      \/ \E f \in DOMAIN made : Accept(f)
      \/ \E r \in Riders, o \in Orders : Delivered(r, o)
  BY DEF Next, Flow, Attempt, Deadline, TimerStep, SignalSeen, MarkPickedUp, MarkDelivered,
     TryNoRider, CustomerCancels, ChildCancelled, CallStep, Reserve, NoCandidates, PutOffering,
     ReleaseOffer, ReadRow, Stamp, Unassign, UnassignFinish, GetRow, CancelRow, CancelRelease,
     CancelFinish, RiderStep, GoOnline, GoOffline, PickedUp, Assign, FinishDelivery, Signal,
     Losses, CallDies, CallAbandoned, TapDies, SignalLost, riderSide
<1>4. ASSUME NEW f \in DOMAIN made, Accept(f), t \notin taps PROVE FALSE
  BY <1>4 DEF Accept, Tap
<1>5. ASSUME NEW r \in Riders, NEW o \in Orders, Delivered(r, o), t \notin taps
      PROVE  t = Tap("finish", o, r, 0)
  BY <1>5 DEF Delivered
<1> QED
  BY <1>1, <1>2, <1>3, <1>4, <1>5

LEMMA MailTrue ==
    ASSUME RealInv, Next, NEW m \in mail', m.event = "delivered"
    PROVE  m.order \in Orders /\ Done(m.order, m.rider)'
<1>1. CASE m \in mail
  BY <1>1, DoneKept DEF RealInv, Shape, Heard
<1>2. ASSUME NEW t \in taps, FinishDelivery(t), m \notin mail
      PROVE  m.order \in Orders /\ Done(m.order, m.rider)'
  <2>1. m = [order |-> t.order, event |-> "delivered", rider |-> t.rider] /\ t.kind = "finish"
    BY <1>2 DEF FinishDelivery
  <2>2. t.order \in Orders /\ Done(t.order, t.rider)
    BY <2>1 DEF RealInv, Heard
  <2>3. PICK o, r : o = t.order /\ r = t.rider
    OBVIOUS
  <2>4. Done(o, r)'
    BY <2>2, <2>3, DoneKept DEF RealInv, Shape
  <2> QED
    BY <2>1, <2>2, <2>3, <2>4
<1>3. ASSUME NEW r \in Riders, NEW o \in Orders, PickedUp(r, o), m \notin mail PROVE FALSE
  BY <1>3 DEF PickedUp
<1>4. \/ mail' \subseteq mail
      \/ \E t \in taps : FinishDelivery(t)
      \/ \E r \in Riders, o \in Orders : PickedUp(r, o)
  BY DEF Next, Flow, Attempt, Deadline, TimerStep, SignalSeen, MarkPickedUp, MarkDelivered,
     TryNoRider, CustomerCancels, ChildCancelled, CallStep, Reserve, NoCandidates, PutOffering,
     ReleaseOffer, ReadRow, Stamp, Unassign, UnassignFinish, GetRow, CancelRow, CancelRelease,
     CancelFinish, RiderStep, GoOnline, GoOffline, Delivered, Accept, Assign, Signal,
     Losses, CallDies, CallAbandoned, TapDies, SignalLost, riderSide
<1> QED
  BY <1>1, <1>2, <1>3, <1>4

\* Only a signal adds to what the workflow has heard.
LEMMA HeardTrue ==
    ASSUME RealInv, Next
    PROVE  /\ delivered' = [o \in Orders |-> delivered'[o]]
           /\ \A o \in Orders : \A r \in delivered'[o] : Done(o, r)'
<1>1. CASE delivered' = delivered
  BY <1>1, DoneKept DEF RealInv, Shape, Heard
<1>2. ASSUME NEW m \in mail, Signal(m), delivered' # delivered
      PROVE  /\ delivered' = [o \in Orders |-> delivered'[o]]
             /\ \A o \in Orders : \A r \in delivered'[o] : Done(o, r)'
  <2>1. /\ m.event = "delivered"
        /\ delivered' = [delivered EXCEPT ![m.order] = delivered[m.order] \cup {m.rider}]
    BY <1>2 DEF Signal
  <2>2. m.order \in Orders /\ Done(m.order, m.rider)
    BY <2>1 DEF RealInv, Heard
  <2>3. delivered' = [o \in Orders |-> delivered'[o]]
    BY <2>1 DEF RealInv, Shape
  <2>4. ASSUME NEW o \in Orders, NEW r \in delivered'[o] PROVE Done(o, r)
    BY <2>1, <2>2 DEF RealInv, Shape, Heard
  <2> QED
    BY <2>3, <2>4, DoneKept DEF RealInv, Shape
<1>3. ASSUME NEW c \in calls, CallStep(c) PROVE delivered' = delivered
  <2>1. ASSUME NEW place, NEW r, NEW f, NEW ex, Answered(c, place, r, f, ex)
        PROVE  delivered' = delivered
    BY <2>1 DEF Answered, flow
  <2>2. ASSUME NEW r, Missed(c, r) PROVE delivered' = delivered
    BY <2>1, <2>2 DEF Missed
  <2>3. ASSUME NEW place, Plain(c, place) PROVE delivered' = delivered
    BY <2>1, <2>3 DEF Plain
  <2> QED
    BY <1>3, <2>1, <2>2, <2>3
    DEF CallStep, Reserve, NoCandidates, PutOffering, ReleaseOffer, ReadRow, Stamp, Unassign,
        UnassignFinish, GetRow, CancelRow, CancelRelease, CancelFinish, flow
<1>4. ASSUME NEW o \in Orders, Flow(o) PROVE delivered' = delivered
  BY <1>4 DEF Flow, Attempt, Deadline, TimerStep, SignalSeen, MarkPickedUp, MarkDelivered,
     TryNoRider, CustomerCancels, ChildCancelled, flow
<1>5. RiderStep => delivered' = delivered \/ \E m \in mail : Signal(m)
  BY DEF RiderStep, GoOnline, GoOffline, PickedUp, Delivered, Accept, Assign, FinishDelivery, flow
<1>6. Losses => delivered' = delivered
  BY DEF Losses, CallDies, CallAbandoned, TapDies, SignalLost, flow
<1> QED
  BY <1>1, <1>2, <1>3, <1>4, <1>5, <1>6 DEF Next

-----------------------------------------------------------------------------
(* The attempts and the workflow's place.                                    *)

Flows == /\ pc' = [o \in Orders |-> pc'[o]] /\ rider' = [o \in Orders |-> rider'[o]]
         /\ status' = [o \in Orders |-> status'[o]]
Kept == Flows /\ Calling' /\ Marked'

\* Attempts end or become strays; nothing else.
LEMMA CallsOnly ==
    ASSUME RealInv, [Next]_vars, UNCHANGED <<pc, rider, status>>,
           \A c \in calls' : \/ c \in calls
                             \/ c.role # "current" /\ c.order \in Orders
    PROVE  Kept
<1>1. Marked'
  BY DoneKept DEF RealInv, Shape, Marked, Done
<1>2. Flows /\ Calling'
  BY DEF RealInv, Shape, Calling, Flows
<1> QED
  BY <1>1, <1>2 DEF Kept

\* An attempt takes a step.
LEMMA CallGoesOn ==
    ASSUME RealInv, [Next]_vars, UNCHANGED <<pc, rider, status>>, NEW c \in calls, NEW d,
           Replaced(c, d), d.order = c.order, d.kind = c.kind, d.role = c.role
    PROVE  Kept
<1>1. Marked'
  BY DoneKept DEF RealInv, Shape, Marked, Done
<1>2. Flows /\ Calling'
  BY DEF RealInv, Shape, Calling, Flows, Replaced
<1> QED
  BY <1>1, <1>2 DEF Kept

LEMMA CallBecomes ==
    ASSUME RealInv, [Next]_vars, UNCHANGED <<flow, status>>, NEW c \in calls, NEW at,
           Becomes(c, at)
    PROVE  Kept
BY CallGoesOn DEF Becomes, Call, flow

\* An attempt is answered.
LEMMA CallAnswered ==
    ASSUME RealInv, [Next]_vars, UNCHANGED status, NEW c \in calls,
           NEW place, NEW r, NEW f, NEW ex, Answered(c, place, r, f, ex),
           place # "mark_delivered"
    PROVE  Kept
<1>1. CASE c.role # "current"
  BY <1>1, CallsOnly DEF Answered, flow
<1>2. CASE c.role = "current"
  <2>1. /\ calls' = calls \ {c}
        /\ pc' = [pc EXCEPT ![c.order] = place] /\ rider' = [rider EXCEPT ![c.order] = r]
    BY <1>2 DEF Answered, Goto
  <2>2. /\ c.order \in Orders /\ pc[c.order] \in Activities
        /\ \A d \in calls' : d.role = "current" => d.order # c.order
    BY <1>2, <2>1 DEF RealInv, Calling
  <2>3. Flows /\ Calling'
    BY <2>1, <2>2 DEF RealInv, Shape, Calling, Flows
  <2>4. \A o \in Orders : o # c.order => pc'[o] = pc[o] /\ rider'[o] = rider[o]
    BY <2>1 DEF RealInv, Shape
  <2>5. status[c.order] # "DELIVERED" /\ pc'[c.order] # "mark_delivered"
    BY <2>1, <2>2 DEF RealInv, Shape, Marked, Activities
  <2>6. Marked'
    BY <2>2, <2>4, <2>5, DoneKept DEF RealInv, Shape, Marked, Done
  <2> QED
    BY <2>3, <2>6 DEF Kept
<1> QED
  BY <1>1, <1>2

LEMMA CallKept ==
    ASSUME RealInv, [Next]_vars, NEW c \in calls, CallStep(c)
    PROVE  Kept
<1>0. UNCHANGED status
  BY DEF CallStep, Reserve, NoCandidates, PutOffering, ReleaseOffer, ReadRow, Stamp, Unassign,
     UnassignFinish, GetRow, CancelRow, CancelRelease, CancelFinish, order
<1>1. ASSUME NEW at, NEW r, NEW f, Replaced(c, Call(c, at, r, f, c.role)), UNCHANGED flow
      PROVE  Kept
  BY <1>0, <1>1, CallGoesOn DEF Call, flow
<1>2. ASSUME NEW place, place # "mark_delivered", Plain(c, place) PROVE Kept
  BY <1>0, <1>2, CallAnswered DEF Plain
<1>3. ASSUME NEW r, Missed(c, r) PROVE Kept
  BY <1>0, <1>3, CallAnswered DEF Missed
<1>4. ASSUME NEW at, Becomes(c, at), UNCHANGED flow PROVE Kept
  BY <1>0, <1>4, CallBecomes
<1>5. CASE Reserve(c) \/ GetRow(c)
  BY <1>1, <1>5 DEF Reserve, GetRow
<1>6. CASE NoCandidates(c) \/ PutOffering(c)
  BY <1>0, <1>6, CallAnswered DEF NoCandidates, PutOffering
<1>7. CASE ReleaseOffer(c) \/ CancelRelease(c)
  BY <1>3, <1>4, <1>7 DEF ReleaseOffer, CancelRelease
<1>8. CASE ReadRow(c)
  BY <1>0, <1>3, <1>8, CallAnswered DEF ReadRow
<1>9. CASE Stamp(c) \/ Unassign(c)
  BY <1>2, <1>4, <1>9 DEF Stamp, Unassign
<1>10. CASE UnassignFinish(c) \/ CancelFinish(c)
  BY <1>2, <1>3, <1>10 DEF UnassignFinish, CancelFinish
<1>11. CASE CancelRow(c)
  BY <1>2, <1>4, <1>11 DEF CancelRow
<1> QED
  BY <1>5, <1>6, <1>7, <1>8, <1>9, <1>10, <1>11 DEF CallStep

\* The workflow moves on from a place where it waits for no attempt.
LEMMA FlowMoves ==
    ASSUME RealInv, [Next]_vars, UNCHANGED <<rider, calls>>, NEW o \in Orders, NEW place,
           Goto(o, place), pc[o] \notin Activities,
           status' = status \/ \E s : status' = [status EXCEPT ![o] = s],
           status[o] = "DELIVERED" => place = "closed",
           status'[o] = "DELIVERED" => place = "closed",
           place = "mark_delivered" \/ status'[o] = "DELIVERED" => Done(o, rider[o])
    PROVE  Kept
<1>1. /\ Flows
      /\ \A p \in Orders : p # o => pc'[p] = pc[p] /\ status'[p] = status[p]
      /\ pc'[o] = place
  BY DEF RealInv, Shape, Flows, Goto
<1>2. Calling'
  BY <1>1 DEF RealInv, Calling
<1>3. \A p \in Orders : Done(p, rider[p]) => Done(p, rider[p])'
  BY DoneKept DEF RealInv, Shape, Done
<1>4. Marked'
  BY <1>1, <1>3 DEF RealInv, Marked, Done
<1> QED
  BY <1>1, <1>2, <1>4 DEF Kept

LEMMA FlowKept ==
    ASSUME RealInv, [Next]_vars, NEW o \in Orders, Flow(o)
    PROVE  Kept
<1> USE DEF order
<1>0. /\ \A s : status' = [status EXCEPT ![o] = s] => status'[o] = s
      /\ status[o] = "DELIVERED" => pc[o] = "closed"
      /\ pc[o] = "mark_delivered" => Done(o, rider[o])
  BY DEF RealInv, Shape, Marked
<1>1. CASE Attempt(o)
  <2>1. PICK d : /\ d = [order |-> o, kind |-> pc[o], at |-> First(pc[o]), rider |-> rider[o],
                       offer |-> offer[o], ex |-> exclude[o], role |-> "current", n |-> lost]
                 /\ calls' = calls \cup {d}
    BY <1>1 DEF Attempt
  <2>2. Calling'
    <3>1. d.order = o /\ d.kind = pc[o] /\ d.role = "current"
      BY <2>1
    <3>2. pc' = pc /\ pc[o] \in Activities /\ \A c \in calls : c.role = "current" => c.order # o
      BY <1>1 DEF Attempt, Current, flow
    <3> QED
      BY <2>1, <3>1, <3>2 DEF RealInv, Calling
  <2>3. UNCHANGED <<pc, rider, status>>
    BY <1>1 DEF Attempt, flow
  <2>4. Flows /\ Marked'
    BY <2>3, DoneKept DEF RealInv, Shape, Marked, Flows, Done
  <2> QED
    BY <2>2, <2>4 DEF Kept
<1>2. CASE Deadline(o) \/ TimerStep(o)
  <2>1. PICK place \in {"no_rider", "find", "expire", "unassign"} :
           Goto(o, place) /\ pc[o] \in {"loop", "window", "await_pickup"}
    BY <1>2 DEF Deadline, TimerStep
  <2>2. UNCHANGED <<rider, calls, status>>
    BY <1>2 DEF Deadline, TimerStep
  <2> QED
    BY <1>0, <2>1, <2>2, FlowMoves DEF Activities
<1>3. CASE SignalSeen(o)
  <2>0. UNCHANGED <<rider, calls, status>>
    BY <1>3 DEF SignalSeen
  <2>1. CASE pc[o] = "await_pickup" /\ Goto(o, "mark_picked_up")
    BY <1>0, <2>0, <2>1, FlowMoves DEF Activities
  <2>2. CASE pc[o] = "await_delivery" /\ rider[o] \in delivered[o] /\ Goto(o, "mark_delivered")
    <3>1. Done(o, rider[o])
      BY <2>2 DEF RealInv, Heard
    <3> QED
      BY <1>0, <2>0, <2>2, <3>1, FlowMoves DEF Activities
  <2> QED
    BY <1>3, <2>1, <2>2 DEF SignalSeen
<1>4. CASE MarkPickedUp(o)
  BY <1>0, <1>4, FlowMoves DEF MarkPickedUp, Activities
<1>5. CASE MarkDelivered(o)
  BY <1>0, <1>5, FlowMoves DEF MarkDelivered, Activities
<1>6. CASE TryNoRider(o)
  BY <1>0, <1>6, FlowMoves DEF TryNoRider, Activities
<1>7. CASE CustomerCancels(o)
  <2>1. /\ status[o] = "READY" /\ status' = [status EXCEPT ![o] = "CANCELLING"]
        /\ UNCHANGED <<pc, rider, calls>>
    BY <1>7 DEF CustomerCancels, flow
  <2>2. Flows /\ Calling'
    BY <2>1 DEF RealInv, Shape, Calling, Flows
  <2>3. Marked'
    BY <2>1, DoneKept DEF RealInv, Shape, Marked, Done
  <2> QED
    BY <2>2, <2>3 DEF Kept
<1>8. CASE ChildCancelled(o)
  <2>1. PICK place \in {"cancel", "closed"} : Goto(o, place)
    BY <1>8 DEF ChildCancelled
  <2>2. /\ calls' = (calls \ Current(o)) \cup {Stray(c) : c \in Current(o)}
        /\ UNCHANGED <<rider, status>> /\ status[o] = "CANCELLING"
    BY <1>8 DEF ChildCancelled
  <2>3. \A c \in calls' : \/ c \in calls /\ (c.role = "current" => c.order # o)
                          \/ c.role = "stray" /\ c.order \in Orders
    BY <2>2 DEF Current, Stray, Call, RealInv, Calling
  <2>4. Flows /\ \A p \in Orders : p # o => pc'[p] = pc[p]
    BY <2>1, <2>2 DEF RealInv, Shape, Flows, Goto
  <2>5. Calling'
    BY <2>3, <2>4 DEF RealInv, Calling
  <2>6. pc'[o] # "mark_delivered"
    BY <2>1 DEF RealInv, Shape, Goto
  <2>7. Marked'
    BY <2>2, <2>4, <2>6, DoneKept DEF RealInv, Shape, Marked, Done
  <2> QED
    BY <2>4, <2>5, <2>7 DEF Kept
<1> QED
  BY <1>1, <1>2, <1>3, <1>4, <1>5, <1>6, <1>7, <1>8 DEF Flow

LEMMA RealStep == RealInv /\ [Next]_vars => RealInv'
<1> SUFFICES ASSUME RealInv, [Next]_vars PROVE RealInv'
  OBVIOUS
<1>1. CASE UNCHANGED vars
  BY <1>1 DEF RealInv, Shape, Table, Heard, Calling, Marked, Done, vars, store, flow, order,
     riderSide
<1>2. CASE Next
  <2>1. Table'
    BY RowStep DEF RealInv, Shape
  <2>2. Heard' /\ delivered' = [o \in Orders |-> delivered'[o]]
    BY <1>2, TapsTrue, MailTrue, HeardTrue DEF Heard
  <2>3. Kept
    <3>1. CASE \E o \in Orders : Flow(o)
      BY <3>1, FlowKept
    <3>2. CASE \E c \in calls : CallStep(c)
      BY <3>2, CallKept
    <3>3. CASE RiderStep
      BY <3>3, CallsOnly DEF RiderStep, GoOnline, GoOffline, PickedUp, Delivered, Accept, Assign,
         FinishDelivery, Signal, flow, order
    <3>4. CASE Losses
      <4>1. UNCHANGED <<pc, rider, status>>
        BY <3>4 DEF Losses, CallDies, CallAbandoned, TapDies, SignalLost, flow, order
      <4>2. \A c \in calls' : \/ c \in calls
                              \/ c.role # "current" /\ c.order \in Orders
        BY <3>4 DEF Losses, CallDies, CallAbandoned, TapDies, SignalLost, Replaced, Stray, Call,
           RealInv, Calling
      <4> QED
        BY <4>1, <4>2, CallsOnly
    <3> QED
      BY <1>2, <3>1, <3>2, <3>3, <3>4 DEF Next
  <2> QED
    BY <2>1, <2>2, <2>3 DEF RealInv, Shape, Kept, Flows
<1> QED
  BY <1>1, <1>2

\* An order is marked delivered only when the courier whom the workflow means
\* has delivered it: late, lost and repeated answers, signals and attempts do
\* not mark another's delivery, and none after a cancel (DeliveryWorkflow.run,
\* signals scoped to their rider).
THEOREM MarkedIsDelivered == Spec => []DeliveredIsReal
<1>1. RealInv => DeliveredIsReal
  BY DEF RealInv, Marked, Done, DeliveredIsReal
<1> QED
  BY <1>1, RealInit, RealStep, PTL DEF Spec

-----------------------------------------------------------------------------
(* The courier's job.  With a cap of one (rider_cap's default) a rider who   *)
(* accepts holds nothing yet, so at any time at most one thing speaks for    *)
(* the job of a delivery that is not over: the accept that has not reached   *)
(* the row, the row, or the revoke that has not reached the rider.           *)

Ongoing(o) == row[o].state \notin {"CANCELLED", "DELIVERED"}
Courier(r, o) == row[o].state \in {"ASSIGNED", "PICKED_UP"} /\ row[o].rider = r
Taking(r, o) == {t \in taps : t.kind = "assign" /\ t.order = o /\ t.rider = r}
Leaving(r, o) ==
    {c \in calls : c.kind = "unassign" /\ c.at = "finish" /\ c.order = o /\ c.rider = r}

Claim(r, o) ==
    /\ Taking(r, o) # {} \/ Leaving(r, o) # {} \/ Courier(r, o) => o \in jobs[r]
    /\ \A t, u \in Taking(r, o) : t = u
    /\ \A c, d \in Leaving(r, o) : c = d
    /\ Taking(r, o) = {} \/ Leaving(r, o) = {}
    /\ Courier(r, o) => Taking(r, o) = {} /\ Leaving(r, o) = {}
Claims == \A r \in Riders, o \in Orders : Ongoing(o) => Claim(r, o)

\* An offer's number stands for its order and its rider, wherever it is kept.
Known(f, o, r) == f \in DOMAIN made /\ made[f] = [order |-> o, rider |-> r]

RowFacts ==
    \A o \in Orders :
        /\ row[o].state \in {"ASSIGNED", "PICKED_UP"} => row[o].rider \in Riders
        /\ row[o].offer # 0 => Known(row[o].offer, o, row[o].rider)
CallFact(c) ==
    /\ c.kind = "find" /\ c.at = "put" => Known(c.offer, c.order, c.rider)
    /\ c.kind = "cancel" /\ c.at \in {"release", "finish"} => row[c.order].state = "CANCELLED"
TapFact(t) == t.kind = "assign" => Known(t.offer, t.order, t.rider)
Facts == RowFacts /\ (\A c \in calls : CallFact(c)) /\ (\A t \in taps : TapFact(t))

JobInv == CapInv /\ RealInv /\ Facts /\ (Cap = 1 => Claims)

LEMMA JobInit == Init => JobInv
<1> SUFFICES ASSUME Init PROVE CapInv /\ Facts /\ Claims
  BY RealInit DEF JobInv
<1>1. CapInv
  <2>1. Ledger
    BY DEF Init, Ledger
  <2>2. \A r \in Riders : jobs[r] = {} /\ lock[r] = 0
    BY DEF Init
  <2> QED
    BY <2>1, <2>2, FS_EmptySet, CapAssumption DEF CapInv, CapRespected
<1>2. Facts
  BY DEF Init, Facts, RowFacts
<1>3. Claims
  BY DEF Init, Claims, Claim, Taking, Leaving, Courier
<1> QED
  BY <1>1, <1>2, <1>3

LEMMA KnownKept ==
    ASSUME Ledger, [Next]_vars, NEW f, NEW o, NEW r, Known(f, o, r)
    PROVE  Known(f, o, r)'
<1>1. CASE made' = made
  BY <1>1 DEF Known
<1>2. ASSUME NEW c \in calls, Reserve(c) PROVE Known(f, o, r)'
  <2>1. PICK q \in online \ c.ex : made' = Append(made, [order |-> c.order, rider |-> q])
    BY <1>2 DEF Reserve
  <2>2. made \in Seq([order : Orders, rider : Riders])
    BY DEF Ledger
  <2>3. PICK e : e = [order |-> c.order, rider |-> q]
    OBVIOUS
  <2>4. e \in [order : Orders, rider : Riders]
    BY <2>3 DEF Ledger
  <2>5. made' = Append(made, e)
    BY <2>1, <2>3
  <2>6. f \in 1 .. Len(made) /\ Len(made) \in Nat
    BY <2>2 DEF Known
  <2>7. f \in DOMAIN made' /\ made'[f] = made[f]
    BY <2>2, <2>4, <2>5, <2>6, AppendProperties
  <2> QED
    BY <2>7 DEF Known
<1>3. made' = made \/ \E c \in calls : Reserve(c)
  BY DEF Next, Flow, Attempt, Deadline, TimerStep, SignalSeen, MarkPickedUp, MarkDelivered,
     TryNoRider, CustomerCancels, ChildCancelled, CallStep, NoCandidates, PutOffering,
     ReleaseOffer, ReadRow, Stamp, Unassign, UnassignFinish, GetRow, CancelRow, CancelRelease,
     CancelFinish, RiderStep, GoOnline, GoOffline, PickedUp, Delivered, Accept, Assign,
     FinishDelivery, Signal, Losses, CallDies, CallAbandoned, TapDies, SignalLost, vars, store
<1> QED
  BY <1>1, <1>2, <1>3

\* How a row changes: a new offer, or a move that keeps its rider and offer.
Offered(o) ==
    \E c \in calls : /\ c.kind = "find" /\ c.at = "put" /\ c.order = o
                     /\ row'[o] = [state |-> "OFFERING", rider |-> c.rider, offer |-> c.offer]
Given(o) ==
    \E t \in taps : /\ t.kind = "assign" /\ t.order = o /\ t.offer = row[o].offer
                    /\ taps' = taps \ {t} /\ UNCHANGED <<calls, jobs>>
                    /\ row[o].state = "OFFERING" /\ row'[o].state = "ASSIGNED"
Stepped(o) ==
    /\ row'[o].rider = row[o].rider /\ row'[o].offer = row[o].offer
    /\ row'[o].state \in {"ASSIGNED", "PICKED_UP"} =>
          row[o].state \in {"ASSIGNED", "PICKED_UP"} \/ Given(o)

LEMMA RowOrigin ==
    ASSUME Table, [Next]_vars, NEW o \in Orders
    PROVE  Offered(o) \/ Stepped(o)
<1>1. CASE row'[o] = row[o]
  BY <1>1 DEF Stepped
<1>2. ASSUME NEW p, NEW s, row' = [row EXCEPT ![p] = At(p, s)],
             s \in {"OFFERING", "CANCELLED", "DELIVERED"}
      PROVE  Stepped(o)
  BY <1>2 DEF Table, At, Stepped
<1>3. ASSUME NEW c \in calls, CallStep(c) PROVE Offered(o) \/ Stepped(o)
  <2>1. CASE PutOffering(c)
    BY <1>1, <2>1 DEF PutOffering, Table, Offered
  <2>2. CASE Unassign(c) \/ CancelRow(c)
    BY <1>1, <1>2, <2>2 DEF Unassign, CancelRow, Move
  <2>3. CASE row' = row
    BY <1>1, <2>3
  <2> QED
    BY <1>3, <2>1, <2>2, <2>3
    DEF CallStep, Reserve, NoCandidates, ReleaseOffer, ReadRow, Stamp, UnassignFinish, GetRow,
        CancelRelease, CancelFinish, store
<1>4. ASSUME NEW r \in Riders, NEW p \in Orders, PickedUp(r, p) PROVE Stepped(o)
  BY <1>1, <1>4 DEF PickedUp, Table, At, Stepped
<1>5. ASSUME NEW r \in Riders, NEW p \in Orders, Delivered(r, p) PROVE Stepped(o)
  BY <1>1, <1>2, <1>5 DEF Delivered, Move
<1>6. ASSUME NEW t \in taps, Assign(t) PROVE Stepped(o)
  BY <1>1, <1>6 DEF Assign, Table, At, Stepped, Given
<1>7. \/ row' = row
      \/ \E c \in calls : CallStep(c)
      \/ \E r \in Riders, p \in Orders : PickedUp(r, p) \/ Delivered(r, p)
      \/ \E t \in taps : Assign(t)
  BY DEF Next, Flow, Attempt, Deadline, TimerStep, SignalSeen, MarkPickedUp, MarkDelivered,
     TryNoRider, CustomerCancels, ChildCancelled, RiderStep, GoOnline, GoOffline, Accept,
     FinishDelivery, Signal, Losses, CallDies, CallAbandoned, TapDies, SignalLost, vars, store
<1> QED
  BY <1>1, <1>3, <1>4, <1>5, <1>6, <1>7

\* A delivery that is over stays over.
LEMMA RowCancelled ==
    ASSUME Table, [Next]_vars, NEW o \in Orders
    PROVE  /\ row[o].state = "CANCELLED" => row'[o].state = "CANCELLED"
           /\ Ongoing(o)' => Ongoing(o)
<1>1. row[o].state = "CANCELLED" => row'[o].state = "CANCELLED"
  <2> SUFFICES ASSUME row[o].state = "CANCELLED" PROVE row'[o].state # "DELIVERED"
    BY RowStep DEF RowMove
  <2>1. ASSUME NEW p, NEW s, s # "DELIVERED", row' = [row EXCEPT ![p] = At(p, s)]
        PROVE  row'[o].state # "DELIVERED"
    BY <2>1 DEF Table, At
  <2>2. ASSUME NEW c \in calls, CallStep(c) PROVE row'[o].state # "DELIVERED"
    BY <2>1, <2>2
    DEF CallStep, Reserve, NoCandidates, PutOffering, ReleaseOffer, ReadRow, Stamp, Unassign,
        UnassignFinish, GetRow, CancelRow, CancelRelease, CancelFinish, store, Move, Table
  <2>3. ASSUME NEW r \in Riders, NEW p \in Orders, PickedUp(r, p) PROVE row'[o].state # "DELIVERED"
    BY <2>1, <2>3 DEF PickedUp
  <2>4. ASSUME NEW r \in Riders, NEW p \in Orders, Delivered(r, p) PROVE row'[o].state # "DELIVERED"
    BY <2>4 DEF Delivered, Move, Table
  <2>5. ASSUME NEW t \in taps, Assign(t) PROVE row'[o].state # "DELIVERED"
    BY <2>1, <2>5 DEF Assign
  <2>6. \/ row' = row
        \/ \E c \in calls : CallStep(c)
        \/ \E r \in Riders, p \in Orders : PickedUp(r, p) \/ Delivered(r, p)
        \/ \E t \in taps : Assign(t)
    BY DEF Next, Flow, Attempt, Deadline, TimerStep, SignalSeen, MarkPickedUp, MarkDelivered,
       TryNoRider, CustomerCancels, ChildCancelled, RiderStep, GoOnline, GoOffline, Accept,
       FinishDelivery, Signal, Losses, CallDies, CallAbandoned, TapDies, SignalLost, vars, store
  <2> QED
    BY <2>2, <2>3, <2>4, <2>5, <2>6
<1>2. Ongoing(o)' => Ongoing(o)
  BY <1>1, RowStep DEF RowMove, Ongoing
<1> QED
  BY <1>1, <1>2

LEMMA RowFactsKept ==
    ASSUME CapInv, RealInv, Facts, [Next]_vars
    PROVE  RowFacts'
<1> SUFFICES ASSUME NEW o \in Orders
             PROVE  /\ row'[o].state \in {"ASSIGNED", "PICKED_UP"} => row'[o].rider \in Riders
                    /\ row'[o].offer # 0 => Known(row[o].offer, o, row[o].rider)'
  BY DEF RowFacts
<1>1. Table /\ Ledger
  BY DEF RealInv, Shape, CapInv
<1>2. CASE Offered(o)
  <2>1. PICK c \in calls :
           /\ c.kind = "find" /\ c.at = "put" /\ c.order = o
           /\ row'[o] = [state |-> "OFFERING", rider |-> c.rider, offer |-> c.offer]
    BY <1>2 DEF Offered
  <2>2. PICK f, r : f = c.offer /\ r = c.rider
    OBVIOUS
  <2>3. Known(f, o, r)
    BY <2>1, <2>2 DEF Facts, CallFact
  <2>4. Known(f, o, r)'
    BY <1>1, <2>3, KnownKept
  <2>5. row'[o].offer = f /\ row'[o].rider = r
    BY <2>1, <2>2
  <2>6. Known(row[o].offer, o, row[o].rider)'
    BY <2>4, <2>5 DEF Known
  <2> QED
    BY <2>1, <2>6
<1>3. CASE Stepped(o)
  <2>1. PICK f, r : f = row[o].offer /\ r = row[o].rider
    OBVIOUS
  <2>2. f # 0 => Known(f, o, r)
    BY <2>1 DEF Facts, RowFacts
  <2>3. f # 0 => Known(f, o, r)'
    BY <1>1, <2>2, KnownKept
  <2>4. ASSUME Given(o) PROVE r \in Riders
    <3>1. PICK t \in taps : t.kind = "assign" /\ t.offer = f
      BY <2>1, <2>4 DEF Given
    <3>2. f \in DOMAIN made
      BY <3>1 DEF Facts, TapFact, Known
    <3>3. f \in 1 .. Len(made) /\ made \in Seq([order : Orders, rider : Riders])
      BY <1>1, <3>2 DEF Ledger
    <3>4. made[f] \in [order : Orders, rider : Riders]
      BY <3>3, ElementOfSeq
    <3>5. f # 0
      BY <3>3
    <3> QED
      BY <2>2, <3>4, <3>5 DEF Known
  <2>5. row[o].state \in {"ASSIGNED", "PICKED_UP"} => r \in Riders
    BY <2>1 DEF Facts, RowFacts
  <2>6. row'[o].offer = f /\ row'[o].rider = r
    BY <1>3, <2>1 DEF Stepped
  <2>7. f # 0 => Known(row[o].offer, o, row[o].rider)'
    BY <2>3, <2>6 DEF Known
  <2> QED
    BY <1>3, <2>4, <2>5, <2>6, <2>7 DEF Stepped
<1> QED
  BY <1>1, <1>2, <1>3, RowOrigin

LEMMA CallFactsKept ==
    ASSUME CapInv, RealInv, Facts, [Next]_vars
    PROVE  \A d \in calls' : CallFact(d)'
<1>0. Table /\ Ledger
  BY DEF RealInv, Shape, CapInv
<1>1. ASSUME NEW c \in calls, NEW d, d.kind = c.kind, d.at = c.at, d.order = c.order,
             d.offer = c.offer, d.rider = c.rider
      PROVE  CallFact(d)'
  <2>1. d.kind = "find" /\ d.at = "put" => Known(d.offer, d.order, d.rider)'
    BY <1>0, <1>1, KnownKept DEF Facts, CallFact
  <2>2. d.order \in Orders
    BY <1>1 DEF RealInv, Calling
  <2>3. d.kind = "cancel" /\ d.at \in {"release", "finish"} => row[d.order].state = "CANCELLED"
    BY <1>1 DEF Facts, CallFact
  <2>4. row[d.order].state = "CANCELLED" => row'[d.order].state = "CANCELLED"
    BY <1>0, <2>2, RowCancelled
  <2> QED
    BY <2>1, <2>3, <2>4 DEF CallFact
<1>2. ASSUME NEW c \in calls PROVE CallFact(c)' /\ CallFact(Stray(c))'
  BY <1>1 DEF Stray, Call
<1>3. ASSUME NEW c \in calls, CallStep(c), NEW d \in calls', d \notin calls PROVE CallFact(d)'
  <2>1. CASE Reserve(c)
    <3>1. PICK r \in online \ c.ex :
             /\ made' = Append(made, [order |-> c.order, rider |-> r])
             /\ Replaced(c, Call(c, "put", r, Len(made) + 1, c.role))
      BY <2>1 DEF Reserve
    <3>2. d = Call(c, "put", r, Len(made) + 1, c.role)
      BY <1>3, <3>1 DEF Replaced
    <3>3. PICK e : e = [order |-> c.order, rider |-> r]
      OBVIOUS
    <3>4. e \in [order : Orders, rider : Riders] /\ made \in Seq([order : Orders, rider : Riders])
      BY <1>0, <3>3 DEF Ledger
    <3>5. made' = Append(made, e)
      BY <3>1, <3>3
    <3>6. Len(made) + 1 \in DOMAIN made' /\ made'[Len(made) + 1] = e
      BY <3>4, <3>5, AppendProperties
    <3>7. d.offer = Len(made) + 1 /\ d.order = c.order /\ d.rider = r /\ d.kind = "find"
      BY <2>1, <3>2 DEF Call, Reserve
    <3> QED
      BY <3>3, <3>6, <3>7 DEF CallFact, Known
  <2>2. CASE ReleaseOffer(c)
    <3>1. d.kind = "expire"
      BY <1>3, <2>2 DEF ReleaseOffer, Missed, Answered, Becomes, Replaced, Call
    <3> QED
      BY <3>1 DEF CallFact
  <2>3. CASE Unassign(c)
    <3>1. d.kind = "unassign"
      BY <1>3, <2>3 DEF Unassign, Plain, Answered, Becomes, Replaced, Call
    <3> QED
      BY <3>1 DEF CallFact
  <2>4. CASE GetRow(c)
    <3>1. d.kind = "cancel" /\ d.at = "OFFERING"
      BY <1>3, <2>4 DEF GetRow, Replaced, Call
    <3> QED
      BY <3>1 DEF CallFact
  <2>5. CASE CancelRow(c)
    <3>1. d.kind = "cancel" /\ d.order = c.order /\ c.order \in Orders
      BY <1>3, <2>5 DEF CancelRow, Plain, Answered, Becomes, Replaced, Call, RealInv, Calling
    <3>2. \/ d.at = "ASSIGNED"
          \/ row' = [row EXCEPT ![c.order] = At(c.order, "CANCELLED")]
      BY <1>3, <2>5 DEF CancelRow, Plain, Answered, Becomes, Replaced, Call, Move
    <3> QED
      BY <1>0, <3>1, <3>2 DEF CallFact, Table, At
  <2>6. CASE CancelRelease(c)
    <3>1. d.kind = "cancel" /\ d.order = c.order /\ row' = row
      BY <1>3, <2>6 DEF CancelRelease, Becomes, Replaced, Call
    <3>2. row[c.order].state = "CANCELLED"
      BY <2>6 DEF CancelRelease, Facts, CallFact
    <3> QED
      BY <3>1, <3>2 DEF CallFact
  <2> QED
    BY <1>3, <2>1, <2>2, <2>3, <2>4, <2>5, <2>6
    DEF CallStep, NoCandidates, PutOffering, ReadRow, Stamp, UnassignFinish, CancelFinish,
        Answered, Plain, Missed
<1>4. ASSUME NEW o \in Orders, Attempt(o), NEW d \in calls', d \notin calls PROVE CallFact(d)'
  <2>1. d.kind \in Activities /\ d.at = First(d.kind)
    BY <1>4 DEF Attempt
  <2> QED
    BY <2>1 DEF CallFact, First, Activities
<1>5. ASSUME NEW o \in Orders, ChildCancelled(o), NEW d \in calls', d \notin calls
      PROVE  \E c \in calls : d = Stray(c)
  BY <1>5 DEF ChildCancelled, Current
<1>6. ASSUME NEW c \in calls, CallAbandoned(c), NEW d \in calls', d \notin calls PROVE d = Stray(c)
  BY <1>6 DEF CallAbandoned, Replaced
<1>7. \/ calls' \subseteq calls
      \/ \E o \in Orders : Attempt(o) \/ ChildCancelled(o)
      \/ \E c \in calls : CallStep(c) \/ CallAbandoned(c)
  BY DEF Next, Flow, Deadline, TimerStep, SignalSeen, MarkPickedUp, MarkDelivered,
     TryNoRider, CustomerCancels, RiderStep, GoOnline, GoOffline, PickedUp, Delivered, Accept,
     Assign, FinishDelivery, Signal, Losses, CallDies, TapDies, SignalLost, vars
<1> QED
  BY <1>2, <1>3, <1>4, <1>5, <1>6, <1>7

LEMMA TapFactsKept ==
    ASSUME CapInv, RealInv, Facts, [Next]_vars
    PROVE  \A t \in taps' : TapFact(t)'
<1>0. Ledger
  BY DEF CapInv
<1>1. ASSUME NEW t \in taps PROVE TapFact(t)'
  BY <1>0, KnownKept DEF Facts, TapFact
<1>2. ASSUME NEW f \in DOMAIN made, Accept(f), NEW t \in taps', t \notin taps PROVE TapFact(t)'
  <2>1. t = Tap("assign", made[f].order, made[f].rider, f) /\ made' = made
    BY <1>2 DEF Accept
  <2>2. f \in 1 .. Len(made) /\ made \in Seq([order : Orders, rider : Riders])
    BY <1>0 DEF Ledger
  <2>3. made[f] \in [order : Orders, rider : Riders]
    BY <2>2, ElementOfSeq
  <2> QED
    BY <2>1, <2>3 DEF Tap, TapFact, Known
<1>3. ASSUME NEW r \in Riders, NEW o \in Orders, Delivered(r, o), NEW t \in taps', t \notin taps
      PROVE  TapFact(t)'
  BY <1>3 DEF Delivered, Tap, TapFact
<1>4. \/ taps' \subseteq taps
      \/ \E f \in DOMAIN made : Accept(f)
      \/ \E r \in Riders, o \in Orders : Delivered(r, o)
  BY DEF Next, Flow, Attempt, Deadline, TimerStep, SignalSeen, MarkPickedUp, MarkDelivered,
     TryNoRider, CustomerCancels, ChildCancelled, CallStep, Reserve, NoCandidates, PutOffering,
     ReleaseOffer, ReadRow, Stamp, Unassign, UnassignFinish, GetRow, CancelRow, CancelRelease,
     CancelFinish, RiderStep, GoOnline, GoOffline, PickedUp, Assign, FinishDelivery, Signal,
     Losses, CallDies, CallAbandoned, TapDies, SignalLost, riderSide, vars
<1> QED
  BY <1>1, <1>2, <1>3, <1>4

-----------------------------------------------------------------------------
(* What a step does to a claim: the job goes only with a revoke, an accept  *)
(* comes only to a rider without jobs, and a revoke only from a courier.    *)

LEMMA JobLost ==
    ASSUME JobInv, Next, NEW r \in Riders, NEW o \in Orders, Ongoing(o),
           o \in jobs[r], o \notin jobs'[r]
    PROVE  \E c \in Leaving(r, o) : UnassignFinish(c)
<1>0. jobs \in [Riders -> SUBSET Orders]
  BY DEF JobInv, CapInv, Ledger
<1>1. ASSUME NEW q, NEW p, Drop(q, p) PROVE q = r /\ p = o
  BY <1>0, <1>1 DEF Drop
<1>2. ASSUME NEW c \in calls, UnassignFinish(c) PROVE c \in Leaving(r, o)
  BY <1>1, <1>2 DEF UnassignFinish, Leaving
<1>3. ASSUME NEW c \in calls, CancelFinish(c) PROVE FALSE
  <2>1. c.order = o /\ c.kind = "cancel" /\ c.at = "finish"
    BY <1>1, <1>3 DEF CancelFinish
  <2> QED
    BY <2>1 DEF JobInv, Facts, CallFact, Ongoing
<1>4. ASSUME NEW t \in taps, FinishDelivery(t) PROVE FALSE
  <2>1. t.order = o /\ t.kind = "finish"
    BY <1>1, <1>4 DEF FinishDelivery
  <2> QED
    BY <2>1 DEF JobInv, RealInv, Heard, Done, Ongoing
<1>5. ASSUME NEW f \in DOMAIN made, Accept(f) PROVE FALSE
  <2>1. PICK q, p : jobs' = [jobs EXCEPT ![q] = jobs[q] \cup {p}]
    BY <1>5 DEF Accept
  <2> QED
    BY <1>0, <2>1
<1>6. jobs' # jobs
  OBVIOUS
<1>7. \/ \E c \in calls : CancelFinish(c) \/ UnassignFinish(c)
      \/ \E t \in taps : FinishDelivery(t)
      \/ \E f \in DOMAIN made : Accept(f)
  BY <1>6
  DEF Next, Flow, Attempt, Deadline, TimerStep, SignalSeen, MarkPickedUp, MarkDelivered,
     TryNoRider, CustomerCancels, ChildCancelled, CallStep, Reserve, NoCandidates, PutOffering,
     ReleaseOffer, ReadRow, Stamp, Unassign, GetRow, CancelRow, CancelRelease,
     RiderStep, GoOnline, GoOffline, PickedUp, Delivered, Assign, Signal,
     Losses, CallDies, CallAbandoned, TapDies, SignalLost, store
<1> QED
  BY <1>2, <1>3, <1>4, <1>5, <1>7

LEMMA TakingComes ==
    ASSUME Next, NEW r \in Riders, NEW o \in Orders, NEW t \in Taking(r, o)', t \notin Taking(r, o)
    PROVE  \E f \in DOMAIN made : Accept(f) /\ made[f].rider = r /\ made[f].order = o
<1>1. t \in taps' /\ t \notin taps /\ t.kind = "assign" /\ t.order = o /\ t.rider = r
  BY DEF Taking
<1>2. ASSUME NEW q \in Riders, NEW p \in Orders, Delivered(q, p) PROVE FALSE
  BY <1>1, <1>2 DEF Delivered, Tap
<1>3. ASSUME NEW f \in DOMAIN made, Accept(f) PROVE made[f].rider = r /\ made[f].order = o
  BY <1>1, <1>3 DEF Accept, Tap
<1>4. \/ \E f \in DOMAIN made : Accept(f)
      \/ \E q \in Riders, p \in Orders : Delivered(q, p)
  BY <1>1
  DEF Next, Flow, Attempt, Deadline, TimerStep, SignalSeen, MarkPickedUp, MarkDelivered,
     TryNoRider, CustomerCancels, ChildCancelled, CallStep, Reserve, NoCandidates, PutOffering,
     ReleaseOffer, ReadRow, Stamp, Unassign, UnassignFinish, GetRow, CancelRow, CancelRelease,
     CancelFinish, RiderStep, GoOnline, GoOffline, PickedUp, Assign, FinishDelivery, Signal,
     Losses, CallDies, CallAbandoned, TapDies, SignalLost, riderSide
<1> QED
  BY <1>2, <1>3, <1>4

\* The attempts of S become strays.
Strays(S) == S \subseteq calls /\ calls' = (calls \ S) \cup {Stray(c) : c \in S}

LEMMA LeavingComes ==
    ASSUME Next, NEW r \in Riders, NEW o \in Orders
    PROVE  \/ Leaving(r, o)' \subseteq Leaving(r, o)
           \/ \E S : Strays(S)
           \/ \E c \in calls : Unassign(c) /\ c.rider = r /\ c.order = o
<1> DEFINE Finish(c) == c.kind = "unassign" /\ c.at = "finish"
<1>1. ASSUME \A c \in calls' : c \in calls \/ ~Finish(c)
      PROVE  Leaving(r, o)' \subseteq Leaving(r, o)
  BY <1>1 DEF Leaving
<1>2. ASSUME NEW p \in Orders, Attempt(p) PROVE \A c \in calls' : c \in calls \/ ~Finish(c)
  BY <1>2 DEF Attempt, First
<1>3. ASSUME NEW p \in Orders, ChildCancelled(p) PROVE \E S : Strays(S)
  <2>1. Strays(Current(p))
    BY <1>3 DEF ChildCancelled, Strays, Current
  <2> QED
    BY <2>1
<1>4. ASSUME NEW c \in calls, CallAbandoned(c) PROVE \E S : Strays(S)
  <2>1. Strays({c})
    BY <1>4 DEF CallAbandoned, Strays, Replaced
  <2> QED
    BY <2>1
<1>5. ASSUME NEW c \in calls, Unassign(c), ~(Leaving(r, o)' \subseteq Leaving(r, o))
      PROVE  c.rider = r /\ c.order = o
  <2>1. PICK d \in calls' : d \notin calls /\ d.order = o /\ d.rider = r
    BY <1>5 DEF Leaving
  <2>2. calls' = calls \ {c} \/ Becomes(c, "finish")
    BY <1>5 DEF Unassign, Plain, Answered
  <2>3. d = Call(c, "finish", c.rider, c.offer, c.role)
    BY <2>1, <2>2 DEF Becomes, Replaced
  <2> QED
    BY <2>1, <2>3 DEF Call
<1>6. ASSUME NEW c \in calls, CallStep(c), ~Unassign(c)
      PROVE  \A d \in calls' : d \in calls \/ ~Finish(d)
  <2>1. c.kind # "unassign" \/ calls' \subseteq calls
    BY <1>6
    DEF CallStep, Reserve, NoCandidates, PutOffering, ReleaseOffer, ReadRow, Stamp,
        UnassignFinish, GetRow, CancelRow, CancelRelease, CancelFinish, Missed, Answered
  <2>2. calls' \subseteq calls \/ \E d : Replaced(c, d) /\ d.kind = c.kind
    <3>1. \A at, q, f, role : Call(c, at, q, f, role).kind = c.kind
      BY DEF Call
    <3>2. CASE Reserve(c) \/ GetRow(c)
      <4>1. \E at, q, f : Replaced(c, Call(c, at, q, f, c.role))
        BY <3>2 DEF Reserve, GetRow
      <4> QED
        BY <3>1, <4>1
    <3>3. CASE \E at : Becomes(c, at)
      BY <3>1, <3>3 DEF Becomes
    <3>4. CASE \E place, q, f, ex : Answered(c, place, q, f, ex)
      BY <3>4 DEF Answered
    <3>5. CASE \E q : Missed(c, q)
      BY <3>4, <3>5 DEF Missed
    <3>6. CASE \E place : Plain(c, place)
      BY <3>4, <3>6 DEF Plain
    <3> QED
      BY <1>6, <3>2, <3>3, <3>4, <3>5, <3>6
      DEF CallStep, NoCandidates, PutOffering, ReleaseOffer, ReadRow, Stamp, UnassignFinish,
          CancelRow, CancelRelease, CancelFinish
  <2> QED
    BY <2>1, <2>2 DEF Replaced
<1>7. \/ calls' \subseteq calls
      \/ \E p \in Orders : Attempt(p) \/ ChildCancelled(p)
      \/ \E c \in calls : CallStep(c) \/ CallAbandoned(c)
  BY DEF Next, Flow, Deadline, TimerStep, SignalSeen, MarkPickedUp, MarkDelivered,
     TryNoRider, CustomerCancels, RiderStep, GoOnline, GoOffline, PickedUp, Delivered, Accept,
     Assign, FinishDelivery, Signal, Losses, CallDies, TapDies, SignalLost
<1> QED
  BY <1>1, <1>2, <1>3, <1>4, <1>5, <1>6, <1>7

LEMMA OfferedState ==
    ASSUME NEW o, Offered(o)
    PROVE  row'[o].state = "OFFERING"
<1>1. PICK c \in calls :
         row'[o] = [state |-> "OFFERING", rider |-> c.rider, offer |-> c.offer]
  BY DEF Offered
<1> QED
  BY <1>1

\* An accept wins the lock of a rider who holds nothing.
LEMMA AcceptClaims ==
    ASSUME JobInv, Cap = 1, NEW f \in DOMAIN made, Accept(f),
           NEW r \in Riders, NEW o \in Orders, Claim(r, o),
           made[f].rider = r, made[f].order = o
    PROVE  Claim(r, o)'
<1>1. Ledger /\ CapRespected
  BY DEF JobInv, CapInv
<1>2. jobs[r] = {}
  <2>1. f # 0 /\ lock[r] = f
    BY <1>1 DEF Ledger, Accept
  <2>2. Cardinality(jobs[r]) = 0
    <3>1. Cardinality(jobs[r]) \in Nat
      BY <1>1, JobSets
    <3>2. Cardinality(jobs[r]) + (IF lock[r] = 0 THEN 0 ELSE 1) <= 1
      BY <1>1 DEF CapRespected
    <3> QED
      BY <2>1, <3>1, <3>2
  <2>3. IsFiniteSet(jobs[r])
    <3>1. jobs[r] \subseteq Orders
      BY <1>1 DEF Ledger
    <3> QED
      BY <3>1, NamesAssumption, FS_Subset
  <2> QED
    BY <2>2, <2>3, FS_EmptySet
<1>3. Taking(r, o) = {} /\ Leaving(r, o) = {} /\ ~Courier(r, o)
  BY <1>2 DEF Claim
<1>4. /\ jobs' = [jobs EXCEPT ![r] = jobs[r] \cup {o}]
      /\ taps' = taps \cup {Tap("assign", o, r, f)}
      /\ UNCHANGED <<row, calls>>
  BY DEF Accept
<1>5. o \in jobs'[r]
  BY <1>1, <1>4 DEF Ledger
<1>6. \A t \in Taking(r, o)' : t = Tap("assign", o, r, f)
  BY <1>3, <1>4 DEF Taking
<1>7. Leaving(r, o)' = {} /\ ~Courier(r, o)'
  BY <1>3, <1>4 DEF Leaving, Courier
<1> QED
  BY <1>5, <1>6, <1>7 DEF Claim

\* The accept reaches the row: it is the rider's own offer that stands there.
LEMMA GivenClaims ==
    ASSUME JobInv, [Next]_vars, NEW r \in Riders, NEW o \in Orders, Claim(r, o), Given(o)
    PROVE  Claim(r, o)'
<1>1. PICK t \in taps :
         /\ t.kind = "assign" /\ t.order = o /\ t.offer = row[o].offer
         /\ taps' = taps \ {t} /\ UNCHANGED <<calls, jobs>>
         /\ row[o].state = "OFFERING" /\ row'[o].state = "ASSIGNED"
  BY DEF Given
<1>2. Known(t.offer, o, t.rider)
  BY <1>1 DEF JobInv, Facts, TapFact
<1>3. t.offer # 0
  BY <1>2 DEF Known, JobInv, CapInv, Ledger
<1>4. row[o].rider = t.rider
  <2>1. PICK f : f = t.offer /\ f = row[o].offer /\ f # 0
    BY <1>1, <1>3
  <2>2. Known(f, o, t.rider) /\ Known(f, o, row[o].rider)
    BY <1>2, <2>1 DEF JobInv, Facts, RowFacts
  <2>3. [order |-> o, rider |-> t.rider] = [order |-> o, rider |-> row[o].rider]
    BY <2>2 DEF Known
  <2>4. [order |-> o, rider |-> t.rider].rider = [order |-> o, rider |-> row[o].rider].rider
    BY <2>3
  <2> QED
    BY <2>4
<1>5. row'[o].rider = t.rider
  <2>1. Offered(o) \/ Stepped(o)
    BY RowOrigin DEF JobInv, RealInv, Shape
  <2>2. ~Offered(o)
    BY <1>1, OfferedState
  <2> QED
    BY <1>4, <2>1, <2>2 DEF Stepped
<1>6. ~Courier(r, o) /\ Leaving(r, o)' = Leaving(r, o)
  BY <1>1 DEF Courier, Leaving
<1>7. CASE r = t.rider
  <2>1. t \in Taking(r, o)
    BY <1>1, <1>7 DEF Taking
  <2>2. Taking(r, o)' = {}
    BY <1>1, <2>1 DEF Claim, Taking
  <2> QED
    BY <1>1, <1>6, <2>1, <2>2 DEF Claim
<1>8. CASE r # t.rider
  <2>1. Taking(r, o)' = Taking(r, o)
    BY <1>1, <1>8 DEF Taking
  <2>2. ~Courier(r, o)'
    BY <1>5, <1>8 DEF Courier
  <2> QED
    BY <1>1, <1>6, <2>1, <2>2 DEF Claim
<1> QED
  BY <1>7, <1>8

\* A revoke takes the row from the courier first...
LEMMA UnassignClaims ==
    ASSUME JobInv, NEW r \in Riders, NEW o \in Orders, Claim(r, o),
           NEW c \in calls, Unassign(c), c.rider = r, c.order = o,
           ~(Leaving(r, o)' \subseteq Leaving(r, o))
    PROVE  Claim(r, o)'
<1>0. calls' # calls \ {c}
  BY DEF Leaving
<1>1. /\ calls' = (calls \ {c}) \cup {Call(c, "finish", c.rider, c.offer, c.role)}
      /\ UNCHANGED <<jobs, taps>>
  BY <1>0 DEF Unassign, Plain, Answered, Becomes, Replaced, riderSide
<1>2. /\ row[o].state = "ASSIGNED" /\ row[o].rider = r
      /\ row' = [row EXCEPT ![o] = At(o, "OFFERING")]
  BY <1>0 DEF Unassign, Plain, Answered, Move
<1>3. Courier(r, o)
  BY <1>2 DEF Courier
<1>4. o \in jobs'[r] /\ Taking(r, o)' = {} /\ Leaving(r, o) = {}
  BY <1>1, <1>3 DEF Claim, Taking
<1>5. \A d \in Leaving(r, o)' : d = Call(c, "finish", c.rider, c.offer, c.role)
  BY <1>1, <1>4 DEF Leaving
<1>6. ~Courier(r, o)'
  BY <1>2 DEF JobInv, RealInv, Shape, Table, At, Courier
<1> QED
  BY <1>4, <1>5, <1>6 DEF Claim

\* ... and then the job, when nothing else speaks for it.
LEMMA FinishClaims ==
    ASSUME JobInv, NEW r \in Riders, NEW o \in Orders, Claim(r, o),
           NEW c \in Leaving(r, o), UnassignFinish(c)
    PROVE  Claim(r, o)'
<1>1. calls' = calls \ {c} /\ UNCHANGED <<row, taps>>
  BY DEF UnassignFinish, Missed, Answered, riderSide
<1>2. Leaving(r, o)' = {}
  BY <1>1 DEF Claim, Leaving
<1>3. Taking(r, o)' = {}
  BY <1>1 DEF Claim, Taking
<1>4. ~Courier(r, o)'
  BY <1>1 DEF Claim, Courier
<1> QED
  BY <1>2, <1>3, <1>4 DEF Claim

LEMMA StrayClaims ==
    ASSUME NEW S, Strays(S), NEW r, NEW o, Claim(r, o)
    PROVE  /\ Leaving(r, o)' # {} => Leaving(r, o) # {}
           /\ \A c, d \in Leaving(r, o)' : c = d
<1>1. ASSUME NEW d \in Leaving(r, o)'
      PROVE  \E c \in Leaving(r, o) : (c \notin S /\ d = c) \/ (c \in S /\ d = Stray(c))
  <2>1. CASE d \in calls /\ d \notin S
    BY <1>1, <2>1 DEF Leaving
  <2>2. CASE \E c \in S : d = Stray(c)
    <3>1. PICK c \in S : d = Stray(c)
      BY <2>2
    <3>2. d.kind = c.kind /\ d.at = c.at /\ d.order = c.order /\ d.rider = c.rider
      BY <3>1 DEF Stray, Call
    <3>3. c \in Leaving(r, o)
      BY <1>1, <3>2 DEF Leaving, Strays
    <3> QED
      BY <3>1, <3>3
  <2> QED
    BY <1>1, <2>1, <2>2 DEF Leaving, Strays
<1> QED
  BY <1>1 DEF Claim

LEMMA ClaimStep ==
    ASSUME JobInv, Cap = 1, Next, NEW r \in Riders, NEW o \in Orders, Ongoing(o)'
    PROVE  Claim(r, o)'
<1>1. Table
  BY DEF JobInv, RealInv, Shape
<1>2. Ongoing(o) /\ Claim(r, o)
  BY <1>1, RowCancelled DEF JobInv, Claims
<1>3. CASE Given(o)
  BY <1>2, <1>3, GivenClaims
<1>4. CASE \E f \in DOMAIN made : Accept(f) /\ made[f].rider = r /\ made[f].order = o
  BY <1>2, <1>4, AcceptClaims
<1>5. CASE /\ ~(Leaving(r, o)' \subseteq Leaving(r, o))
            /\ \E c \in calls : Unassign(c) /\ c.rider = r /\ c.order = o
  BY <1>2, <1>5, UnassignClaims
<1>6. CASE \E c \in Leaving(r, o) : UnassignFinish(c)
  BY <1>2, <1>6, FinishClaims
<1>7. ASSUME ~Given(o),
             ~(\E f \in DOMAIN made : Accept(f) /\ made[f].rider = r /\ made[f].order = o),
             ~(/\ ~(Leaving(r, o)' \subseteq Leaving(r, o))
               /\ \E c \in calls : Unassign(c) /\ c.rider = r /\ c.order = o),
             ~(\E c \in Leaving(r, o) : UnassignFinish(c))
      PROVE  Claim(r, o)'
  <2>1. Courier(r, o)' => Courier(r, o)
    <3>1. Offered(o) \/ Stepped(o)
      BY <1>1, RowOrigin
    <3>2. row'[o].state \in {"ASSIGNED", "PICKED_UP"} => ~Offered(o)
      BY OfferedState
    <3> QED
      BY <1>7, <3>1, <3>2 DEF Stepped, Courier
  <2>2. o \in jobs[r] => o \in jobs'[r]
    BY <1>2, <1>7, JobLost
  <2>3. \A t \in Taking(r, o)' : t \in Taking(r, o)
    BY <1>7, TakingComes
  <2>4. /\ Leaving(r, o)' # {} => Leaving(r, o) # {}
        /\ \A c, d \in Leaving(r, o)' : c = d
    <3>1. CASE \E S : Strays(S)
      BY <1>2, <3>1, StrayClaims
    <3>2. CASE Leaving(r, o)' \subseteq Leaving(r, o)
      BY <1>2, <3>2 DEF Claim
    <3> QED
      BY <1>7, <3>1, <3>2, LeavingComes
  <2> QED
    BY <1>2, <2>1, <2>2, <2>3, <2>4 DEF Claim
<1> QED
  BY <1>3, <1>4, <1>5, <1>6, <1>7

LEMMA JobStep ==
    ASSUME JobInv, [Next]_vars
    PROVE  JobInv'
<1>1. CapInv' /\ RealInv'
  BY CapStep, RealStep DEF JobInv
<1>2. Facts'
  BY RowFactsKept, CallFactsKept, TapFactsKept DEF JobInv, Facts
<1>3. ASSUME Cap = 1 PROVE Claims'
  <2>1. CASE Next
    BY <1>3, <2>1, ClaimStep DEF Claims
  <2>2. CASE UNCHANGED vars
    BY <1>3, <2>2
    DEF JobInv, Claims, Claim, Ongoing, Taking, Leaving, Courier, vars, store, riderSide
  <2> QED
    BY <2>1, <2>2
<1> QED
  BY <1>1, <1>2, <1>3 DEF JobInv

\* Under rider_cap's default of one, for any riders, orders, cascades, retries
\* and losses, the courier of a row has the delivery among the jobs.
THEOREM CourierKeepsJob == Spec => []CourierHasJob
<1>1. JobInv => CourierHasJob
  <2> SUFFICES ASSUME JobInv, Cap = 1, NEW o \in Orders,
                      row[o].state \in {"ASSIGNED", "PICKED_UP"}
               PROVE  o \in jobs[row[o].rider]
    BY DEF CourierHasJob
  <2>1. row[o].rider \in Riders /\ Ongoing(o) /\ Courier(row[o].rider, o)
    BY DEF JobInv, Facts, RowFacts, Ongoing, Courier
  <2> QED
    BY <2>1 DEF JobInv, Claims, Claim
<1> QED
  BY <1>1, JobInit, JobStep, PTL DEF Spec
=============================================================================
