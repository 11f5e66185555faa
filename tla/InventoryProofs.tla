--------------------------- MODULE InventoryProofs ---------------------------
(***************************************************************************)
(* Theorems about Inventory, for any orders, lines, capacities and number  *)
(* of concurrent requests.                                                 *)
(***************************************************************************)
EXTENDS Inventory, FiniteSetTheorems, SequenceTheorems, TLAPS

Transactions == [at : Places \cup {"idle"}, order : Orders \cup {"none"},
                 line : Nat, target : Statuses \cup {"none"}]

\* The part of the type invariant that slots and statuses rest on.
LedgerTypeOK ==
    /\ active \in Nat /\ capacity \in Nat
    /\ resv \in [Orders -> Statuses \cup {"none"}]
    /\ tx \in [Procs -> Transactions]

\* Who has a reservation row in hand has an active one, and nobody else has it.
Ending(p) == tx[p].at \in {"restore", "free"}
Ended == {"released", "consumed", "expired"}
EndingInv ==
    /\ \A p \in Procs : Ending(p) =>
          /\ tx[p].order \in Orders /\ resv[tx[p].order] = "active"
          /\ tx[p].target \in Ended
    /\ \A p, q \in Procs : Ending(p) /\ Ending(q) /\ p # q => tx[p].order # tx[q].order
    /\ \A p \in Procs : ~Ending(p) /\ tx[p].at # "idle" => tx[p].order \in Orders

SlotInv ==
    /\ IsFiniteSet(Holding("active"))
    /\ SlotsMatchActive

\* What a step may do to one transaction.
LEMMA GotoFacts ==
    ASSUME tx \in [Procs -> Transactions], NEW p \in Procs, NEW at \in Places,
           NEW k \in Nat, Goto(p, at, k)
    PROVE  /\ tx' \in [Procs -> Transactions]
           /\ tx'[p].at = at /\ tx'[p].order = tx[p].order /\ tx'[p].target = tx[p].target
           /\ \A q \in Procs : q # p => tx'[q] = tx[q]
BY DEF Goto, Tx, Transactions

\* A transaction that ends.
LEMMA IdleFacts ==
    ASSUME tx \in [Procs -> Transactions], NEW p \in Procs,
           tx' = [tx EXCEPT ![p] = Idle]
    PROVE  /\ tx' \in [Procs -> Transactions] /\ tx'[p].at = "idle"
           /\ \A q \in Procs : q # p => tx'[q] = tx[q]
BY DEF Idle, Transactions

\* A transaction that begins.
LEMMA BeginFacts ==
    ASSUME tx \in [Procs -> Transactions], NEW p \in Procs, NEW at \in Places,
           NEW o \in Orders, NEW t \in Statuses,
           tx' = [tx EXCEPT ![p] = Tx(at, o, 1, t)]
    PROVE  /\ tx' \in [Procs -> Transactions]
           /\ tx'[p].at = at /\ tx'[p].order = o /\ tx'[p].target = t
           /\ \A q \in Procs : q # p => tx'[q] = tx[q]
BY DEF Tx, Transactions

\* The shapes a step of the service can have, as far as the ledger goes.
Quiet == UNCHANGED <<tx, resv, active>>
Dropped(p) == tx' = [tx EXCEPT ![p] = Idle] /\ UNCHANGED <<resv, active>>
Moved(p) ==
    /\ tx[p].at # "idle"
    /\ \E at \in Places, k \in Nat :
          Goto(p, at, k) /\ (at \in {"restore", "free"} <=> Ending(p))
    /\ UNCHANGED <<resv, active>>
Inserted(p) ==
    /\ tx[p].at = "insert" /\ resv[tx[p].order] = "none"
    /\ resv' = [resv EXCEPT ![tx[p].order] = "active"]
    /\ active' = active + 1
    /\ tx' = [tx EXCEPT ![p] = Idle]
Opened(p, o, t) ==
    /\ FinishReservation(p, o, t)
    /\ o \in Orders /\ t \in Ended

\* Every step has one of them, and a line to go on with where it has lines left.
LEMMA Shapes ==
    ASSUME LedgerTypeOK, batch \subseteq Orders, Next
    PROVE  \/ Quiet
           \/ \E p \in Procs :
                 \/ Dropped(p) \/ Moved(p) \/ Inserted(p) \/ FreeSlot(p)
                 \/ \E o \in Orders : Reserve(p, o)
                 \/ \E o \in Orders, t \in Ended : Opened(p, o, t)
<1> USE DEF books, Procs
<1>1. CASE Saga
  BY <1>1 DEF Saga, Release, Commit, Opened, Ended
<1>2. CASE Steps
  <2>1. PICK p \in Procs : Step(p) \/ DeadlockVictim(p) \/ Crash(p)
    BY <1>2 DEF Steps
  <2>2. CASE DeadlockVictim(p) \/ Crash(p)
    BY <2>2 DEF DeadlockVictim, Crash, Fail, Dropped
  <2>3. ASSUME NEW at \in Places, NEW k \in Nat, Goto(p, at, k), tx[p].at # "idle",
               UNCHANGED books, at \in {"restore", "free"} <=> Ending(p)
        PROVE  Moved(p)
    BY <2>3 DEF Moved
  <2>4. ASSUME Rollback(p) PROVE Dropped(p)
    BY <2>4 DEF Rollback, Finished, Dropped
  <2>5. tx[p].line \in Nat
    BY DEF LedgerTypeOK, Transactions
  <2>6. CASE OccupySlot(p)
    BY <2>6, <2>3, <2>4 DEF OccupySlot, Places, Ending
  <2>7. CASE PreCheck(p)
    BY <2>7, <2>3, <2>4 DEF PreCheck, Places, Ending
  <2>8. CASE DecrementStock(p)
    <3>1. \/ Rollback(p)
          \/ \E at \in {"insert", "decrement"} : Goto(p, at, tx[p].line + 1) /\ UNCHANGED books
      BY <2>8 DEF DecrementStock
    <3> QED
      BY <3>1, <2>3, <2>4, <2>5, <2>8 DEF DecrementStock, Places, Ending
  <2>9. CASE InsertReservation(p)
    BY <2>9, <2>4 DEF InsertReservation, Inserted, Finished
  <2>10. CASE IncrementStock(p)
    <3>1. \E at \in {"restore", "free"} : Goto(p, at, tx[p].line + 1) /\ UNCHANGED books
      BY <2>10 DEF IncrementStock
    <3> QED
      BY <3>1, <2>3, <2>5, <2>10 DEF IncrementStock, Places, Ending
  <2> QED
    BY <2>1, <2>2, <2>6, <2>7, <2>8, <2>9, <2>10 DEF Step
<1>3. CASE Admin
  BY <1>3 DEF Admin, SetStock, SetCapacity, Provision, Quiet
<1>4. CASE Expiry
  <2>1. CASE ReaperRelease
    BY <2>1 DEF ReaperRelease, Opened, Ended, Quiet
  <2>2. CASE ReaperPass \/ \E o \in Orders : TimePasses(o)
    BY <2>2 DEF ReaperPass, TimePasses, Quiet
  <2> QED
    BY <1>4, <2>1, <2>2 DEF Expiry
<1> QED
  BY <1>1, <1>2, <1>3, <1>4 DEF Next

-----------------------------------------------------------------------------
(* Slots.  SlotsMatchActive is kept by a release only when the reservation it *)
(* ends is still active at its commit: EndingInv says so, and says why (the   *)
(* row is locked from finish_reservation on, and no two hold it).             *)

LedgerInv == LedgerTypeOK /\ batch \subseteq Orders /\ EndingInv /\ SlotInv

\* Nothing is reserved at first.
LEMMA LedgerInit == Init => LedgerInv
<1> SUFFICES ASSUME Init PROVE LedgerInv
  OBVIOUS
<1>1. Holding("active") = {}
  BY DEF Init, Holding
<1>2. SlotInv
  BY <1>1, FS_EmptySet DEF Init, SlotInv, SlotsMatchActive
<1>3. LedgerTypeOK
  BY DEF Init, LedgerTypeOK, Transactions, Idle
<1>4. EndingInv
  BY DEF Init, EndingInv, Ending, Idle
<1> QED
  BY <1>2, <1>3, <1>4 DEF Init, LedgerInv

\* The reaper's batch holds orders.
LEMMA BatchStep ==
    ASSUME batch \subseteq Orders, Next
    PROVE  batch' \subseteq Orders
<1>1. CASE Saga
  BY <1>1 DEF Saga, Reserve, Release, Commit, FinishReservation
<1>2. CASE Steps
  BY <1>2 DEF Steps, Step, DeadlockVictim, Crash, Fail, OccupySlot, PreCheck,
     DecrementStock, InsertReservation, IncrementStock, FreeSlot, Rollback, Finished
<1>3. CASE Admin
  BY <1>3 DEF Admin, SetStock, SetCapacity, Provision
<1>4. CASE Expiry
  BY <1>4 DEF Expiry, ReaperPass, ReaperRelease, TimePasses, FinishReservation, Overdue
<1> QED
  BY <1>1, <1>2, <1>3, <1>4 DEF Next

\* The load row's capacity is a number.
LEMMA CapacityType ==
    ASSUME capacity \in Nat, Next
    PROVE  capacity' \in Nat
<1> USE LevelsAssumption DEF books
<1>1. CASE Saga
  BY <1>1 DEF Saga, Reserve, Release, Commit, FinishReservation
<1>2. CASE Steps
  BY <1>2 DEF Steps, Step, DeadlockVictim, Crash, Fail, OccupySlot, PreCheck,
     DecrementStock, InsertReservation, IncrementStock, FreeSlot, Rollback
<1>3. CASE Admin
  BY <1>3 DEF Admin, SetStock, SetCapacity, Provision
<1>4. CASE Expiry
  BY <1>4 DEF Expiry, ReaperPass, ReaperRelease, TimePasses, FinishReservation
<1> QED
  BY <1>1, <1>2, <1>3, <1>4 DEF Next

\* Every step keeps slots, statuses and row holders in step.
LEMMA LedgerStep == LedgerInv /\ [Next]_vars => LedgerInv'
<1> SUFFICES ASSUME LedgerInv, [Next]_vars PROVE LedgerInv'
  OBVIOUS
<1>0. LedgerTypeOK /\ batch \subseteq Orders /\ EndingInv /\ SlotInv
  BY DEF LedgerInv
<1> SUFFICES ASSUME Next PROVE LedgerInv'
  <2>1. CASE UNCHANGED vars
    <3>1. UNCHANGED <<active, capacity, resv, tx, batch>>
      BY <2>1 DEF vars, books
    <3> QED
      BY <1>0, <3>1 DEF LedgerInv, LedgerTypeOK, EndingInv, Ending, SlotInv,
         SlotsMatchActive, Holding
  <2> QED
    BY <2>1
<1>1. batch' \subseteq Orders /\ capacity' \in Nat
  BY <1>0, BatchStep, CapacityType DEF LedgerTypeOK
<1>2. ASSUME UNCHANGED <<resv, active>> PROVE SlotInv'
  BY <1>2, <1>0 DEF SlotInv, SlotsMatchActive, Holding
<1>3. CASE Quiet
  BY <1>3, <1>0, <1>1, <1>2 DEF Quiet, LedgerInv, LedgerTypeOK, EndingInv, Ending
<1>4. ASSUME NEW p \in Procs, Dropped(p) PROVE LedgerInv'
  <2>1. tx' \in [Procs -> Transactions] /\ tx'[p].at = "idle"
        /\ \A q \in Procs : q # p => tx'[q] = tx[q]
    BY <1>4, <1>0, IdleFacts DEF Dropped, LedgerTypeOK
  <2>2. UNCHANGED <<resv, active>>
    BY <1>4 DEF Dropped
  <2>3. EndingInv'
    BY <2>1, <2>2, <1>0 DEF EndingInv, Ending
  <2> QED
    BY <2>1, <2>2, <2>3, <1>0, <1>1, <1>2 DEF LedgerInv, LedgerTypeOK
<1>5. ASSUME NEW p \in Procs, Moved(p) PROVE LedgerInv'
  <2>1. PICK at \in Places, k \in Nat :
           Goto(p, at, k) /\ (at \in {"restore", "free"} <=> Ending(p))
    BY <1>5 DEF Moved
  <2>2. /\ tx' \in [Procs -> Transactions]
        /\ tx'[p].at = at /\ tx'[p].order = tx[p].order /\ tx'[p].target = tx[p].target
        /\ \A q \in Procs : q # p => tx'[q] = tx[q]
    BY <2>1, <1>0, GotoFacts DEF LedgerTypeOK
  <2>3. UNCHANGED <<resv, active>> /\ tx[p].at # "idle"
    BY <1>5 DEF Moved
  <2>4. EndingInv'
    BY <2>1, <2>2, <2>3, <1>0 DEF EndingInv, Ending
  <2> QED
    BY <2>2, <2>3, <2>4, <1>0, <1>1, <1>2 DEF LedgerInv, LedgerTypeOK
<1>6. ASSUME NEW p \in Procs, NEW o \in Orders, Reserve(p, o) PROVE LedgerInv'
  <2>1. UNCHANGED <<resv, active>>
    BY <1>6 DEF Reserve, books
  <2>2. /\ tx' \in [Procs -> Transactions] /\ tx'[p].at = "occupy" /\ tx'[p].order = o
        /\ \A q \in Procs : q # p => tx'[q] = tx[q]
    BY <1>6, <1>0, BeginFacts DEF Reserve, LedgerTypeOK, Places, Statuses
  <2>3. EndingInv'
    BY <2>1, <2>2, <1>0 DEF EndingInv, Ending
  <2> QED
    BY <2>1, <2>2, <2>3, <1>0, <1>1, <1>2 DEF LedgerInv, LedgerTypeOK
<1>7. ASSUME NEW p \in Procs, NEW o \in Orders, NEW t \in Ended, Opened(p, o, t)
      PROVE  LedgerInv'
  <2>1. UNCHANGED <<resv, active>> /\ resv[o] = "active"
        /\ \A q \in Procs : ~HoldsReservation(q, o)
    BY <1>7 DEF Opened, FinishReservation, books
  <2>2. PICK at \in {"restore", "free"} : tx' = [tx EXCEPT ![p] = Tx(at, o, 1, t)]
    BY <1>7 DEF Opened, FinishReservation
  <2>3. /\ tx' \in [Procs -> Transactions] /\ tx'[p].at = at /\ tx'[p].order = o
        /\ tx'[p].target = t /\ \A q \in Procs : q # p => tx'[q] = tx[q]
    BY <2>2, <1>0, BeginFacts, ZenonT(30) DEF LedgerTypeOK, Places, Statuses, Ended
  <2>4. EndingInv'
    BY <2>1, <2>3, <1>0 DEF EndingInv, Ending, HoldsReservation
  <2> QED
    BY <2>1, <2>3, <2>4, <1>0, <1>1, <1>2 DEF LedgerInv, LedgerTypeOK
<1>8. ASSUME NEW p \in Procs, Inserted(p) PROVE LedgerInv'
  <2> DEFINE o == tx[p].order
  <2>1. o \in Orders /\ resv[o] = "none"
    BY <1>8, <1>0 DEF Inserted, EndingInv, Ending
  <2>2. resv' = [resv EXCEPT ![o] = "active"] /\ active' = active + 1
    BY <1>8 DEF Inserted
  <2>3. tx' \in [Procs -> Transactions] /\ tx'[p].at = "idle"
        /\ \A q \in Procs : q # p => tx'[q] = tx[q]
    BY <1>8, <1>0, IdleFacts DEF Inserted, LedgerTypeOK
  <2>4. Holding("active")' = Holding("active") \cup {o} /\ o \notin Holding("active")
    BY <2>1, <2>2, <1>0 DEF Holding, LedgerTypeOK
  <2>5. SlotInv'
    <3>1. /\ IsFiniteSet(Holding("active") \cup {o})
          /\ Cardinality(Holding("active") \cup {o}) = Cardinality(Holding("active")) + 1
      BY <2>4, <1>0, FS_AddElement DEF SlotInv
    <3> HIDE DEF o
    <3> QED
      BY <3>1, <2>2, <2>4, <1>0 DEF SlotInv, SlotsMatchActive
  <2>6. EndingInv'
    BY <2>1, <2>2, <2>3, <1>0 DEF EndingInv, Ending, LedgerTypeOK
  <2>7. LedgerTypeOK'
    BY <2>1, <2>2, <2>3, <1>0, <1>1 DEF LedgerTypeOK, Statuses
  <2> QED
    BY <2>5, <2>6, <2>7, <1>1 DEF LedgerInv
<1>9. ASSUME NEW p \in Procs, FreeSlot(p) PROVE LedgerInv'
  <2> DEFINE o == tx[p].order
  <2>1. o \in Orders /\ resv[o] = "active" /\ tx[p].target \in Ended
    BY <1>9, <1>0 DEF FreeSlot, EndingInv, Ending
  <2>2. /\ resv' = [resv EXCEPT ![o] = tx[p].target]
        /\ active' = IF active > 0 THEN active - 1 ELSE active
    BY <1>9 DEF FreeSlot
  <2>3. tx' \in [Procs -> Transactions] /\ tx'[p].at = "idle"
        /\ \A q \in Procs : q # p => tx'[q] = tx[q]
    BY <1>9, <1>0, IdleFacts DEF FreeSlot, Finished, LedgerTypeOK
  <2>4. Holding("active")' = Holding("active") \ {o} /\ o \in Holding("active")
    BY <2>1, <2>2, <1>0 DEF Holding, LedgerTypeOK, Ended
  <2>5. SlotInv'
    <3>1. Cardinality(Holding("active")) \in Nat /\ Cardinality(Holding("active")) # 0
      BY <2>4, <1>0, FS_CardinalityType, FS_EmptySet DEF SlotInv
    <3>2. active' = active - 1
      BY <3>1, <2>2, <1>0 DEF SlotInv, SlotsMatchActive
    <3> QED
      BY <3>2, <2>4, <1>0, FS_RemoveElement DEF SlotInv, SlotsMatchActive
  <2>6. EndingInv'
    BY <2>1, <2>2, <2>3, <1>0, <1>9 DEF EndingInv, Ending, LedgerTypeOK, FreeSlot
  <2>7. LedgerTypeOK'
    BY <2>1, <2>2, <2>3, <1>0, <1>1 DEF LedgerTypeOK, Statuses, Ended
  <2> QED
    BY <2>5, <2>6, <2>7, <1>1 DEF LedgerInv
<1> QED
  BY <1>0, <1>3, <1>4, <1>5, <1>6, <1>7, <1>8, <1>9, Shapes

\* Kitchen slots and active reservations always match, for any number of
\* concurrent requests and failures, without bound on orders or capacity.
THEOREM SlotsCorrect == Spec => []SlotsMatchActive
<1>1. LedgerInv => SlotsMatchActive
  BY DEF LedgerInv, SlotInv
<1> QED
  BY <1>1, LedgerInit, LedgerStep, PTL DEF Spec

\* A reservation that was released, consumed or expired never changes again.
THEOREM EndsOnceCorrect == Spec => EndsOnce
<1> DEFINE Kept == \A o \in Orders : resv[o] \in Ended => resv'[o] = resv[o]
<1>1. LedgerInv /\ [Next]_vars => [Kept]_vars
  <2> SUFFICES ASSUME LedgerInv, Next PROVE Kept
    OBVIOUS
  <2>1. LedgerTypeOK /\ batch \subseteq Orders /\ EndingInv
    BY DEF LedgerInv
  <2>2. ASSUME NEW p \in Procs, Inserted(p) PROVE Kept
    BY <2>1, <2>2 DEF Inserted, LedgerTypeOK, Ended
  <2>3. ASSUME NEW p \in Procs, FreeSlot(p) PROVE Kept
    <3>1. resv[tx[p].order] = "active" /\ resv' = [resv EXCEPT ![tx[p].order] = tx[p].target]
      BY <2>1, <2>3 DEF FreeSlot, EndingInv, Ending
    <3> QED
      BY <3>1, <2>1 DEF LedgerTypeOK, Ended
  <2>4. ASSUME UNCHANGED resv PROVE Kept
    BY <2>4
  <2> QED
    BY <2>1, <2>2, <2>3, <2>4, Shapes DEF Quiet, Dropped, Moved, Reserve, Opened,
       FinishReservation, books
<1>2. [Kept]_vars => [\A o \in Orders : resv[o] \in {"released", "consumed", "expired"}
                                            => resv'[o] = resv[o]]_vars
  BY DEF Ended
<1> QED
  BY <1>1, <1>2, LedgerInit, LedgerStep, PTL DEF Spec, EndsOnce

-----------------------------------------------------------------------------
(* Capacity.  From occupy_slot to its commit a reserve holds the load row, so *)
(* the room it saw is still there when it commits.                            *)

Room == IF capacity = 0 THEN DefaultCapacity ELSE capacity
LoadInv ==
    /\ \A p \in Procs : HoldsLoad(p) => active < Room
    /\ \A p, q \in Procs : HoldsLoad(p) /\ HoldsLoad(q) => p = q

\* Every step keeps the room a reserve has seen.
LEMMA LoadStep ==
    ASSUME LedgerInv, LoadInv, Next
    PROVE  LoadInv' /\ (active' > active => active' <= capacity')
<1> USE LevelsAssumption DEF books, HoldsLoad, Room
<1>0. LedgerTypeOK
  BY DEF LedgerInv
<1>1. ASSUME UNCHANGED <<active, capacity>>,
             NEW p \in Procs, \A q \in Procs : q # p => tx'[q] = tx[q],
             tx'[p].at \in {"precheck", "decrement", "insert"} => HoldsLoad(p)
      PROVE  LoadInv' /\ (active' > active => active' <= capacity')
  BY <1>1, <1>0 DEF LoadInv, LedgerTypeOK
<1>2. ASSUME NEW p \in Procs, Rollback(p) \/ Fail(p)
      PROVE  LoadInv' /\ (active' > active => active' <= capacity')
  <2>1. tx'[p].at = "idle" /\ \A q \in Procs : q # p => tx'[q] = tx[q]
    BY <1>2, <1>0, IdleFacts DEF Rollback, Finished, Fail, LedgerTypeOK
  <2> QED
    BY <1>2, <1>1, <2>1 DEF Rollback, Fail
<1>3. CASE Saga
  <2>1. PICK p \in Workers, o \in Orders : Reserve(p, o) \/ Release(p, o) \/ Commit(p, o)
    BY <1>3 DEF Saga
  <2>2. p \in Procs
    BY DEF Procs
  <2>3. /\ UNCHANGED <<active, capacity>>
        /\ \E at \in {"occupy", "restore", "free"}, t \in Statuses :
              tx' = [tx EXCEPT ![p] = Tx(at, o, 1, t)]
    <3>1. CASE Reserve(p, o)
      BY <3>1 DEF Reserve, Statuses
    <3>2. CASE Release(p, o)
      BY <3>2 DEF Release, FinishReservation, Statuses
    <3>3. CASE Commit(p, o)
      BY <3>3 DEF Commit, FinishReservation, Statuses
    <3> QED
      BY <2>1, <3>1, <3>2, <3>3
  <2>4. tx'[p].at \in {"occupy", "restore", "free"} /\ \A q \in Procs : q # p => tx'[q] = tx[q]
    <3>1. PICK at \in {"occupy", "restore", "free"}, t \in Statuses :
             tx' = [tx EXCEPT ![p] = Tx(at, o, 1, t)]
      BY <2>3
    <3>2. at \in Places
      BY DEF Places
    <3>3. tx'[p].at = at /\ \A q \in Procs : q # p => tx'[q] = tx[q]
      BY <2>2, <3>1, <3>2, <1>0, BeginFacts DEF LedgerTypeOK
    <3> QED
      BY <3>3
  <2> QED
    BY <2>2, <2>3, <2>4, <1>1
<1>4. CASE Steps
  <2>1. PICK p \in Procs : Step(p) \/ DeadlockVictim(p) \/ Crash(p)
    BY <1>4 DEF Steps
  <2>2. tx[p].line \in Nat
    BY <1>0 DEF LedgerTypeOK, Transactions
  <2>3. ASSUME NEW at \in Places, NEW k \in Nat, Goto(p, at, k), UNCHANGED books,
               at \in {"precheck", "decrement", "insert"} => HoldsLoad(p)
        PROVE  LoadInv' /\ (active' > active => active' <= capacity')
    <3>1. tx'[p].at = at /\ \A q \in Procs : q # p => tx'[q] = tx[q]
      BY <2>3, <1>0, GotoFacts DEF LedgerTypeOK
    <3> QED
      BY <2>3, <3>1, <1>1
  <2>4. CASE DeadlockVictim(p) \/ Crash(p)
    BY <2>4, <1>2 DEF DeadlockVictim, Crash
  <2>5. CASE OccupySlot(p)
    <3>1. CASE Rollback(p)
      BY <3>1, <1>2
    <3>2. CASE Goto(p, "precheck", 1) /\ UNCHANGED books /\ active < Room
      <4>1. tx'[p].at = "precheck" /\ \A q \in Procs : q # p => tx'[q] = tx[q]
        BY <3>2, <1>0, GotoFacts DEF LedgerTypeOK, Places
      <4>2. \A q \in Procs : q # p => ~HoldsLoad(q)
        BY <2>5 DEF OccupySlot, Unblocked, Blocks
      <4> QED
        BY <3>2, <4>1, <4>2, <1>0 DEF LoadInv, LedgerTypeOK
    <3> QED
      BY <2>5, <3>1, <3>2 DEF OccupySlot
  <2>6. CASE PreCheck(p)
    BY <2>6, <2>3, <1>2 DEF PreCheck, Places
  <2>7. CASE DecrementStock(p)
    <3>1. \/ Rollback(p)
          \/ \E at \in {"insert", "decrement"} : Goto(p, at, tx[p].line + 1) /\ UNCHANGED books
      BY <2>7 DEF DecrementStock
    <3> QED
      BY <3>1, <2>2, <2>3, <2>7, <1>2 DEF DecrementStock, Places
  <2>8. CASE InsertReservation(p)
    <3>1. CASE Rollback(p)
      BY <3>1, <1>2
    <3>2. CASE active' = active + 1 /\ capacity' = Room /\ Finished(p)
      <4>1. tx'[p].at = "idle" /\ \A q \in Procs : q # p => tx'[q] = tx[q]
        BY <3>2, <1>0, IdleFacts DEF Finished, LedgerTypeOK
      <4>2. HoldsLoad(p) /\ active < Room
        BY <2>8 DEF InsertReservation, LoadInv
      <4>3. \A q \in Procs : ~(tx'[q].at \in {"precheck", "decrement", "insert"})
        BY <4>1, <4>2 DEF LoadInv
      <4> QED
        BY <3>2, <4>2, <4>3, <1>0 DEF LoadInv, LedgerTypeOK
    <3> QED
      BY <2>8, <3>1, <3>2 DEF InsertReservation
  <2>9. CASE IncrementStock(p)
    <3>1. \E at \in {"restore", "free"} : Goto(p, at, tx[p].line + 1) /\ UNCHANGED books
      BY <2>9 DEF IncrementStock
    <3> QED
      BY <3>1, <2>2, <2>3 DEF Places
  <2>10. CASE FreeSlot(p)
    <3>1. tx'[p].at = "idle" /\ \A q \in Procs : q # p => tx'[q] = tx[q]
      BY <2>10, <1>0, IdleFacts DEF FreeSlot, Finished, LedgerTypeOK
    <3>2. active' <= active /\ active' \in Nat /\ UNCHANGED capacity
      BY <2>10, <1>0 DEF FreeSlot, LedgerTypeOK
    <3> QED
      BY <3>1, <3>2, <1>0 DEF LoadInv, LedgerTypeOK
  <2> QED
    BY <2>1, <2>4, <2>5, <2>6, <2>7, <2>8, <2>9, <2>10 DEF Step
<1>5. CASE Admin
  <2>1. CASE \E i \in Items, n \in StockLevels : SetStock(i, n)
    BY <2>1, <1>0 DEF SetStock, LoadInv, LedgerTypeOK
  <2>2. CASE \E n \in Capacities : SetCapacity(n)
    BY <2>2, <1>0 DEF SetCapacity, LoadInv, LedgerTypeOK
  <2>3. CASE \E menu \in SUBSET Items : Provision(menu)
    BY <2>3, <1>0 DEF Provision, LoadInv, LedgerTypeOK
  <2> QED
    BY <1>5, <2>1, <2>2, <2>3 DEF Admin
<1>6. CASE Expiry
  <2>1. CASE ReaperRelease
    <3>1. PICK o \in Orders :
             \/ FinishReservation(Reaper, o, "expired") 
             \/ UNCHANGED <<books, tx>>
      BY <2>1 DEF ReaperRelease, LedgerInv
    <3>2. CASE FinishReservation(Reaper, o, "expired")
      <4>1. Reaper \in Procs /\ tx' = [tx EXCEPT ![Reaper] = Tx("restore", o, 1, "expired")]
        BY <3>2 DEF FinishReservation, Procs
      <4>2. tx'[Reaper].at = "restore" /\ \A q \in Procs : q # Reaper => tx'[q] = tx[q]
        BY <4>1, <1>0, BeginFacts DEF LedgerTypeOK, Places, Statuses
      <4> QED
        BY <3>2, <4>1, <4>2, <1>1 DEF FinishReservation
    <3>3. CASE UNCHANGED <<books, tx>>
      BY <3>3, <1>0 DEF LoadInv, LedgerTypeOK
    <3> QED
      BY <3>1, <3>2, <3>3
  <2>2. CASE ReaperPass \/ \E o \in Orders : TimePasses(o)
    BY <2>2, <1>0 DEF ReaperPass, TimePasses, LoadInv, LedgerTypeOK
  <2> QED
    BY <1>6, <2>1, <2>2 DEF Expiry
<1> QED
  BY <1>3, <1>4, <1>5, <1>6 DEF Next

\* No reserve ever commits a slot beyond the capacity of that moment.
THEOREM CapacityCorrect == Spec => CapacityRespected
<1>1. Init => LoadInv
  BY DEF Init, LoadInv, HoldsLoad, Idle
<1>2. LedgerInv /\ LoadInv /\ [Next]_vars => LoadInv' /\ [active' > active => active' <= capacity']_vars
  <2> SUFFICES ASSUME LedgerInv, LoadInv, [Next]_vars
               PROVE  LoadInv' /\ [active' > active => active' <= capacity']_vars
    OBVIOUS
  <2>1. CASE Next
    BY <2>1, LoadStep
  <2>2. CASE UNCHANGED vars
    BY <2>2 DEF vars, books, LoadInv, HoldsLoad, Room
  <2> QED
    BY <2>1, <2>2
<1> QED
  BY <1>1, <1>2, LedgerInit, LedgerStep, PTL DEF Spec, CapacityRespected

-----------------------------------------------------------------------------
(* Sums over finite sets. *)

\* g gives the sum of h over each subset of D.
Adds(g, h, D) ==
    /\ g \in [SUBSET D -> Nat]
    /\ g[{}] = 0
    /\ \A s \in SUBSET D : \A x \in s : g[s] = h[x] + g[s \ {x}]

\* it computes such sums as the fold of FiniteSetsExt does.
Folds(it, h, S) ==
    it = [s \in SUBSET S |-> IF s = {} THEN 0
                             ELSE LET x == CHOOSE x \in s : TRUE IN h[x] + it[s \ {x}]]

\* A finite set has a minimal subset among those that lack what {} has.
LEMMA SmallestSet ==
    ASSUME NEW D, IsFiniteSet(D), NEW Bad \in SUBSET (SUBSET D), Bad # {}
    PROVE  \E T \in Bad : \A U \in SUBSET T : U # T => U \notin Bad
<1>1. IsWellFoundedOn(StrictSubsetOrdering(D), SUBSET D)
  BY FS_StrictSubsetOrderingWellFounded, FS_FiniteSubsetsOfFinite
<1>2. PICK T \in Bad : \A U \in Bad : ~(<<U, T>> \in StrictSubsetOrdering(D))
  BY <1>1, WFMin
<1>3. ASSUME NEW U \in SUBSET T, U # T PROVE U \notin Bad
  BY <1>2, <1>3 DEF StrictSubsetOrdering
<1> QED
  BY <1>3

\* Every function to numbers on a finite set has sums.
LEMMA SumExists ==
    ASSUME NEW D, IsFiniteSet(D), NEW h, \A x \in D : h[x] \in Nat
    PROVE  \E g : Adds(g, h, D)
<1> DEFINE Bad == {T \in SUBSET D : ~ \E g : Adds(g, h, T)}
<1> SUFFICES ASSUME Bad # {} PROVE FALSE
  BY DEF Bad
<1>1. PICK T \in Bad : \A U \in SUBSET T : U # T => U \notin Bad
  <2>1. Bad \in SUBSET (SUBSET D)
    OBVIOUS
  <2> HIDE DEF Bad
  <2> QED
    BY <2>1, SmallestSet
<1>2. CASE T = {}
  <2>1. Adds([s \in SUBSET T |-> 0], h, T)
    BY <1>2 DEF Adds
  <2> QED
    BY <2>1
<1>3. CASE T # {}
  <2>1. PICK x \in T : TRUE
    BY <1>3
  <2>2. T \ {x} \in SUBSET D /\ T \ {x} \notin Bad
    BY <1>1, <2>1
  <2>3. PICK g : Adds(g, h, T \ {x})
    BY <2>2
  <2> DEFINE k == [s \in SUBSET T |-> IF x \in s THEN h[x] + g[s \ {x}] ELSE g[s]]
  <2>4. h[x] \in Nat /\ \A s \in SUBSET (T \ {x}) : g[s] \in Nat
    BY <2>1, <2>3 DEF Adds
  <2>5. \A s \in SUBSET T : s \ {x} \in SUBSET (T \ {x}) /\ (x \notin s => s \in SUBSET (T \ {x}))
    OBVIOUS
  <2>6. k \in [SUBSET T -> Nat]
    BY <2>4, <2>5
  <2>7. k[{}] = 0
    BY <2>3 DEF Adds
  <2>8. ASSUME NEW s \in SUBSET T, NEW y \in s PROVE k[s] = h[y] + k[s \ {y}]
    <3>1. s \ {y} \in SUBSET T
      OBVIOUS
    <3>2. CASE y = x
      BY <3>1, <3>2
    <3>3. CASE y # x /\ x \notin s
      <4>1. g[s] = h[y] + g[s \ {y}]
        BY <2>3, <2>5, <3>3 DEF Adds
      <4> QED
        BY <4>1, <3>1, <3>3
    <3>4. CASE y # x /\ x \in s
      <4>1. g[s \ {x}] = h[y] + g[(s \ {x}) \ {y}]
        BY <2>3, <2>5, <3>4 DEF Adds
      <4>2. (s \ {x}) \ {y} = (s \ {y}) \ {x}
        OBVIOUS
      <4>3. k[s] = h[x] + g[s \ {x}] /\ k[s \ {y}] = h[x] + g[(s \ {y}) \ {x}]
        BY <3>1, <3>4
      <4>4. h[y] \in Nat /\ g[(s \ {y}) \ {x}] \in Nat
        <5>1. y \in D /\ (s \ {y}) \ {x} \in SUBSET (T \ {x})
          OBVIOUS
        <5> QED
          BY <5>1, <2>4
      <4>5. \A a, b, c \in Nat : a + (b + c) = b + (a + c)
        OBVIOUS
      <4> HIDE DEF k
      <4>6. k[s] = h[x] + (h[y] + g[(s \ {y}) \ {x}])
        BY <4>1, <4>2, <4>3
      <4> QED
        BY <4>3, <4>4, <4>5, <4>6, <2>4
    <3> QED
      BY <3>2, <3>3, <3>4
  <2>9. Adds(k, h, T)
    <3> HIDE DEF k
    <3> QED
      BY <2>6, <2>7, <2>8 DEF Adds
  <2> QED
    BY <2>9
<1> QED
  BY <1>2, <1>3

\* What a fold over any choice of elements computes is the sum.
LEMMA FoldAdds ==
    ASSUME NEW D, NEW h, NEW g, Adds(g, h, D), NEW S \in SUBSET D, IsFiniteSet(S), NEW it,
           Folds(it, h, S)
    PROVE  \A s \in SUBSET S : it[s] = g[s]
<1> USE DEF Folds
<1> DEFINE Bad == {s \in SUBSET S : it[s] # g[s]}
<1> SUFFICES ASSUME Bad # {} PROVE FALSE
  BY DEF Bad
<1>1. PICK s \in Bad : \A u \in SUBSET s : u # s => u \notin Bad
  <2>1. Bad \in SUBSET (SUBSET S)
    OBVIOUS
  <2> HIDE DEF Bad
  <2> QED
    BY <2>1, SmallestSet
<1>2. CASE s = {}
  <2>1. it[s] = 0
    BY <1>2
  <2> QED
    BY <1>1, <1>2, <2>1 DEF Adds
<1>3. CASE s # {}
  <2> DEFINE x == CHOOSE x \in s : TRUE
  <2>1. x \in s
    BY <1>3
  <2>2. it[s] = h[x] + it[s \ {x}]
    BY <1>1, <1>3
  <2> HIDE DEF x
  <2>3. s \ {x} \in SUBSET S /\ s \in SUBSET D
    BY <1>1
  <2>4. it[s \ {x}] = g[s \ {x}]
    <3>1. s \ {x} \in SUBSET s /\ s \ {x} # s
      BY <2>1
    <3> QED
      BY <3>1, <2>3, <1>1
  <2>5. g[s] = h[x] + g[s \ {x}]
    BY <2>1, <2>3 DEF Adds
  <2> QED
    BY <1>1, <2>2, <2>4, <2>5
<1> QED
  BY <1>2, <1>3

\* A sum obeys the fold's recursion.
LEMMA AddsFolds ==
    ASSUME NEW D, NEW h, NEW g, Adds(g, h, D), NEW S \in SUBSET D
    PROVE  Folds([s \in SUBSET S |-> g[s]], h, S)
<1> DEFINE r == [s \in SUBSET S |-> g[s]]
<1>1. ASSUME NEW s \in SUBSET S
      PROVE  g[s] = IF s = {} THEN 0 ELSE LET x == CHOOSE x \in s : TRUE IN h[x] + r[s \ {x}]
  <2>1. CASE s = {}
    BY <2>1 DEF Adds
  <2>2. CASE s # {}
    <3> DEFINE x == CHOOSE x \in s : TRUE
    <3>1. x \in s
      BY <2>2
    <3> HIDE DEF x
    <3>2. g[s] = h[x] + g[s \ {x}] /\ r[s \ {x}] = g[s \ {x}]
      BY <3>1 DEF Adds
    <3> USE DEF x
    <3> QED
      BY <3>2, <2>2
  <2> QED
    BY <2>1, <2>2
<1> QED
  BY <1>1 DEF Folds

-----------------------------------------------------------------------------
(* What an order asks for. *)

Named(o, i, n) == {k \in 1..n : Lines[o][k].item = i}
Quantity(o) == [k \in DOMAIN Lines[o] |-> Lines[o][k].qty]

\* An order has lines, each of an item and a quantity.
LEMMA LineTypes ==
    ASSUME NEW o \in Orders
    PROVE  /\ Len(Lines[o]) \in Nat \ {0} /\ DOMAIN Lines[o] = 1..Len(Lines[o])
           /\ \A k \in 1..Len(Lines[o]) : Lines[o][k].qty \in Nat \ {0} /\ Lines[o][k].item \in Items
<1>1. Lines[o] \in Seq([item : Items, qty : Nat \ {0}]) /\ Lines[o] # << >>
  BY LinesAssumption
<1>2. Len(Lines[o]) \in Nat \ {0}
  BY <1>1, EmptySeq
<1>3. DOMAIN Lines[o] = 1..Len(Lines[o])
  BY <1>1, LenProperties
<1>4. \A k \in 1..Len(Lines[o]) : Lines[o][k] \in [item : Items, qty : Nat \ {0}]
  BY <1>1, ElementOfSeq
<1> QED
  BY <1>2, <1>3, <1>4

\* What the first lines ask for is the sum of their quantities.
LEMMA AskedIsSum ==
    ASSUME NEW o \in Orders, NEW g, Adds(g, Quantity(o), DOMAIN Lines[o]),
           NEW i, NEW n \in 0..Len(Lines[o])
    PROVE  Asked(o, i, n) = g[Named(o, i, n)]
<1> DEFINE S == Named(o, i, n)
           Eq(it) == it = [s \in SUBSET S |-> IF s = {} THEN 0
                             ELSE LET x == CHOOSE x \in s : TRUE IN Lines[o][x].qty + it[s \ {x}]]
           it0 == CHOOSE it : Eq(it)
<1>1. Asked(o, i, n) = it0[S]
  BY Zenon DEF Asked, Named, MapThenSumSet, MapThenFoldSet
<1>2. S \in SUBSET (DOMAIN Lines[o]) /\ IsFiniteSet(S)
  <2>1. Len(Lines[o]) \in Nat /\ DOMAIN Lines[o] = 1..Len(Lines[o])
    BY LineTypes
  <2>2. S \in SUBSET (1..n) /\ IsFiniteSet(1..n)
    BY <2>1, FS_Interval DEF Named
  <2> QED
    BY <2>1, <2>2, FS_Subset
<1>3. ASSUME NEW it PROVE Eq(it) <=> Folds(it, Quantity(o), S)
  <2>1. ASSUME NEW s \in SUBSET S, s # {}
        PROVE  LET x == CHOOSE x \in s : TRUE IN Quantity(o)[x] = Lines[o][x].qty
    <3> DEFINE x == CHOOSE x \in s : TRUE
    <3>1. x \in DOMAIN Lines[o]
      BY <2>1, <1>2
    <3> HIDE DEF x
    <3>2. Quantity(o)[x] = Lines[o][x].qty
      BY <3>1 DEF Quantity
    <3> QED
      BY <3>2 DEF x
  <2> HIDE DEF S
  <2> QED
    BY <2>1 DEF Folds
<1> HIDE DEF S
<1>4. Folds([s \in SUBSET S |-> g[s]], Quantity(o), S)
  BY <1>2, AddsFolds
<1> HIDE DEF Eq
<1>5. Eq(it0)
  BY <1>3, <1>4
<1>6. Folds(it0, Quantity(o), S)
  BY <1>3, <1>5
<1> HIDE DEF it0
<1>7. \A s \in SUBSET S : it0[s] = g[s]
  BY <1>6, <1>2, FoldAdds
<1> QED
  BY <1>1, <1>7 DEF S

\* The first lines of an order ask for a number; none that names the item asks
\* for nothing; one more line adds its quantity.
LEMMA AskedFacts ==
    ASSUME NEW o \in Orders, NEW i
    PROVE  /\ \A n \in 0..Len(Lines[o]) :
                 /\ Asked(o, i, n) \in Nat
                 /\ (\A k \in 1..n : Lines[o][k].item # i) => Asked(o, i, n) = 0
           /\ \A n \in 1..Len(Lines[o]) :
                 Asked(o, i, n) = Asked(o, i, n - 1)
                                  + (IF Lines[o][n].item = i THEN Lines[o][n].qty ELSE 0)
<1>1. /\ Len(Lines[o]) \in Nat \ {0} /\ DOMAIN Lines[o] = 1..Len(Lines[o])
      /\ \A k \in 1..Len(Lines[o]) : Lines[o][k].qty \in Nat \ {0}
  BY LineTypes
<1>2. PICK g : Adds(g, Quantity(o), DOMAIN Lines[o])
  <2>1. IsFiniteSet(DOMAIN Lines[o])
    BY <1>1, FS_Interval
  <2>2. \A k \in DOMAIN Lines[o] : Quantity(o)[k] \in Nat
    BY <1>1 DEF Quantity
  <2> QED
    BY <2>1, <2>2, SumExists
<1>3. \A n \in 0..Len(Lines[o]) :
         Asked(o, i, n) = g[Named(o, i, n)] /\ Named(o, i, n) \in SUBSET (DOMAIN Lines[o])
  <2>1. ASSUME NEW n \in 0..Len(Lines[o])
        PROVE  Asked(o, i, n) = g[Named(o, i, n)] /\ Named(o, i, n) \in SUBSET (DOMAIN Lines[o])
    <3>1. Asked(o, i, n) = g[Named(o, i, n)]
      BY <1>2, AskedIsSum
    <3>2. \A k \in 1..n : k \in 1..Len(Lines[o])
      BY <1>1
    <3> QED
      BY <1>1, <3>1, <3>2 DEF Named
  <2> QED
    BY <2>1
<1>4. ASSUME NEW n \in 0..Len(Lines[o])
      PROVE  Asked(o, i, n) \in Nat /\ ((\A k \in 1..n : Lines[o][k].item # i) => Asked(o, i, n) = 0)
  <2>1. Asked(o, i, n) \in Nat
    BY <1>2, <1>3 DEF Adds
  <2>2. ASSUME \A k \in 1..n : Lines[o][k].item # i PROVE Asked(o, i, n) = 0
    <3>1. Named(o, i, n) = {}
      BY <2>2 DEF Named
    <3> QED
      BY <3>1, <1>2, <1>3 DEF Adds
  <2> QED
    BY <2>1, <2>2
<1>5. ASSUME NEW n \in 1..Len(Lines[o])
      PROVE  Asked(o, i, n) = Asked(o, i, n - 1)
                              + (IF Lines[o][n].item = i THEN Lines[o][n].qty ELSE 0)
  <2>1. n \in 0..Len(Lines[o]) /\ n - 1 \in 0..Len(Lines[o])
    BY <1>1
  <2>2. Asked(o, i, n) = g[Named(o, i, n)] /\ Asked(o, i, n - 1) = g[Named(o, i, n - 1)]
    BY <1>3, <2>1
  <2>3. CASE Lines[o][n].item = i
    <3>1. n \in Named(o, i, n) /\ Named(o, i, n - 1) = Named(o, i, n) \ {n}
      BY <1>1, <2>3 DEF Named
    <3>2. g[Named(o, i, n)] = Quantity(o)[n] + g[Named(o, i, n) \ {n}]
      BY <3>1, <2>1, <1>2, <1>3 DEF Adds
    <3>3. Quantity(o)[n] = Lines[o][n].qty /\ Lines[o][n].qty \in Nat
      BY <1>1 DEF Quantity
    <3>4. Asked(o, i, n - 1) \in Nat
      BY <1>4, <2>1
    <3>5. g[Named(o, i, n)] = Lines[o][n].qty + Asked(o, i, n - 1)
      BY <2>2, <3>1, <3>2, <3>3
    <3>6. \A a, b \in Nat : a + b = b + a
      OBVIOUS
    <3> QED
      BY <2>2, <2>3, <3>3, <3>4, <3>5, <3>6
  <2>4. CASE Lines[o][n].item # i
    <3>1. Named(o, i, n - 1) = Named(o, i, n)
      BY <1>1, <2>4 DEF Named
    <3>2. Asked(o, i, n - 1) \in Nat
      BY <1>4, <2>1
    <3> QED
      BY <2>2, <2>4, <3>1, <3>2
  <2> QED
    BY <2>3, <2>4
<1> QED
  BY <1>4, <1>5

\* An order asks for a number of each item.
LEMMA TotalType == ASSUME NEW o \in Orders, NEW i PROVE Total(o, i) \in Nat
<1>1. Len(Lines[o]) \in 0..Len(Lines[o])
  BY LineTypes
<1> QED
  BY <1>1, AskedFacts DEF Total

\* What the orders of a set ask for.
Reserved(i, H) == MapThenSumSet(LAMBDA o : Total(o, i), H)
Demand(i) == [o \in Orders |-> Total(o, i)]

\* The fold over a set of orders is the sum of what they ask for.
LEMMA ReservedIsSum ==
    ASSUME NEW i, NEW D \in SUBSET Orders, NEW g, Adds(g, Demand(i), D),
           NEW S \in SUBSET D, IsFiniteSet(S)
    PROVE  Reserved(i, S) = g[S]
<1> DEFINE Eq(it) == it = [s \in SUBSET S |-> IF s = {} THEN 0
                             ELSE LET x == CHOOSE x \in s : TRUE IN Total(x, i) + it[s \ {x}]]
           it0 == CHOOSE it : Eq(it)
<1>1. Reserved(i, S) = it0[S]
  BY Zenon DEF Reserved, MapThenSumSet, MapThenFoldSet
<1>2. ASSUME NEW it PROVE Eq(it) <=> Folds(it, Demand(i), S)
  <2>1. ASSUME NEW s \in SUBSET S, s # {}
        PROVE  LET x == CHOOSE x \in s : TRUE IN Demand(i)[x] = Total(x, i)
    <3> DEFINE x == CHOOSE x \in s : TRUE
    <3>1. x \in Orders
      BY <2>1
    <3> HIDE DEF x
    <3>2. Demand(i)[x] = Total(x, i)
      BY <3>1 DEF Demand
    <3> QED
      BY <3>2 DEF x
  <2> QED
    BY <2>1, ZenonT(30) DEF Folds
<1>3. Folds([s \in SUBSET S |-> g[s]], Demand(i), S)
  BY AddsFolds
<1> HIDE DEF Eq
<1>4. Eq(it0)
  BY <1>2, <1>3
<1>5. Folds(it0, Demand(i), S)
  BY <1>2, <1>4
<1> HIDE DEF it0
<1>6. \A s \in SUBSET S : it0[s] = g[s]
  BY <1>5, FoldAdds
<1> QED
  BY <1>1, <1>6

\* One more order reserves what it asks for.
LEMMA ReservedFacts ==
    ASSUME NEW i, NEW H \in SUBSET Orders, IsFiniteSet(H)
    PROVE  /\ Reserved(i, H) \in Nat
           /\ H = {} => Reserved(i, H) = 0
           /\ \A o \in H : Reserved(i, H) = Total(o, i) + Reserved(i, H \ {o})
<1>1. PICK g : Adds(g, Demand(i), H)
  <2>1. \A o \in H : Demand(i)[o] \in Nat
    BY TotalType DEF Demand
  <2> QED
    BY <2>1, SumExists
<1>2. Reserved(i, H) = g[H]
  BY <1>1, ReservedIsSum
<1>3. ASSUME NEW o \in H PROVE Reserved(i, H) = Total(o, i) + Reserved(i, H \ {o})
  <2>1. H \ {o} \in SUBSET H /\ IsFiniteSet(H \ {o})
    BY FS_Subset
  <2>2. Reserved(i, H \ {o}) = g[H \ {o}]
    BY <2>1, <1>1, ReservedIsSum
  <2>3. Demand(i)[o] = Total(o, i)
    BY DEF Demand
  <2> QED
    BY <1>1, <1>2, <2>2, <2>3 DEF Adds
<1> QED
  BY <1>1, <1>2, <1>3 DEF Adds

-----------------------------------------------------------------------------
(* Stock.  From its first decrement to its commit a reserve holds the row of  *)
(* each item it has taken from, so nobody else has a claim on what it takes.  *)

Kept == Holding("active") \cup Holding("consumed")
Taking(p) == tx[p].at \in {"decrement", "insert"}

\* Where a transaction stands in its order's lines.
LineInv ==
    \A p \in Procs :
        /\ tx[p].at \in {"decrement", "restore"} => tx[p].line \in 1..Len(Lines[tx[p].order])
        /\ tx[p].at = "insert" => tx[p].line = Len(Lines[tx[p].order]) + 1

\* A stock row has one holder, and what a reserve has taken of it is there.
ClaimInv ==
    /\ \A p, q \in Procs, i \in Items : p # q => ~(HoldsStock(p, i) /\ HoldsStock(q, i))
    /\ \A p \in Procs : Taking(p) =>
          \A i \in Items : Asked(tx[p].order, i, tx[p].line - 1) <= avail[i]

\* An item without a row has no stock and is in no reservation that holds stock.
RowInv ==
    /\ rows \subseteq Items /\ avail \in [Items -> Nat] /\ supply \in [Items -> Nat]
    /\ \A i \in Items \ rows : avail[i] = 0 /\ \A o \in Kept : Total(o, i) = 0

\* What is on the shelf and what is kept add up to what was supplied.
Balanced(shelf, supplied, K) == \A i \in Items : shelf[i] + Reserved(i, K) = supplied[i]

StockInv ==
    /\ LineInv /\ ClaimInv /\ RowInv
    /\ IsFiniteSet(Kept) /\ Balanced(avail, supply, Kept)

\* A transaction that goes on leaves the stock right when it holds only rows that
\* it held or nobody does, and has taken no more than there is.
LEMMA StockMove ==
    ASSUME StockInv, UNCHANGED books, NEW p \in Procs,
           \A q \in Procs : q # p => tx'[q] = tx[q],
           tx'[p].at \in {"decrement", "restore"} => tx'[p].line \in 1..Len(Lines[tx'[p].order]),
           tx'[p].at = "insert" => tx'[p].line = Len(Lines[tx'[p].order]) + 1,
           \A i \in Items : HoldsStock(p, i)' => \A q \in Procs : q # p => ~HoldsStock(q, i),
           Taking(p)' => \A i \in Items : Asked(tx'[p].order, i, tx'[p].line - 1) <= avail[i]
    PROVE  StockInv'
<1>1. UNCHANGED <<rows, avail, resv, supply>>
  BY DEF books
<1>2. RowInv' /\ IsFiniteSet(Kept)' /\ Balanced(avail, supply, Kept)'
  <2>1. UNCHANGED Kept
    BY <1>1 DEF Kept, Holding
  <2> QED
    BY <1>1, <2>1 DEF StockInv, RowInv
<1>3. LineInv'
  BY DEF StockInv, LineInv
<1>4. \A q \in Procs, i \in Items : q # p => (HoldsStock(q, i)' <=> HoldsStock(q, i))
  BY DEF HoldsStock
<1>5. \A q, r \in Procs, i \in Items : q # r => ~(HoldsStock(q, i)' /\ HoldsStock(r, i)')
  BY <1>4 DEF StockInv, ClaimInv
<1>6. \A q \in Procs : Taking(q)' =>
         \A i \in Items : Asked(tx'[q].order, i, tx'[q].line - 1) <= avail[i]
  BY DEF StockInv, ClaimInv, Taking
<1> QED
  BY <1>1, <1>2, <1>3, <1>5, <1>6 DEF StockInv, ClaimInv

\* Nothing is there, held or kept.
LEMMA StockInit == Init => StockInv
<1> SUFFICES ASSUME Init PROVE StockInv
  OBVIOUS
<1>1. Kept = {}
  BY DEF Init, Kept, Holding
<1>2. IsFiniteSet(Kept) /\ \A i : Reserved(i, Kept) = 0
  BY <1>1, FS_EmptySet, ReservedFacts
<1>3. Balanced(avail, supply, Kept)
  BY <1>2 DEF Init, Balanced
<1>4. RowInv
  BY <1>1 DEF Init, RowInv
<1>5. LineInv /\ ClaimInv
  BY DEF Init, LineInv, ClaimInv, HoldsStock, Taking, Idle
<1> QED
  BY <1>2, <1>3, <1>4, <1>5 DEF StockInv

\* A transaction that has begun, failed or is over holds no stock.
LEMMA StockLeft ==
    ASSUME LedgerTypeOK, StockInv, UNCHANGED books, NEW p \in Procs,
           \/ tx' = [tx EXCEPT ![p] = Idle]
           \/ \E at \in Places \ {"decrement", "insert"}, o \in Orders, t \in Statuses :
                 tx' = [tx EXCEPT ![p] = Tx(at, o, 1, t)]
    PROVE  StockInv'
<1>1. CASE tx' = [tx EXCEPT ![p] = Idle]
  <2>1. tx'[p].at = "idle" /\ \A q \in Procs : q # p => tx'[q] = tx[q]
    BY <1>1, IdleFacts DEF LedgerTypeOK
  <2>2. ~Taking(p)' /\ \A i \in Items : ~HoldsStock(p, i)'
    BY <2>1 DEF Taking, HoldsStock
  <2> QED
    BY <2>1, <2>2, StockMove
<1>2. ASSUME NEW at \in Places \ {"decrement", "insert"}, NEW o \in Orders, NEW t \in Statuses,
             tx' = [tx EXCEPT ![p] = Tx(at, o, 1, t)]
      PROVE  StockInv'
  <2>1. tx'[p] = Tx(at, o, 1, t) /\ \A q \in Procs : q # p => tx'[q] = tx[q]
    BY <1>2 DEF LedgerTypeOK
  <2>2. tx'[p].at = at /\ tx'[p].line = 1 /\ tx'[p].order = o
    BY <2>1 DEF Tx
  <2>3. ~Taking(p)' /\ \A i \in Items : ~HoldsStock(p, i)'
    BY <2>2 DEF Taking, HoldsStock
  <2>4. 1 \in 1..Len(Lines[o])
    BY LineTypes
  <2> QED
    BY <2>1, <2>2, <2>3, <2>4, StockMove
<1> QED
  BY <1>1, <1>2

\* What a statement of reserve or release does to its place.
LEMMA StockGoto ==
    ASSUME LedgerTypeOK, NEW p \in Procs, NEW at \in Places, NEW k \in Nat, Goto(p, at, k)
    PROVE  /\ tx'[p].at = at /\ tx'[p].line = k /\ tx'[p].order = tx[p].order
           /\ \A q \in Procs : q # p => tx'[q] = tx[q]
BY DEF LedgerTypeOK, Goto, Tx, Transactions

\* The next line of a transaction that has its row: one more row is held.
LEMMA NextHeld ==
    ASSUME LedgerTypeOK, EndingInv, StockInv, NEW p \in Procs,
           tx[p].at \in {"decrement", "restore"}, Unblocked(p),
           NEW at \in {"decrement", "insert", "restore", "free"}, Goto(p, at, tx[p].line + 1)
    PROVE  /\ tx[p].order \in Orders /\ tx[p].line \in 1..Len(Lines[tx[p].order])
           /\ Len(Lines[tx[p].order]) \in Nat
           /\ tx'[p].at = at /\ tx'[p].line = tx[p].line + 1 /\ tx'[p].order = tx[p].order
           /\ \A q \in Procs : q # p => tx'[q] = tx[q]
           /\ \A i \in Items : HoldsStock(p, i)' => \A q \in Procs : q # p => ~HoldsStock(q, i)
<1>1. tx[p].order \in Orders /\ tx[p].line \in 1..Len(Lines[tx[p].order])
  BY DEF EndingInv, Ending, StockInv, LineInv
<1>2. Len(Lines[tx[p].order]) \in Nat
  BY <1>1, LineTypes
<1>3. tx[p].line + 1 \in Nat /\ at \in Places
  BY <1>1, <1>2 DEF Places
<1>4. /\ tx'[p].at = at /\ tx'[p].line = tx[p].line + 1 /\ tx'[p].order = tx[p].order
      /\ \A q \in Procs : q # p => tx'[q] = tx[q]
  BY <1>3, StockGoto
<1>5. ASSUME NEW i \in Items, HoldsStock(p, i)', NEW q \in Procs, q # p
      PROVE  ~HoldsStock(q, i)
  <2>1. PICK k \in 1..tx[p].line : Lines[tx[p].order][k].item = i
    BY <1>1, <1>2, <1>4, <1>5 DEF HoldsStock
  <2>2. CASE k = tx[p].line
    BY <2>1, <2>2, <1>5 DEF Unblocked, Blocks, NextItem
  <2>3. CASE k # tx[p].line
    <3>1. k \in 1..(tx[p].line - 1)
      BY <2>3, <1>1, <1>2
    <3>2. HoldsStock(p, i)
      BY <2>1, <3>1 DEF HoldsStock
    <3> QED
      BY <3>2, <1>5 DEF StockInv, ClaimInv
  <2> QED
    BY <2>2, <2>3
<1> QED
  BY <1>1, <1>2, <1>4, <1>5

\* decrement_stock: what is taken with this line is there.
LEMMA StockDecrement ==
    ASSUME LedgerTypeOK, EndingInv, StockInv, NEW p \in Procs, DecrementStock(p)
    PROVE  StockInv'
<1> DEFINE o == tx[p].order
           k == tx[p].line
<1>1. CASE Rollback(p)
  BY <1>1, StockLeft DEF Rollback, Finished
<1>2. CASE /\ avail[NextItem(p)] >= Asked(o, NextItem(p), k - 1) + NextQty(p)
           /\ Goto(p, IF k = Len(Lines[o]) THEN "insert" ELSE "decrement", k + 1)
           /\ UNCHANGED books
  <2> DEFINE at == IF k = Len(Lines[o]) THEN "insert" ELSE "decrement"
  <2>1. tx[p].at = "decrement" /\ Unblocked(p)
    BY DEF DecrementStock
  <2>2. /\ o \in Orders /\ k \in 1..Len(Lines[o]) /\ Len(Lines[o]) \in Nat
        /\ tx'[p].at = at /\ tx'[p].line = k + 1 /\ tx'[p].order = o
        /\ \A q \in Procs : q # p => tx'[q] = tx[q]
        /\ \A i \in Items : HoldsStock(p, i)' => \A q \in Procs : q # p => ~HoldsStock(q, i)
    <3>1. at \in {"decrement", "insert", "restore", "free"} /\ Goto(p, at, k + 1)
      BY <1>2
    <3> HIDE DEF at
    <3> QED
      BY <2>1, <3>1, NextHeld
  <2>3. ASSUME NEW i \in Items PROVE Asked(o, i, k) <= avail[i]
    <3>1. Asked(o, i, k - 1) <= avail[i]
      BY <2>1 DEF StockInv, ClaimInv, Taking
    <3>2. Asked(o, i, k) = Asked(o, i, k - 1)
                           + (IF Lines[o][k].item = i THEN Lines[o][k].qty ELSE 0)
      BY <2>2, AskedFacts, SMTT(30)
    <3>3. k - 1 \in 0..Len(Lines[o]) /\ Lines[o][k].qty \in Nat
      <4>1. k - 1 \in 0..Len(Lines[o])
        BY <2>2
      <4>2. Lines[o][k].qty \in Nat \ {0}
        BY <2>2, LineTypes
      <4> QED
        BY <4>1, <4>2
    <3>4. Asked(o, i, k - 1) \in Nat
      BY <3>3, <2>2, AskedFacts
    <3>5. avail[i] \in Nat
      BY DEF StockInv, RowInv
    <3>6. Lines[o][k].item = i => Asked(o, i, k - 1) + Lines[o][k].qty <= avail[i]
      BY <1>2 DEF NextItem, NextQty
    <3> QED
      BY <3>1, <3>2, <3>4, <3>6
  <2>4. (k + 1) - 1 = k /\ (k # Len(Lines[o]) => k + 1 \in 1..Len(Lines[o]))
    BY <2>2
  <2>5. /\ tx'[p].at \in {"decrement", "restore"} => tx'[p].line \in 1..Len(Lines[tx'[p].order])
        /\ tx'[p].at = "insert" => tx'[p].line = Len(Lines[tx'[p].order]) + 1
    BY <2>2, <2>4
  <2>6. \A i \in Items : Asked(tx'[p].order, i, tx'[p].line - 1) <= avail[i]
    BY <2>2, <2>3, <2>4
  <2> QED
    BY <1>2, <2>2, <2>5, <2>6, StockMove
<1> QED
  BY <1>1, <1>2 DEF DecrementStock

\* increment_stock holds one more row and changes none.
LEMMA StockIncrement ==
    ASSUME LedgerTypeOK, EndingInv, StockInv, NEW p \in Procs, IncrementStock(p)
    PROVE  StockInv'
<1> DEFINE o == tx[p].order
           k == tx[p].line
           at == IF k = Len(Lines[o]) THEN "free" ELSE "restore"
<1>1. tx[p].at = "restore" /\ Unblocked(p) /\ Goto(p, at, k + 1) /\ UNCHANGED books
  BY DEF IncrementStock
<1>2. at \in {"free", "restore"} /\ (at = "restore" => k # Len(Lines[o]))
  OBVIOUS
<1> HIDE DEF at
<1>3. /\ o \in Orders /\ k \in 1..Len(Lines[o]) /\ Len(Lines[o]) \in Nat
      /\ tx'[p].at = at /\ tx'[p].line = k + 1 /\ tx'[p].order = o
      /\ \A q \in Procs : q # p => tx'[q] = tx[q]
      /\ \A i \in Items : HoldsStock(p, i)' => \A q \in Procs : q # p => ~HoldsStock(q, i)
  BY <1>1, <1>2, NextHeld
<1>4. ~Taking(p)' /\ (at = "restore" => k + 1 \in 1..Len(Lines[o]))
  BY <1>2, <1>3 DEF Taking
<1> QED
  BY <1>1, <1>2, <1>3, <1>4, StockMove

\* Who has begun to take, but not this item, has taken none of it.
LEMMA NoClaim ==
    ASSUME EndingInv, StockInv, NEW p \in Procs, Taking(p), NEW i \in Items, ~HoldsStock(p, i)
    PROVE  Asked(tx[p].order, i, tx[p].line - 1) = 0
<1>1. tx[p].order \in Orders
  BY DEF EndingInv, Ending, Taking
<1>2. Len(Lines[tx[p].order]) \in Nat \ {0}
  BY <1>1, LineTypes
<1>3. tx[p].line - 1 \in 0..Len(Lines[tx[p].order])
  BY <1>2 DEF StockInv, LineInv, Taking
<1>4. \A k \in 1..(tx[p].line - 1) : Lines[tx[p].order][k].item # i
  BY DEF HoldsStock, Taking
<1> QED
  BY <1>1, <1>3, <1>4, AskedFacts

\* insert_reservation: what the shelf loses the order keeps.
LEMMA StockInsert ==
    ASSUME LedgerTypeOK, EndingInv, StockInv, NEW p \in Procs, InsertReservation(p)
    PROVE  StockInv'
<1> DEFINE o == tx[p].order
<1>1. CASE Rollback(p)
  BY <1>1, StockLeft DEF Rollback, Finished
<1>2. CASE /\ resv[o] = "none"
           /\ resv' = [resv EXCEPT ![o] = "active"]
           /\ avail' = [i \in Items |-> avail[i] - Total(o, i)]
           /\ Finished(p)
           /\ UNCHANGED <<rows, supply>>
  <2>1. tx[p].at = "insert" /\ o \in Orders
    BY DEF InsertReservation, EndingInv, Ending
  <2>2. tx'[p].at = "idle" /\ \A q \in Procs : q # p => tx'[q] = tx[q]
    BY <1>2, IdleFacts DEF Finished, LedgerTypeOK
  <2>3. Len(Lines[o]) \in Nat /\ tx[p].line - 1 = Len(Lines[o])
    <3>1. Len(Lines[o]) \in Nat /\ tx[p].line = Len(Lines[o]) + 1
      BY <2>1, LineTypes DEF StockInv, LineInv
    <3> QED
      BY <3>1
  <2>4. \A i \in Items : Total(o, i) \in Nat /\ avail[i] \in Nat /\ Total(o, i) <= avail[i]
    BY <2>1, <2>3, TotalType DEF StockInv, ClaimInv, Taking, Total, RowInv
  <2>5. Kept' = Kept \cup {o} /\ o \notin Kept /\ Kept \subseteq Orders
    BY <1>2, <2>1 DEF Kept, Holding, LedgerTypeOK
  <2>6. RowInv'
    <3>1. avail' \in [Items -> Nat]
      BY <1>2, <2>4
    <3>2. ASSUME NEW i \in Items \ rows PROVE avail'[i] = 0 /\ \A x \in Kept' : Total(x, i) = 0
      <4>1. avail[i] = 0 /\ \A x \in Kept : Total(x, i) = 0
        BY DEF StockInv, RowInv
      <4>2. Total(o, i) = 0
        BY <4>1, <2>4
      <4> QED
        BY <4>1, <4>2, <1>2, <2>5
    <3> QED
      BY <3>1, <3>2, <1>2 DEF StockInv, RowInv
  <2>7. IsFiniteSet(Kept)'
    BY <2>5, FS_AddElement DEF StockInv
  <2>8. Balanced(avail, supply, Kept)'
    <3>1. ASSUME NEW i \in Items PROVE avail'[i] + Reserved(i, Kept') = supply'[i]
      <4>1. Reserved(i, Kept') = Total(o, i) + Reserved(i, Kept)
        <5>1. Kept' \in SUBSET Orders /\ o \in Kept' /\ Kept' \ {o} = Kept
          BY <2>1, <2>5
        <5> QED
          BY <5>1, <2>7, ReservedFacts
      <4>2. Reserved(i, Kept) \in Nat
        BY <2>5, ReservedFacts DEF StockInv
      <4>3. avail[i] + Reserved(i, Kept) = supply[i]
        BY DEF StockInv, Balanced
      <4>4. avail'[i] = avail[i] - Total(o, i) /\ supply'[i] = supply[i]
        BY <1>2
      <4> QED
        BY <4>1, <4>2, <4>3, <4>4, <2>4
    <3> QED
      BY <3>1 DEF Balanced
  <2>9. LineInv'
    BY <2>2 DEF StockInv, LineInv
  <2>10. ASSUME NEW q \in Procs, NEW i \in Items, HoldsStock(q, i)' PROVE q # p /\ HoldsStock(q, i)
    BY <2>2, <2>10 DEF HoldsStock
  <2>11. ASSUME NEW q \in Procs, Taking(q)', NEW i \in Items
         PROVE  Asked(tx'[q].order, i, tx'[q].line - 1) <= avail'[i]
    <3>1. q # p /\ tx'[q] = tx[q] /\ Taking(q)
      BY <2>2, <2>11 DEF Taking
    <3>2. CASE HoldsStock(p, i)
      <4>1. Asked(tx[q].order, i, tx[q].line - 1) = 0
        BY <3>1, <3>2, NoClaim DEF StockInv, ClaimInv
      <4> QED
        BY <4>1, <3>1, <1>2, <2>4
    <3>3. CASE ~HoldsStock(p, i)
      <4>1. Asked(o, i, tx[p].line - 1) = 0
        BY <3>3, <2>1, NoClaim DEF Taking
      <4>2. avail'[i] = avail[i]
        BY <4>1, <2>3, <2>4, <1>2 DEF Total
      <4> QED
        BY <4>2, <3>1 DEF StockInv, ClaimInv
    <3> QED
      BY <3>2, <3>3
  <2>12. ClaimInv'
    BY <2>10, <2>11 DEF StockInv, ClaimInv
  <2> QED
    BY <2>6, <2>7, <2>8, <2>9, <2>12 DEF StockInv
<1> QED
  BY <1>1, <1>2 DEF InsertReservation

\* free_slot: a consumed reservation keeps its stock, any other gives it back.
LEMMA StockFree ==
    ASSUME LedgerTypeOK, EndingInv, StockInv, NEW p \in Procs, FreeSlot(p)
    PROVE  StockInv'
<1> DEFINE o == tx[p].order
           back == IF tx[p].target = "consumed" THEN {} ELSE rows
<1>1. o \in Orders /\ resv[o] = "active" /\ tx[p].target \in Ended
  BY DEF FreeSlot, EndingInv, Ending
<1>2. /\ resv' = [resv EXCEPT ![o] = tx[p].target]
      /\ avail' = [i \in Items |-> IF i \in back THEN avail[i] + Total(o, i) ELSE avail[i]]
      /\ tx' = [tx EXCEPT ![p] = Idle] /\ UNCHANGED <<rows, supply>>
  BY DEF FreeSlot, Finished
<1>3. tx'[p].at = "idle" /\ \A q \in Procs : q # p => tx'[q] = tx[q]
  BY <1>2, IdleFacts DEF LedgerTypeOK
<1>4. \A i \in Items : Total(o, i) \in Nat /\ avail[i] \in Nat
  BY <1>1, TotalType DEF StockInv, RowInv
<1>5. /\ o \in Kept /\ Kept \subseteq Orders
      /\ Kept' = IF tx[p].target = "consumed" THEN Kept ELSE Kept \ {o}
  BY <1>1, <1>2 DEF Kept, Holding, LedgerTypeOK, Ended
<1>6. \A i \in Items : avail'[i] \in Nat /\ avail[i] <= avail'[i]
  BY <1>2, <1>4
<1>7. RowInv'
  <2>1. avail' \in [Items -> Nat]
    BY <1>2, <1>4
  <2>2. ASSUME NEW i \in Items \ rows PROVE avail'[i] = 0 /\ \A x \in Kept' : Total(x, i) = 0
    BY <1>2, <1>5 DEF StockInv, RowInv
  <2> QED
    BY <2>1, <2>2, <1>2 DEF StockInv, RowInv
<1>8. IsFiniteSet(Kept)'
  BY <1>5, FS_Subset DEF StockInv
<1>9. ASSUME NEW i \in Items PROVE avail'[i] + Reserved(i, Kept') = supply'[i]
  <2>1. avail[i] + Reserved(i, Kept) = supply[i]
    BY DEF StockInv, Balanced
  <2>2. CASE tx[p].target = "consumed"
    BY <2>1, <2>2, <1>2, <1>5
  <2>3. CASE tx[p].target # "consumed"
    <3>1. Reserved(i, Kept) = Total(o, i) + Reserved(i, Kept')
      BY <2>3, <1>5, ReservedFacts DEF StockInv
    <3>2. Reserved(i, Kept') \in Nat
      BY <1>5, <1>8, ReservedFacts
    <3>3. i \notin rows => Total(o, i) = 0
      BY <1>5 DEF StockInv, RowInv
    <3>4. avail'[i] = avail[i] + Total(o, i)
      BY <2>3, <3>3, <1>2, <1>4
    <3> QED
      BY <2>1, <3>1, <3>2, <3>4, <1>2, <1>4
  <2> QED
    BY <2>2, <2>3
<1>10. Balanced(avail, supply, Kept)'
  BY <1>9 DEF Balanced
<1>11. LineInv'
  BY <1>3 DEF StockInv, LineInv
<1>12. ASSUME NEW q \in Procs, NEW i \in Items, HoldsStock(q, i)' PROVE q # p /\ HoldsStock(q, i)
  BY <1>3, <1>12 DEF HoldsStock
<1>13. ASSUME NEW q \in Procs, Taking(q)', NEW i \in Items
       PROVE  Asked(tx'[q].order, i, tx'[q].line - 1) <= avail'[i]
  <2>1. tx'[q] = tx[q] /\ Taking(q)
    BY <1>3, <1>13 DEF Taking
  <2>2. /\ Asked(tx[q].order, i, tx[q].line - 1) <= avail[i]
        /\ Asked(tx[q].order, i, tx[q].line - 1) \in Nat
    <3>1. tx[q].order \in Orders
      BY <2>1 DEF EndingInv, Ending, Taking
    <3>2. Len(Lines[tx[q].order]) \in Nat
      BY <3>1, LineTypes
    <3>3. tx[q].line - 1 \in 0..Len(Lines[tx[q].order])
      BY <3>2, <2>1 DEF StockInv, LineInv, Taking
    <3> QED
      BY <3>1, <3>3, <2>1, AskedFacts DEF StockInv, ClaimInv
  <2> QED
    BY <2>1, <2>2, <1>4, <1>6
<1>14. ClaimInv'
  BY <1>12, <1>13 DEF StockInv, ClaimInv
<1> QED
  BY <1>7, <1>8, <1>10, <1>11, <1>14 DEF StockInv

\* set_stock meets no holder of the row, so nobody has a claim on what it sets.
LEMMA StockSet ==
    ASSUME EndingInv, StockInv, NEW j \in Items, NEW n \in StockLevels, SetStock(j, n)
    PROVE  StockInv'
<1>1. /\ \A q \in Procs : ~HoldsStock(q, j)
      /\ rows' = rows \cup {j} /\ avail' = [avail EXCEPT ![j] = n]
      /\ supply' = [supply EXCEPT ![j] = supply[j] - avail[j] + n]
      /\ UNCHANGED <<resv, tx>>
  BY DEF SetStock
<1>2. n \in Nat /\ avail \in [Items -> Nat] /\ supply \in [Items -> Nat]
  BY LevelsAssumption DEF StockInv, RowInv
<1>3. UNCHANGED Kept /\ Kept \subseteq Orders
  BY <1>1 DEF Kept, Holding
<1>4. \A i \in Items : /\ Reserved(i, Kept) \in Nat
                       /\ avail[i] + Reserved(i, Kept) = supply[i]
  BY <1>3, ReservedFacts DEF StockInv, Balanced
<1>5. supply[j] - avail[j] + n = n + Reserved(j, Kept)
  BY <1>2, <1>4
<1>6. supply' \in [Items -> Nat]
  <2>1. n + Reserved(j, Kept) \in Nat
    BY <1>2, <1>4
  <2>2. supply' = [supply EXCEPT ![j] = n + Reserved(j, Kept)]
    BY <1>1, <1>5
  <2> QED
    BY <1>2, <2>1, <2>2
<1>7. RowInv'
  BY <1>1, <1>2, <1>3, <1>6 DEF StockInv, RowInv
<1>8. Balanced(avail, supply, Kept)'
  BY <1>1, <1>2, <1>3, <1>4, <1>5 DEF Balanced
<1>9. LineInv'
  BY <1>1 DEF StockInv, LineInv
<1>10. ASSUME NEW q \in Procs, Taking(q)', NEW i \in Items
       PROVE  Asked(tx'[q].order, i, tx'[q].line - 1) <= avail'[i]
  <2>1. tx'[q] = tx[q] /\ Taking(q)
    BY <1>1, <1>10 DEF Taking
  <2>2. CASE i = j
    <3>1. Asked(tx[q].order, i, tx[q].line - 1) = 0
      BY <2>1, <2>2, <1>1, NoClaim
    <3> QED
      BY <3>1, <2>1, <2>2, <1>1, <1>2
  <2>3. CASE i # j
    BY <2>1, <2>3, <1>1 DEF StockInv, ClaimInv
  <2> QED
    BY <2>2, <2>3
<1>11. ClaimInv'
  BY <1>1, <1>10 DEF StockInv, ClaimInv, HoldsStock
<1> QED
  BY <1>3, <1>7, <1>8, <1>9, <1>11 DEF StockInv

\* The stock as the same transactions and reservations see it: rows may be added.
LEMMA StockSame ==
    ASSUME StockInv, UNCHANGED <<avail, supply, resv, tx>>, rows \subseteq rows', rows' \subseteq Items
    PROVE  StockInv'
<1>1. UNCHANGED Kept
  BY DEF Kept, Holding
<1>2. LineInv' /\ ClaimInv'
  BY DEF StockInv, LineInv, ClaimInv, HoldsStock, Taking
<1>3. RowInv'
  BY <1>1 DEF StockInv, RowInv
<1> QED
  BY <1>1, <1>2, <1>3 DEF StockInv

\* occupy_slot and the pre-check hold no stock and take none.
LEMMA StockCheck ==
    ASSUME LedgerTypeOK, EndingInv, StockInv, NEW p \in Procs, OccupySlot(p) \/ PreCheck(p)
    PROVE  StockInv'
<1>1. CASE Rollback(p)
  BY <1>1, StockLeft DEF Rollback, Finished
<1>2. ASSUME NEW at \in {"precheck", "decrement"}, Goto(p, at, 1), UNCHANGED books
      PROVE  StockInv'
  <2>1. tx[p].order \in Orders
    BY DEF OccupySlot, PreCheck, EndingInv, Ending
  <2>2. /\ tx'[p].at = at /\ tx'[p].line = 1 /\ tx'[p].order = tx[p].order
        /\ \A q \in Procs : q # p => tx'[q] = tx[q]
    BY <1>2, StockGoto DEF Places
  <2>3. \A i \in Items : ~HoldsStock(p, i)'
    BY <2>2 DEF HoldsStock
  <2>4. \A i \in Items : Asked(tx[p].order, i, 1 - 1) <= avail[i]
    <3>1. Len(Lines[tx[p].order]) \in Nat
      BY <2>1, LineTypes
    <3>2. \A i \in Items : Asked(tx[p].order, i, 0) = 0
      <4>1. 0 \in 0..Len(Lines[tx[p].order]) /\ 1..0 = {}
        BY <3>1
      <4> QED
        BY <2>1, <4>1, AskedFacts, ZenonT(30)
    <3> QED
      BY <3>2 DEF StockInv, RowInv
  <2>5. 1 \in 1..Len(Lines[tx[p].order])
    BY <2>1, LineTypes
  <2> QED
    BY <1>2, <2>2, <2>3, <2>4, <2>5, StockMove
<1> QED
  BY <1>1, <1>2 DEF OccupySlot, PreCheck

\* Every step keeps the stock right.
LEMMA StockStep == LedgerInv /\ StockInv /\ [Next]_vars => StockInv'
<1> SUFFICES ASSUME LedgerInv, StockInv, [Next]_vars PROVE StockInv'
  OBVIOUS
<1>1. LedgerTypeOK /\ EndingInv /\ batch \subseteq Orders
  BY DEF LedgerInv
<1>2. rows \subseteq Items
  BY DEF StockInv, RowInv
<1>3. CASE UNCHANGED vars
  BY <1>2, <1>3, StockSame DEF vars, books
<1>4. ASSUME NEW p \in Procs, NEW o \in Orders, NEW t \in Statuses, FinishReservation(p, o, t)
      PROVE  StockInv'
  <2>1. PICK at \in {"free", "restore"} : tx' = [tx EXCEPT ![p] = Tx(at, o, 1, t)]
    BY <1>4 DEF FinishReservation
  <2>2. at \in Places \ {"decrement", "insert"} /\ UNCHANGED books
    BY <1>4 DEF FinishReservation, Places
  <2> QED
    BY <2>1, <2>2, <1>1, StockLeft
<1>5. CASE Saga
  <2>1. PICK p \in Workers, o \in Orders : Reserve(p, o) \/ Release(p, o) \/ Commit(p, o)
    BY <1>5 DEF Saga
  <2>2. p \in Procs
    BY DEF Procs
  <2>3. CASE Reserve(p, o)
    <3>1. tx' = [tx EXCEPT ![p] = Tx("occupy", o, 1, "active")] /\ UNCHANGED books
      BY <2>3 DEF Reserve
    <3>2. "occupy" \in Places \ {"decrement", "insert"} /\ "active" \in Statuses
      BY DEF Places, Statuses
    <3> QED
      BY <2>2, <3>1, <3>2, <1>1, StockLeft
  <2>4. CASE Release(p, o) \/ Commit(p, o)
    BY <2>2, <2>4, <1>4 DEF Release, Commit, Statuses
  <2> QED
    BY <2>1, <2>3, <2>4
<1>6. CASE Steps
  <2>1. PICK p \in Procs : Step(p) \/ DeadlockVictim(p) \/ Crash(p)
    BY <1>6 DEF Steps
  <2>2. CASE DeadlockVictim(p) \/ Crash(p)
    BY <2>2, <1>1, StockLeft DEF DeadlockVictim, Crash, Fail
  <2> QED
    BY <2>1, <2>2, <1>1, StockCheck, StockDecrement, StockInsert, StockIncrement, StockFree DEF Step
<1>7. CASE Admin
  <2>1. CASE \E i \in Items, n \in StockLevels : SetStock(i, n)
    BY <2>1, <1>1, StockSet
  <2>2. CASE \E n \in Capacities : SetCapacity(n)
    BY <2>2, <1>2, StockSame DEF SetCapacity
  <2>3. CASE \E menu \in SUBSET Items : Provision(menu)
    BY <2>3, <1>2, StockSame DEF Provision
  <2> QED
    BY <1>7, <2>1, <2>2, <2>3 DEF Admin
<1>8. CASE Expiry
  <2>1. CASE ReaperRelease
    <3>1. PICK o \in Orders :
             \/ FinishReservation(Reaper, o, "expired")
             \/ UNCHANGED <<books, tx>>
      BY <2>1, <1>1 DEF ReaperRelease
    <3>2. CASE FinishReservation(Reaper, o, "expired")
      BY <3>2, <1>4 DEF Procs, Statuses
    <3>3. CASE UNCHANGED <<books, tx>>
      BY <3>3, <1>2, StockSame DEF books
    <3> QED
      BY <3>1, <3>2, <3>3
  <2>2. CASE ReaperPass \/ \E o \in Orders : TimePasses(o)
    BY <2>2, <1>2, StockSame DEF ReaperPass, TimePasses, books
  <2> QED
    BY <1>8, <2>1, <2>2 DEF Expiry
<1> QED
  BY <1>3, <1>5, <1>6, <1>7, <1>8 DEF Next

\* Stock is never sold short, nor made, nor lost (decrement_stock, increment_stock,
\* finish_reservation, set_stock), for any orders, lines and number of requests.
THEOREM StockCorrect == Spec => []StockConserved
<1>1. StockInv => StockConserved
  <2> SUFFICES ASSUME StockInv PROVE StockConserved
    OBVIOUS
  <2>1. \A i \in Items : avail[i] >= 0
    BY DEF StockInv, RowInv
  <2>2. \A i \in Items : avail[i] + Reserved(i, Kept) = supply[i]
    BY DEF StockInv, Balanced
  <2> QED
    BY <2>1, <2>2, Zenon DEF StockConserved, Reserved, Kept
<1>2. LedgerInv /\ StockInv /\ [Next]_vars => StockInv'
  BY StockStep
<1> QED
  BY <1>1, <1>2, StockInit, LedgerInit, LedgerStep, PTL DEF Spec

\* The reaper's queue and the count of failures keep their types.
LEMMA CounterStep ==
    ASSUME due \in Seq(Orders), failures \in Nat, [Next]_vars
    PROVE  due' \in Seq(Orders) /\ failures' \in Nat
<1>1. CASE Saga
  BY <1>1 DEF Saga, Reserve, Release, Commit, FinishReservation
<1>2. CASE Steps
  <2>1. PICK p \in Procs : Step(p) \/ DeadlockVictim(p) \/ Crash(p)
    BY <1>2 DEF Steps
  <2>2. CASE DeadlockVictim(p) \/ Crash(p)
    BY <2>2 DEF DeadlockVictim, Crash, Fail, Counted
  <2>3. CASE OccupySlot(p) \/ PreCheck(p) \/ DecrementStock(p)
    BY <2>3 DEF OccupySlot, PreCheck, DecrementStock, Rollback
  <2>4. CASE InsertReservation(p) \/ IncrementStock(p) \/ FreeSlot(p)
    BY <2>4 DEF InsertReservation, IncrementStock, FreeSlot, Rollback
  <2> QED
    BY <2>1, <2>2, <2>3, <2>4 DEF Step
<1>3. CASE Admin
  BY <1>3 DEF Admin, SetStock, SetCapacity, Provision
<1>4. CASE Expiry
  BY <1>4 DEF Expiry, ReaperPass, ReaperRelease, TimePasses, FinishReservation
<1>5. CASE UNCHANGED vars
  BY <1>5 DEF vars
<1> QED
  BY <1>1, <1>2, <1>3, <1>4, <1>5 DEF Next

\* The tables (db.py), the transactions and the reaper's batch keep their shapes;
\* no stock row, load row or supply falls below zero.
THEOREM InventoryTypes == Spec => []TypeOK
<1> DEFINE Counters == due \in Seq(Orders) /\ failures \in Nat
<1>1. LedgerInv /\ StockInv /\ Counters => TypeOK
  BY DEF LedgerInv, LedgerTypeOK, Transactions, StockInv, RowInv, TypeOK
<1>2. Init => Counters
  BY DEF Init
<1>3. Counters /\ [Next]_vars => Counters'
  BY CounterStep
<1>4. LedgerInv /\ StockInv /\ [Next]_vars => StockInv'
  BY StockStep
<1> QED
  BY <1>1, <1>2, <1>3, <1>4, StockInit, LedgerInit, LedgerStep, PTL DEF Spec
=============================================================================
