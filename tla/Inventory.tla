------------------------------ MODULE Inventory ------------------------------
(***************************************************************************)
(* Inventory of one restaurant: the stock rows, the load row (kitchen      *)
(* slots), the reservation ledger, and the transactions that change them.  *)
(* Rows of different restaurants never meet (every key holds the           *)
(* restaurant), so one restaurant is enough.                               *)
(*                                                                         *)
(* A transaction is as many steps as it has statements that wait for a row *)
(* lock or read a row another transaction may change in between (READ      *)
(* COMMITTED).  What it has written is seen by nobody else until it        *)
(* commits, and the rows it has written are locked: both follow from how   *)
(* far it has come, so neither is a variable.  A transaction may fail at   *)
(* any step (a lost connection, a crash, a deadlock's victim): nothing of  *)
(* it remains.                                                             *)
(***************************************************************************)
EXTENDS Naturals, Sequences, FiniteSets, FiniteSetsExt

CONSTANTS
    Items, Orders,
    Lines,              \* the lines each order asks for
    Workers,            \* concurrent requests of the saga's activities
    Reaper,             \* the process that runs Reaper.run
    DefaultCapacity,
    StockLevels,        \* what an admin may set a stock row to
    Capacities,         \* what an admin may set the capacity to
    BatchLimit,         \* how many reservations one reaper pass reads
    MaxFailures         \* how many crashes there are, and deadlocks the reaper loses

ASSUME LinesAssumption ==
    \A o \in Orders : /\ Lines[o] \in Seq([item : Items, qty : Nat \ {0}])
                      /\ Lines[o] # << >>
ASSUME LevelsAssumption ==
    /\ StockLevels \subseteq Nat /\ Capacities \subseteq Nat \ {0}
    /\ DefaultCapacity \in Nat \ {0} /\ BatchLimit \in Nat \ {0}
    /\ MaxFailures \in Nat
ASSUME ReaperAssumption == Reaper \notin Workers

VARIABLES
    rows,       \* the items that have a stock row
    avail,      \* stock.available; 0 where there is no row
    active,     \* restaurant_load.active
    capacity,   \* restaurant_load.capacity; 0 while there is no load row
    resv,       \* reservations.status, "none" while there is no row
    tx,         \* the transaction each process is in
    due,        \* reservations past their expires_at, by that time
    batch,      \* what is left of the reaper's current pass
    failures,   \* crashes so far, and deadlocks the reaper lost
    supply      \* ghost: what the admins have put on the shelf, all in all

books == <<rows, avail, active, capacity, resv, supply>>
vars == <<books, tx, due, batch, failures>>

Procs == Workers \cup {Reaper}

Statuses == {"active", "released", "consumed", "expired"}

\* Where a transaction stands: the statement it is about to run.
Idle == [at |-> "idle", order |-> "none", line |-> 0, target |-> "none"]
Tx(at, o, k, target) == [at |-> at, order |-> o, line |-> k, target |-> target]
Places == {"occupy", "precheck", "decrement", "insert", "restore", "free"}

\* The rows a transaction has written, and so holds the locks of.
HoldsLoad(p) == tx[p].at \in {"precheck", "decrement", "insert"}
HoldsReservation(p, o) == tx[p].at \in {"restore", "free"} /\ tx[p].order = o
HoldsStock(p, i) ==
    /\ tx[p].at \in {"decrement", "insert", "restore", "free"}
    /\ \E k \in 1..(tx[p].line - 1) : Lines[tx[p].order][k].item = i

\* The item of the line a transaction is about to change.
NextItem(p) == Lines[tx[p].order][tx[p].line].item
NextQty(p) == Lines[tx[p].order][tx[p].line].qty

\* q holds the row that p's next statement writes.
Blocks(q, p) ==
    /\ q # p
    /\ \/ tx[p].at \in {"occupy", "free"} /\ HoldsLoad(q)
       \/ tx[p].at \in {"decrement", "restore"} /\ HoldsStock(q, NextItem(p))
Unblocked(p) == \A q \in Procs : ~Blocks(q, p)

\* How much of item i the first n lines of order o ask for.
Asked(o, i, n) ==
    MapThenSumSet(LAMBDA k : Lines[o][k].qty, {k \in 1..n : Lines[o][k].item = i})
Total(o, i) == Asked(o, i, Len(Lines[o]))

-----------------------------------------------------------------------------
(* A transaction's steps. *)

Goto(p, at, k) == tx' = [tx EXCEPT ![p] = Tx(at, tx[p].order, k, tx[p].target)]

\* It is over; a reaper pass goes on with the rest of its batch.
Finished(p) ==
    /\ tx' = [tx EXCEPT ![p] = Idle]
    /\ batch' = IF p = Reaper THEN batch \ {tx[p].order} ELSE batch

Rollback(p) == Finished(p) /\ UNCHANGED <<books, due, failures>>

\* reserve(): a reservation row of any status answers for its order.
Reserve(p, o) ==
    /\ p \in Workers /\ tx[p] = Idle
    /\ resv[o] = "none"
    /\ tx' = [tx EXCEPT ![p] = Tx("occupy", o, 1, "active")]
    /\ UNCHANGED <<books, due, batch, failures>>

\* Fault: the slot is taken however many are taken already.
FaultyOccupySlot(p) ==
    /\ tx[p].at = "occupy" /\ Unblocked(p)
    /\ Goto(p, "precheck", 1)
    /\ UNCHANGED <<books, due, batch, failures>>

\* _ensure_load_row, occupy_slot: AtCapacity unless active < capacity.
OccupySlot(p) ==
    /\ tx[p].at = "occupy" /\ Unblocked(p)
    /\ \/ /\ active < (IF capacity = 0 THEN DefaultCapacity ELSE capacity)
          /\ Goto(p, "precheck", 1)
          /\ UNCHANGED <<books, due, batch, failures>>
       \/ /\ active >= (IF capacity = 0 THEN DefaultCapacity ELSE capacity)
          /\ Rollback(p)

\* The friendly pre-check looks at each line by itself.
PreCheck(p) ==
    /\ tx[p].at = "precheck"
    /\ LET lines == Lines[tx[p].order]
           short == { k \in DOMAIN lines : avail[lines[k].item] < lines[k].qty }
       IN  \/ short = {} /\ Goto(p, "decrement", 1) /\ UNCHANGED <<books, due, batch, failures>>
           \/ short # {} /\ Rollback(p)

\* Fault: the guard trusts the pre-check's count.
FaultyDecrementStock(p) ==
    /\ tx[p].at = "decrement" /\ Unblocked(p)
    /\ avail[NextItem(p)] >= NextQty(p)
    /\ Goto(p, IF tx[p].line = Len(Lines[tx[p].order]) THEN "insert" ELSE "decrement",
            tx[p].line + 1)
    /\ UNCHANGED <<books, due, batch, failures>>

\* decrement_stock: the guard sees what this transaction already took.
DecrementStock(p) ==
    /\ tx[p].at = "decrement" /\ Unblocked(p)
    /\ LET o == tx[p].order
           k == tx[p].line
           left == avail[NextItem(p)]
           taken == Asked(o, NextItem(p), k - 1)
       IN  \/ /\ left >= taken + NextQty(p)
              /\ Goto(p, IF k = Len(Lines[o]) THEN "insert" ELSE "decrement", k + 1)
              /\ UNCHANGED <<books, due, batch, failures>>
           \/ /\ left < taken + NextQty(p)
              /\ Rollback(p)

\* insert_reservation and commit; a duplicate key undoes the whole attempt.
InsertReservation(p) ==
    /\ tx[p].at = "insert"
    /\ LET o == tx[p].order
       IN  \/ resv[o] # "none" /\ Rollback(p)
           \/ /\ resv[o] = "none"
              /\ resv' = [resv EXCEPT ![o] = "active"]
              /\ avail' = [i \in Items |-> avail[i] - Total(o, i)]
              /\ active' = active + 1
              /\ capacity' = IF capacity = 0 THEN DefaultCapacity ELSE capacity
              /\ Finished(p)
              /\ UNCHANGED <<rows, supply, due, failures>>

\* Fault: a reservation is finished whatever its status.
FaultyFinishReservation(p, o, target) ==
    /\ tx[p] = Idle
    /\ \A q \in Procs : ~HoldsReservation(q, o)
    /\ resv[o] # "none"
    /\ tx' = [tx EXCEPT ![p] = Tx(IF target = "consumed" THEN "free" ELSE "restore",
                                  o, 1, target)]
    /\ UNCHANGED <<books, due, batch, failures>>

\* finish_reservation: the guarded active -> target that opens release() and
\* commit(); anything but an active reservation is left alone.
FinishReservation(p, o, target) ==
    /\ tx[p] = Idle
    /\ \A q \in Procs : ~HoldsReservation(q, o)
    /\ resv[o] = "active"
    /\ tx' = [tx EXCEPT ![p] = Tx(IF target = "consumed" THEN "free" ELSE "restore",
                                  o, 1, target)]
    /\ UNCHANGED <<books, due, batch, failures>>

Release(p, o) == p \in Workers /\ FinishReservation(p, o, "released")

Commit(p, o) == p \in Workers /\ FinishReservation(p, o, "consumed")

\* increment_stock, line by line.
IncrementStock(p) ==
    /\ tx[p].at = "restore" /\ Unblocked(p)
    /\ LET k == tx[p].line
       IN  Goto(p, IF k = Len(Lines[tx[p].order]) THEN "free" ELSE "restore", k + 1)
    /\ UNCHANGED <<books, due, batch, failures>>

\* Fault: a settled order's stock is given back too.
FaultyFreeSlot(p) ==
    /\ tx[p].at = "free" /\ Unblocked(p)
    /\ LET o == tx[p].order
       IN  /\ resv' = [resv EXCEPT ![o] = tx[p].target]
           /\ avail' = [i \in Items |-> avail[i] + Total(o, i)]
           /\ active' = IF active > 0 THEN active - 1 ELSE active
    /\ Finished(p)
    /\ UNCHANGED <<rows, capacity, supply, due, failures>>

\* free_slot and commit: a line whose row does not exist gives nothing back.
FreeSlot(p) ==
    /\ tx[p].at = "free" /\ Unblocked(p)
    /\ LET o == tx[p].order
           back == IF tx[p].target = "consumed" THEN {} ELSE rows
       IN  /\ resv' = [resv EXCEPT ![o] = tx[p].target]
           /\ avail' = [i \in Items |-> IF i \in back THEN avail[i] + Total(o, i)
                                                     ELSE avail[i]]
           /\ active' = IF active > 0 THEN active - 1 ELSE active
    /\ Finished(p)
    /\ UNCHANGED <<rows, capacity, supply, due, failures>>

Step(p) ==
    \/ OccupySlot(p) \/ PreCheck(p) \/ DecrementStock(p) \/ InsertReservation(p)
    \/ IncrementStock(p) \/ FreeSlot(p)

\* The transaction fails; a pass of the reaper fails with it.
Fail(p) ==
    /\ tx' = [tx EXCEPT ![p] = Idle]
    /\ batch' = IF p = Reaper THEN {} ELSE batch
    /\ UNCHANGED <<books, due>>

Counted == failures < MaxFailures /\ failures' = failures + 1

\* Postgres ends a cycle of waiting transactions by failing one of them.
Deadlocked(p) ==
    \E S \in SUBSET Procs :
        /\ p \in S
        /\ \A q \in S : /\ \E r \in S : Blocks(r, q)
                        /\ \E r \in S : Blocks(q, r)
DeadlockVictim(p) ==
    /\ Deadlocked(p) /\ Fail(p)
    /\ \/ p \in Workers /\ UNCHANGED failures
       \/ p = Reaper /\ Counted

\* A lost connection, or the process with it.
Crash(p) == tx[p] # Idle /\ Fail(p) /\ Counted

-----------------------------------------------------------------------------
(* The admins, the catalog consumer and the reaper. *)

\* set_stock: an upsert, once nobody holds the row.
SetStock(i, n) ==
    /\ \A q \in Procs : ~HoldsStock(q, i)
    /\ rows' = rows \cup {i}
    /\ avail' = [avail EXCEPT ![i] = n]
    /\ supply' = [supply EXCEPT ![i] = supply[i] - avail[i] + n]
    /\ UNCHANGED <<active, capacity, resv, tx, due, batch, failures>>

\* set_capacity: lowering it below active is legal.
SetCapacity(n) ==
    /\ \A q \in Procs : ~HoldsLoad(q)
    /\ capacity' = n
    /\ UNCHANGED <<rows, avail, active, resv, supply, tx, due, batch, failures>>

\* StockProvisioningHandler: rows that are missing, never a count.
Provision(menu) ==
    /\ capacity # 0 \/ \A q \in Procs : ~HoldsLoad(q)
    /\ rows' = rows \cup menu
    /\ capacity' = IF capacity = 0 THEN DefaultCapacity ELSE capacity
    /\ UNCHANGED <<avail, active, resv, supply, tx, due, batch, failures>>

TimePasses(o) ==
    /\ resv[o] = "active"
    /\ \A k \in DOMAIN due : due[k] # o
    /\ due' = Append(due, o)
    /\ UNCHANGED <<books, tx, batch, failures>>

\* Fault: reservations that have ended are read again and again.
FaultyOverdue == {o \in Orders : \E k \in DOMAIN due : due[k] = o}

\* overdue_reservations: the active ones, of which the oldest come first.
Overdue == {o \in Orders : resv[o] = "active" /\ \E k \in DOMAIN due : due[k] = o}
Older(q, o) == \E j, k \in DOMAIN due : j < k /\ due[j] = q /\ due[k] = o

\* expire_overdue reads so many of them.
ReaperPass ==
    /\ tx[Reaper] = Idle /\ batch = {}
    /\ Overdue # {}
    /\ batch' = {o \in Overdue : Cardinality({q \in Overdue : Older(q, o)}) < BatchLimit}
    /\ UNCHANGED <<books, tx, due, failures>>

\* One short transaction for each, in that order.
ReaperRelease ==
    \E o \in batch :
        /\ tx[Reaper] = Idle
        /\ \A q \in batch : ~Older(q, o)
        /\ \/ FinishReservation(Reaper, o, "expired")
           \/ /\ resv[o] # "active"
              /\ batch' = batch \ {o}
              /\ UNCHANGED <<books, tx, due, failures>>

-----------------------------------------------------------------------------
Init ==
    /\ rows = {} /\ avail = [i \in Items |-> 0] /\ supply = [i \in Items |-> 0]
    /\ active = 0 /\ capacity = 0
    /\ resv = [o \in Orders |-> "none"]
    /\ tx = [p \in Procs |-> Idle]
    /\ due = << >> /\ batch = {} /\ failures = 0

Saga == \E p \in Workers, o \in Orders : Reserve(p, o) \/ Release(p, o) \/ Commit(p, o)

Steps == \E p \in Procs : Step(p) \/ DeadlockVictim(p) \/ Crash(p)

Admin == \/ \E i \in Items, n \in StockLevels : SetStock(i, n)
         \/ \E n \in Capacities : SetCapacity(n)
         \/ \E menu \in SUBSET Items : Provision(menu)

Expiry == ReaperPass \/ ReaperRelease \/ \E o \in Orders : TimePasses(o)

Next == Saga \/ Steps \/ Admin \/ Expiry

Spec == Init /\ [][Next]_vars

\* Lock queues are first come first served, deadlocks are broken, the reaper
\* runs every interval, and its failures come to an end (MaxFailures).  Nothing
\* is assumed of the saga or the admins.
Fairness ==
    /\ \A p \in Procs : SF_vars(Step(p))
    /\ \A p \in Workers : WF_vars(DeadlockVictim(p))
    /\ WF_vars(ReaperPass) /\ SF_vars(ReaperRelease)

FairSpec == Spec /\ Fairness

-----------------------------------------------------------------------------
(* Properties. *)

TypeOK ==
    /\ rows \subseteq Items
    /\ avail \in [Items -> Nat] /\ supply \in [Items -> Nat]
    /\ active \in Nat /\ capacity \in Nat
    /\ resv \in [Orders -> Statuses \cup {"none"}]
    /\ tx \in [Procs -> [at : Places \cup {"idle"}, order : Orders \cup {"none"},
                         line : Nat, target : Statuses \cup {"none"}]]
    /\ due \in Seq(Orders) /\ batch \subseteq Orders /\ failures \in Nat

Holding(status) == {o \in Orders : resv[o] = status}

\* Every occupied kitchen slot belongs to one active reservation and the other
\* way round, whichever of reserve, release, commit and the reaper race,
\* whatever is retried, and wherever a transaction fails.
SlotsMatchActive == active = Cardinality(Holding("active"))

\* Stock is never sold short, neither made nor lost: what is on the shelf, what active
\* reservations hold and what was sold add up to what the admins supplied.
StockConserved ==
    \A i \in Items :
        /\ avail[i] >= 0
        /\ avail[i] + MapThenSumSet(LAMBDA o : Total(o, i),
                                    Holding("active") \cup Holding("consumed"))
               = supply[i]

\* A slot is only ever given out under the capacity of that moment, although
\* admins lower it at any time.
CapacityRespected == [][active' > active => active' <= capacity']_vars

\* A reservation ends once: released, consumed or expired, it stays that way.
EndsOnce ==
    [][\A o \in Orders :
          resv[o] \in {"released", "consumed", "expired"} => resv'[o] = resv[o]]_vars

\* A request is answered: lock cycles (reserve takes the slot first, release
\* takes it last) are broken and nobody waits for ever.
RequestsEnd == \A p \in Workers : tx[p] # Idle ~> tx[p] = Idle

\* Reaper: a reservation whose saga died does not hold stock and a slot for
\* ever, although a pass reads only so many and one failure ends the pass.
OverdueEnds ==
    \A o \in Orders : (resv[o] = "active" /\ \E k \in DOMAIN due : due[k] = o)
                          ~> resv[o] # "active"
=============================================================================
