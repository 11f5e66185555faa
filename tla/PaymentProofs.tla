---------------------------- MODULE PaymentProofs ----------------------------
(***************************************************************************)
(* What holds of a payment for any number of requests, bodies, faults and  *)
(* restarts of the PSP, and whatever the two TTLs are.                     *)
(***************************************************************************)
EXTENDS Payment, TLAPS

----------------------------------------------------------------------------
(* The books.  Only the two transactions touch them, each under a guard on *)
(* the row, so nothing needs to be known of the requests.                  *)

EntriesInv == EntriesMatchRow /\ ledger \in [Ops -> Nat] /\ outbox \in [Ops -> Nat]

LEMMA EntriesInit == Init => EntriesInv
BY DEF Init, EntriesInv, EntriesMatchRow, NoRow, Ops

LEMMA EntriesAuth ==
    ASSUME EntriesInv, NEW r \in Requests, WriteAuth(r)
    PROVE  EntriesInv'
<1>1. CASE row.status = "absent" /\ req[r].arg = "approved"
  <2>1. /\ row' = [status |-> "AUTHORIZED", ref |-> req[r].ref]
        /\ outbox' = [outbox EXCEPT !["auth"] = outbox["auth"] + 1] /\ ledger' = ledger
    BY <1>1 DEF WriteAuth
  <2> QED BY <1>1, <2>1 DEF EntriesInv, EntriesMatchRow, Ops
<1>2. CASE row.status = "absent" /\ req[r].arg # "approved"
  <2>1. row' = [status |-> "DECLINED", ref |-> 0] /\ outbox' = outbox /\ ledger' = ledger
    BY <1>2 DEF WriteAuth
  <2> QED BY <1>2, <2>1 DEF EntriesInv, EntriesMatchRow, Ops
<1>3. CASE row.status # "absent"
  BY <1>3 DEF WriteAuth, EntriesInv, EntriesMatchRow
<1> QED BY <1>1, <1>2, <1>3

LEMMA EntriesMove ==
    ASSUME EntriesInv, NEW r \in Requests, WriteMove(r)
    PROVE  EntriesInv'
<1> DEFINE op == req[r].op
<1>0. op \in {"capture", "void", "refund"}
  BY DEF WriteMove, Lifecycle, Ops
<1>1. CASE row.status = Expected[op]
  <2>1. /\ row' = [status |-> Target[op], ref |-> row.ref]
        /\ ledger' = [ledger EXCEPT ![op] = IF op \in MovesMoney THEN ledger[op] + 1 ELSE ledger[op]]
        /\ outbox' = [outbox EXCEPT ![op] = IF op \in Announced THEN outbox[op] + 1 ELSE outbox[op]]
    BY <1>1 DEF WriteMove
  <2> HIDE DEF op
  <2>2. CASE op = "capture"
    BY <1>1, <2>1, <2>2 DEF EntriesInv, EntriesMatchRow, Ops, Expected, Target, MovesMoney, Announced
  <2>3. CASE op = "void"
    BY <1>1, <2>1, <2>3 DEF EntriesInv, EntriesMatchRow, Ops, Expected, Target, MovesMoney, Announced
  <2>4. CASE op = "refund"
    BY <1>1, <2>1, <2>4 DEF EntriesInv, EntriesMatchRow, Ops, Expected, Target, MovesMoney, Announced
  <2> QED BY <1>0, <2>2, <2>3, <2>4
<1>2. CASE row.status # Expected[op]
  BY <1>2 DEF WriteMove, EntriesInv, EntriesMatchRow, books
<1> QED BY <1>1, <1>2

\* Every other step leaves the books alone.
LEMMA BooksMove ==
    ASSUME [Next]_vars
    PROVE  UNCHANGED books \/ \E r \in Requests : WriteAuth(r) \/ WriteMove(r)
BY DEF Next, vars, Serve, Ask, Insert, Look, TakeOver, Release, ReadRow, Store, Converge,
       Call, CallUnheard, Crash, Retry, GiveUp, PspLate, PspRestart, Age

\* Any execution of a payment writes one ledger pair and one event for each
\* movement of its row (transition_payment's guard, insert_ledger_pair).
THEOREM EntriesCorrect == Spec => []EntriesMatchRow
<1>1. EntriesInv /\ [Next]_vars => EntriesInv'
  <2> SUFFICES ASSUME EntriesInv, [Next]_vars PROVE EntriesInv'
    OBVIOUS
  <2>1. CASE UNCHANGED books
    BY <2>1 DEF EntriesInv, EntriesMatchRow, books
  <2> QED BY <2>1, BooksMove, EntriesAuth, EntriesMove
<1> QED BY <1>1, EntriesInit, PTL DEF Spec, EntriesInv

----------------------------------------------------------------------------
(* The verdict.  Whatever an authorize was told, stored under its key, or   *)
(* is about to be told was read from the row, and the row never changes     *)
(* sides.                                                                   *)

Says(a) == /\ a = "ok" => row.status \notin {"absent", "DECLINED"}
           /\ a = "declined" => row.status = "DECLINED"

ToldInv == told = [op \in Ops |-> told[op]] /\ \A a \in told["auth"] : Says(a)
StoredInv == key = [op \in Ops |-> key[op]] /\ Says(key["auth"].answer)
PendingInv ==
    /\ req = [r \in Requests |-> req[r]]
    /\ \A r \in Requests :
          /\ req[r].at = "read" => req[r].op # "auth"
          /\ req[r].at = "store" /\ req[r].op = "auth" => Says(req[r].arg)
          /\ req[r].at = "converge" => row.status # "absent"
VerdictInv == ToldInv /\ StoredInv /\ PendingInv

\* Once there is a row, it stays on its side of the verdict.
Side(status) == IF status \in {"absent", "DECLINED"} THEN status ELSE "AUTHORIZED"

LEMMA SidesKept ==
    ASSUME [Next]_vars
    PROVE  row.status # "absent" => Side(row'.status) = Side(row.status)
<1>1. CASE UNCHANGED books
  BY <1>1 DEF books
<1>2. ASSUME NEW r \in Requests, WriteAuth(r) \/ WriteMove(r)
      PROVE  row.status # "absent" => Side(row'.status) = Side(row.status)
  <2>1. CASE WriteAuth(r)
    BY <2>1 DEF WriteAuth
  <2>2. CASE WriteMove(r)
    BY <2>2 DEF WriteMove, Side, Lifecycle, Ops, Expected, Target, books
  <2> QED BY <1>2, <2>1, <2>2
<1> QED BY <1>1, <1>2, BooksMove

LEMMA VerdictInit == Init => VerdictInv
BY DEF Init, VerdictInv, ToldInv, StoredInv, PendingInv, NoKey, Idle, Says, Ops

\* Steps that leave a part of it alone.
LEMMA ToldKept == ASSUME VerdictInv, [Next]_vars, UNCHANGED told PROVE ToldInv'
BY SidesKept DEF Side, Says, VerdictInv, ToldInv
LEMMA StoredKept == ASSUME VerdictInv, [Next]_vars, UNCHANGED key PROVE StoredInv'
BY SidesKept DEF Side, Says, VerdictInv, StoredInv
LEMMA PendingKept == ASSUME VerdictInv, [Next]_vars, UNCHANGED req PROVE PendingInv'
BY SidesKept DEF Side, Says, VerdictInv, PendingInv

\* A request goes on to another place.
LEMMA VerdictGoto ==
    ASSUME VerdictInv, [Next]_vars, NEW r \in Requests, NEW at, NEW arg, NEW ref,
           Goto(r, at, arg, ref),
           at = "read" => req[r].op # "auth",
           at = "store" /\ req[r].op = "auth" => (Says(arg))',
           at = "converge" => row'.status # "absent"
    PROVE  PendingInv'
BY SidesKept DEF Side, Says, VerdictInv, PendingInv, Goto, Req

LEMMA VerdictTryLater ==
    ASSUME VerdictInv, [Next]_vars, NEW r \in Requests, TryLater(r)
    PROVE  PendingInv' /\ ToldInv'
BY ToldKept, VerdictGoto DEF TryLater

\* An answer is given: it says what the row says.
LEMMA VerdictAnswer ==
    ASSUME VerdictInv, [Next]_vars, NEW r \in Requests, NEW a, Answer(r, a),
           req[r].op = "auth" => (Says(a))'
    PROVE  PendingInv' /\ ToldInv'
<1>1. PendingInv'
  BY SidesKept DEF Side, Says, VerdictInv, PendingInv, Answer, Idle
<1>2. ToldInv'
  BY SidesKept DEF Side, Says, VerdictInv, ToldInv, Answer, Ops
<1> QED BY <1>1, <1>2

\* An answer is stored under the key.
LEMMA VerdictComplete ==
    ASSUME VerdictInv, [Next]_vars, NEW op, NEW a, Complete(op, a), op = "auth" => (Says(a))'
    PROVE  StoredInv'
BY SidesKept DEF Side, Says, VerdictInv, StoredInv, Complete, Key, Ops

\* The key is given a new row.
LEMMA VerdictKey ==
    ASSUME VerdictInv, [Next]_vars, NEW op, NEW k, key' = [key EXCEPT ![op] = k],
           k.answer = "none" \/ k.answer = key[op].answer
    PROVE  StoredInv'
BY SidesKept DEF Side, Says, VerdictInv, StoredInv, Ops

LEMMA VerdictServe ==
    ASSUME VerdictInv, [Next]_vars, NEW r \in Requests, Serve(r)
    PROVE  VerdictInv'
<1> DEFINE op == req[r].op
<1>1. CASE Insert(r)
  <2>1. ToldInv' BY <1>1, ToldKept DEF Insert
  <2>2. PendingInv'
    <3>1. PICK at \in {First(op), "look"} : Goto(r, at, "none", 0)
      BY <1>1 DEF Insert
    <3> QED BY <3>1, VerdictGoto DEF First
  <2>3. StoredInv' BY <1>1, StoredKept, VerdictKey DEF Insert, Key
  <2> QED BY <2>1, <2>2, <2>3 DEF VerdictInv
<1>2. CASE Look(r)
  <2>1. StoredInv' BY <1>2, StoredKept DEF Look
  <2>2. CASE TryLater(r) BY <2>1, <2>2, VerdictTryLater DEF VerdictInv
  <2>3. CASE Answer(r, "mismatch") BY <2>1, <2>3, VerdictAnswer DEF VerdictInv, Says
  <2>4. CASE Answer(r, key[op].answer)
    <3>1. PICK a : a = key[op].answer OBVIOUS
    <3>2. op = "auth" => (Says(a))'
      BY <3>1, SidesKept DEF VerdictInv, StoredInv, Side, Says
    <3> QED BY <2>1, <2>4, <3>1, <3>2, VerdictAnswer DEF VerdictInv
  <2>5. CASE Goto(r, "takeover", key[op].status, 0) /\ UNCHANGED told
    BY <2>1, <2>5, VerdictGoto, ToldKept DEF VerdictInv
  <2> QED BY <1>2, <2>2, <2>3, <2>4, <2>5 DEF Look
<1>3. CASE TakeOver(r)
  <2>1. CASE TryLater(r) /\ UNCHANGED key
    BY <2>1, VerdictTryLater, StoredKept DEF VerdictInv
  <2>2. CASE /\ key' = [key EXCEPT ![op] = Key("IN_PROGRESS", "none", 0, req[r].body)]
             /\ Goto(r, First(op), "none", 0) /\ UNCHANGED told
    <3>1. StoredInv' BY <2>2, VerdictKey DEF Key
    <3>2. PendingInv' BY <2>2, VerdictGoto DEF First
    <3> QED BY <2>2, <3>1, <3>2, ToldKept DEF VerdictInv
  <2> QED BY <1>3, <2>1, <2>2 DEF TakeOver
<1>4. CASE Release(r)
  <2>1. StoredInv' BY <1>4, VerdictKey DEF Release, NoKey
  <2>2. CASE TryLater(r) BY <2>1, <2>2, VerdictTryLater DEF VerdictInv
  <2>3. CASE Answer(r, "conflict") BY <2>1, <2>3, VerdictAnswer DEF VerdictInv, Says
  <2> QED BY <1>4, <2>2, <2>3 DEF Release
<1>5. CASE ReadRow(r)
  <2>1. op # "auth" BY <1>5 DEF ReadRow, VerdictInv, PendingInv
  <2>2. PICK at, arg, ref : at \in {"store", "call", "release"} /\ Goto(r, at, arg, ref)
    BY <1>5 DEF ReadRow
  <2>3. PendingInv' BY <2>1, <2>2, VerdictGoto
  <2> QED BY <1>5, <2>3, ToldKept, StoredKept DEF ReadRow, VerdictInv
<1>6. CASE Store(r)
  <2>1. op = "auth" => Says(req[r].arg) BY <1>6 DEF Store, VerdictInv, PendingInv
  <2>2. PICK a : a = req[r].arg OBVIOUS
  <2>3. op = "auth" => (Says(a))' BY <2>1, <2>2, SidesKept DEF Side, Says
  <2>4. StoredInv' BY <1>6, <2>2, <2>3, VerdictComplete DEF Store
  <2>5. PendingInv' /\ ToldInv' BY <1>6, <2>2, <2>3, VerdictAnswer DEF Store
  <2> QED BY <2>4, <2>5 DEF VerdictInv
<1>7. CASE Converge(r)
  <2>1. row.status # "absent" BY <1>7 DEF Converge, VerdictInv, PendingInv
  <2>2. PICK a : a = Describe(row) OBVIOUS
  <2>3. (Says(a))' BY <1>7, <2>1, <2>2 DEF Converge, books, Says, Describe
  <2>4. PendingInv' BY <1>7, <2>2, <2>3, VerdictGoto DEF Converge
  <2> QED BY <1>7, <2>4, ToldKept, StoredKept DEF Converge, VerdictInv
<1>8. CASE Call(r)
  <2>1. PICK at, arg, ref : at \in {"write", "release"} /\ Goto(r, at, arg, ref)
    BY <1>8 DEF Call
  <2>2. PendingInv' BY <2>1, VerdictGoto
  <2> QED BY <1>8, <2>2, ToldKept, StoredKept DEF Call, VerdictInv
<1>9. CASE WriteAuth(r)
  <2>1. CASE row.status = "absent"
    <3>1. PICK a : a = Describe(row') OBVIOUS
    <3>2. (Says(a))' BY <1>9, <2>1, <3>1 DEF WriteAuth, Says, Describe
    <3>3. Complete("auth", a) /\ Answer(r, a) BY <1>9, <2>1, <3>1 DEF WriteAuth
    <3> QED BY <3>2, <3>3, VerdictAnswer, VerdictComplete DEF VerdictInv
  <2>2. CASE row.status # "absent"
    <3>1. PendingInv' BY <1>9, <2>2, VerdictGoto DEF WriteAuth
    <3> QED BY <1>9, <2>2, <3>1, ToldKept, StoredKept DEF WriteAuth, VerdictInv
  <2> QED BY <2>1, <2>2
<1>10. CASE WriteMove(r)
  <2>1. op # "auth" BY <1>10 DEF WriteMove, Lifecycle
  <2>2. PICK a : Complete(op, a) /\ Answer(r, a) BY <1>10 DEF WriteMove
  <2> QED BY <2>1, <2>2, VerdictAnswer, VerdictComplete DEF VerdictInv
<1> QED BY <1>1, <1>2, <1>3, <1>4, <1>5, <1>6, <1>7, <1>8, <1>9, <1>10 DEF Serve

LEMMA VerdictStep == VerdictInv /\ [Next]_vars => VerdictInv'
<1> SUFFICES ASSUME VerdictInv, [Next]_vars PROVE VerdictInv'
  OBVIOUS
<1>1. ASSUME NEW r \in Requests, Serve(r) PROVE VerdictInv'
  BY <1>1, VerdictServe
<1>2. ASSUME NEW r \in Requests, NEW op, NEW body, Ask(r, op, body) PROVE VerdictInv'
  <2>1. PendingInv'
    BY <1>2, SidesKept DEF Side, Says, Ask, VerdictInv, PendingInv, Req
  <2> QED BY <1>2, <2>1, ToldKept, StoredKept DEF Ask, VerdictInv
<1>3. ASSUME NEW r \in Requests, CallUnheard(r) PROVE VerdictInv'
  <2>1. PendingInv'
    BY <1>3, PendingKept, VerdictGoto DEF CallUnheard
  <2> QED BY <1>3, <2>1, ToldKept, StoredKept DEF CallUnheard, VerdictInv
<1>4. ASSUME NEW r \in Requests, Crash(r) PROVE VerdictInv'
  BY <1>4, VerdictTryLater, StoredKept DEF Crash, VerdictInv
<1>5. ASSUME NEW r \in Requests, Retry(r) PROVE VerdictInv'
  BY <1>5, VerdictGoto, ToldKept, StoredKept DEF Retry, VerdictInv
<1>6. ASSUME NEW r \in Requests, GiveUp(r) PROVE VerdictInv'
  <2>1. PendingInv'
    BY <1>6, SidesKept DEF Side, Says, GiveUp, VerdictInv, PendingInv, Idle
  <2> QED BY <1>6, <2>1, ToldKept, StoredKept DEF GiveUp, VerdictInv
<1>7. ASSUME NEW op \in Ops, Age(op) PROVE VerdictInv'
  <2>1. StoredInv'
    BY <1>7, VerdictKey DEF Age, Key
  <2> QED BY <1>7, <2>1, ToldKept, PendingKept DEF Age, VerdictInv
<1>8. CASE \/ \E m \in wire : PspLate(m)
           \/ PspRestart \/ UNCHANGED vars
  BY <1>8, ToldKept, StoredKept, PendingKept DEF PspLate, PspRestart, vars, VerdictInv
<1> QED BY <1>1, <1>2, <1>3, <1>4, <1>5, <1>6, <1>7, <1>8 DEF Next

\* However often an order's authorize is executed, answered, replayed, taken
\* over or forgotten by the store or by the PSP, it has one verdict
\* (authorize, _describe and the stored replies).
THEOREM VerdictCorrect == Spec => []OneVerdict
<1>1. VerdictInv => OneVerdict
  BY DEF VerdictInv, ToldInv, OneVerdict, Verdicts, Says
<1> QED BY <1>1, VerdictInit, VerdictStep, PTL DEF Spec

----------------------------------------------------------------------------
(* The books and the PSP.  A request calls the PSP for a reference that the *)
(* row names, after the row has come far enough, and writes only what the   *)
(* PSP has done: so the PSP may be ahead of the row, and never behind it.   *)

\* What the PSP's hold can be once it has done an operation.
Done == [capture |-> {"captured", "refunded"}, void |-> {"voided"}, refund |-> {"refunded"}]

\* The row has been where the operation starts from.
Reached(op) == /\ row.status \notin {"absent", "DECLINED"}
               /\ op = "refund" => row.status \in {"CAPTURED", "REFUNDED"}

Shape == /\ psp \in PspTypes
         /\ row \in [status : Statuses, ref : Nat]
         /\ req = [r \in Requests |-> req[r]]

RefInv == /\ psp.gen # 0 /\ row.ref <= psp.gen
          /\ row.status \in {"absent", "DECLINED"} => row.ref = 0

HoldInv == /\ psp.hold # "none" <=> psp.answered["auth"] = "approved"
           /\ \A op \in Lifecycle : psp.answered[op] # "none" =>
                 psp.answered[op] = "done" /\ psp.hold \in Done[op]
           /\ row.ref = psp.gen => psp.hold # "none"
           /\ row.status = "absent" => psp.hold \in {"none", "authorized"}

CallInv == /\ \A r \in Requests : req[r].at = "call" /\ req[r].op # "auth" =>
                 req[r].op \in Lifecycle /\ Reached(req[r].op) /\ req[r].ref = row.ref
           /\ \A r \in Requests : req[r].at = "read" => req[r].op \in Lifecycle
           /\ \A r \in Requests : req[r].at # "idle" => req[r].op \in Ops
           /\ \A m \in wire : m.op # "auth" =>
                 m.op \in Lifecycle /\ Reached(m.op) /\ m.ref = row.ref

WriteInv == \A r \in Requests : req[r].at = "write" =>
    /\ req[r].op = "auth" =>
          /\ req[r].ref \in Nat /\ req[r].ref <= psp.gen
          /\ req[r].arg = "approved" /\ req[r].ref = psp.gen => psp.hold # "none"
    /\ req[r].op \in Lifecycle =>
          /\ row.status \notin {"absent", "DECLINED"}
          /\ row.ref = psp.gen => psp.hold \in Done[req[r].op]

BooksInv == Shape /\ RefInv /\ HoldInv /\ CallInv /\ WriteInv /\ BooksAgree

LEMMA BooksInit == Init => BooksInv
<1> SUFFICES ASSUME Init PROVE BooksInv
  OBVIOUS
<1>1. Shape
  BY DEF Init, Shape, PspState, PspTypes, NoRow, Statuses, Ops
<1>2. RefInv /\ HoldInv /\ BooksAgree
  BY DEF Init, RefInv, HoldInv, BooksAgree, PspState, NoRow, Lifecycle, Ops
<1>3. CallInv /\ WriteInv
  BY DEF Init, CallInv, WriteInv, Idle
<1> QED BY <1>1, <1>2, <1>3 DEF BooksInv

\* A PSP that answers an authorize: it holds what it held, or a new hold.
LEMMA PspAuth ==
    ASSUME BooksInv, UNCHANGED row, NEW answer \in PspAuthorize, psp' = answer[2]
    PROVE  /\ psp' \in PspTypes /\ RefInv' /\ HoldInv' /\ BooksAgree'
           /\ psp'.gen = psp.gen
           /\ psp.hold # "none" => psp'.hold = psp.hold
           /\ answer[1] = "approved" => psp'.hold # "none"
<1>1. psp \in PspTypes /\ RefInv /\ HoldInv /\ BooksAgree
  BY DEF BooksInv, Shape
<1>2. CASE psp.answered["auth"] # "none"
  <2>1. psp' = psp /\ answer[1] = psp.answered["auth"]
    BY <1>2 DEF PspAuthorize
  <2> QED BY <1>1, <2>1 DEF RefInv, HoldInv, BooksAgree
<1>3. CASE psp.answered["auth"] = "none"
  <2>1. psp.hold = "none" BY <1>1, <1>3 DEF HoldInv
  <2>2. \A op \in Lifecycle : psp.answered[op] = "none"
    BY <1>1, <2>1 DEF HoldInv, Done, Lifecycle, Ops
  <2>3. PICK a \in {"approved", "declined"} :
           /\ answer[1] = a
           /\ psp' = PspState(IF a = "approved" THEN "authorized" ELSE "none",
                              Remembered("auth", a), psp.gen)
    BY <1>3, <2>1 DEF PspAuthorize
  <2>4. /\ psp' \in PspTypes /\ psp'.gen = psp.gen
        /\ psp'.answered["auth"] = a
        /\ \A op \in Lifecycle : psp'.answered[op] = "none"
        /\ psp'.hold = IF a = "approved" THEN "authorized" ELSE "none"
    BY <1>1, <2>2, <2>3 DEF PspTypes, PspState, Remembered, Lifecycle, Ops
  <2> QED BY <1>1, <2>1, <2>3, <2>4 DEF RefInv, HoldInv, BooksAgree
<1> QED BY <1>2, <1>3

\* A PSP that answers a lifecycle operation on the reference the row names.
LEMMA PspMove ==
    ASSUME BooksInv, UNCHANGED row, NEW op \in Lifecycle, Reached(op),
           NEW answer \in PspLifecycle(op, row.ref), psp' = answer[2]
    PROVE  /\ psp' \in PspTypes /\ RefInv' /\ HoldInv' /\ BooksAgree'
           /\ psp'.gen = psp.gen
           /\ \A o \in Lifecycle : psp.hold \in Done[o] => psp'.hold \in Done[o]
           /\ psp.hold # "none" => psp'.hold # "none"
           /\ AfterReply(op, answer[1]) = "write" /\ row.ref = psp.gen => psp'.hold \in Done[op]
<1>1. psp \in PspTypes /\ RefInv /\ HoldInv /\ BooksAgree
  BY DEF BooksInv, Shape
<1>2. CASE psp.answered[op] # "none"
  <2>1. psp' = psp BY <1>2 DEF PspLifecycle
  <2> QED BY <1>1, <1>2, <2>1 DEF RefInv, HoldInv, BooksAgree
<1>3. CASE psp.answered[op] = "none" /\ (row.ref # psp.gen \/ psp.hold = "none")
  <2>1. psp' = psp BY <1>3 DEF PspLifecycle
  <2> QED BY <1>1, <1>3, <2>1 DEF RefInv, HoldInv, BooksAgree
<1>4. CASE psp.answered[op] = "none" /\ row.ref = psp.gen /\ psp.hold \notin {"none", PspExpected[op]}
  <2>1. psp' = psp /\ answer[1] = "refused" BY <1>4 DEF PspLifecycle
  <2> QED BY <1>1, <2>1 DEF RefInv, HoldInv, BooksAgree, AfterReply
<1>5. CASE psp.answered[op] = "none" /\ row.ref = psp.gen /\ psp.hold = PspExpected[op]
  <2>0. op \in {"capture", "void", "refund"} BY DEF Lifecycle, Ops
  <2>1. psp' = PspState(PspTarget[op], Remembered(op, "done"), psp.gen)
    BY <1>5, <2>0 DEF PspLifecycle, PspExpected
  <2>2. /\ psp' \in PspTypes /\ psp'.gen = psp.gen /\ psp'.hold = PspTarget[op]
        /\ \A o \in Ops : psp'.answered[o] = IF o = op THEN "done" ELSE psp.answered[o]
    BY <1>1, <2>0, <2>1 DEF PspTypes, PspState, Remembered, Ops, PspTarget
  <2>3. psp'.hold \in Done[op] /\ psp'.hold # "none"
    BY <2>0, <2>2 DEF PspTarget, Done
  <2>4. \A o \in Lifecycle : psp.hold \in Done[o] => psp'.hold \in Done[o]
    BY <1>5, <2>0, <2>2 DEF Done, PspExpected, PspTarget, Lifecycle, Ops
  <2>5. RefInv' BY <1>1, <2>2 DEF RefInv
  <2>6. HoldInv'
    <3>1. psp'.hold # "none" /\ psp'.answered["auth"] = "approved"
      BY <1>1, <1>5, <2>0, <2>2, <2>3 DEF HoldInv, PspExpected, Ops
    <3>2. ASSUME NEW o \in Lifecycle, psp'.answered[o] # "none"
          PROVE  psp'.answered[o] = "done" /\ psp'.hold \in Done[o]
      BY <1>1, <2>2, <2>3, <2>4, <3>2 DEF HoldInv, Lifecycle
    <3>3. row.status # "absent" BY DEF Reached
    <3> QED BY <3>1, <3>2, <3>3 DEF HoldInv
  <2>7. BooksAgree'
    BY <1>1, <1>5, <2>0, <2>2 DEF BooksAgree, Reached, PspExpected, PspTarget
  <2> QED BY <2>2, <2>3, <2>4, <2>5, <2>6, <2>7
<1> QED BY <1>2, <1>3, <1>4, <1>5

LEMMA BooksCall ==
    ASSUME BooksInv, NEW r \in Requests, Call(r)
    PROVE  BooksInv'
<1> DEFINE op == req[r].op
<1>0. row' = row /\ wire' = wire /\ req[r].at = "call" BY DEF Call, books
<1>1. PICK answer \in PspReplies(op, req[r].ref) :
         /\ psp' = answer[2]
         /\ IF AfterReply(op, answer[1]) = "write"
            THEN Goto(r, "write", answer[1], psp'.gen)
            ELSE Goto(r, "release", "conflict", 0)
  BY DEF Call
<1>2. op \in Ops /\ (op # "auth" => op \in Lifecycle /\ Reached(op) /\ req[r].ref = row.ref)
  BY <1>0 DEF BooksInv, CallInv
<1>3. /\ psp' \in PspTypes /\ RefInv' /\ HoldInv' /\ BooksAgree'
      /\ psp'.gen = psp.gen
      /\ \A o \in Lifecycle : psp.hold \in Done[o] => psp'.hold \in Done[o]
      /\ psp.hold # "none" => psp'.hold # "none"
      /\ op = "auth" /\ answer[1] = "approved" => psp'.hold # "none"
      /\ op # "auth" /\ AfterReply(op, answer[1]) = "write" /\ row.ref = psp.gen
            => psp'.hold \in Done[op]
  <2>1. CASE op = "auth"
    <3>1. answer \in PspAuthorize BY <1>1, <2>1 DEF PspReplies
    <3>2. /\ psp' \in PspTypes /\ RefInv' /\ HoldInv' /\ BooksAgree'
          /\ psp'.gen = psp.gen
          /\ psp.hold # "none" => psp'.hold = psp.hold
          /\ answer[1] = "approved" => psp'.hold # "none"
      BY <1>0, <1>1, <3>1, PspAuth
    <3> QED BY <2>1, <3>2 DEF Done, Lifecycle, Ops
  <2>2. CASE op # "auth"
    <3>1. answer \in PspLifecycle(op, row.ref) BY <1>1, <1>2, <2>2 DEF PspReplies
    <3> QED BY <1>0, <1>1, <1>2, <2>2, <3>1, PspMove
  <2> QED BY <2>1, <2>2
<1> HIDE DEF op
<1>4. req' = [req EXCEPT ![r] = req'[r]] /\ req'[r].op = op
      /\ req = [q \in Requests |-> req[q]]
  BY <1>1 DEF Goto, Req, BooksInv, Shape, op
<1>5. CallInv'
  BY <1>0, <1>1, <1>2, <1>4 DEF BooksInv, CallInv, Reached, Goto, Req
<1>6. WriteInv'
  <2>1. ASSUME NEW q \in Requests, q # r, req'[q].at = "write"
        PROVE  /\ req'[q].op = "auth" =>
                     /\ req'[q].ref \in Nat /\ req'[q].ref <= psp'.gen
                     /\ req'[q].arg = "approved" /\ req'[q].ref = psp'.gen => psp'.hold # "none"
               /\ req'[q].op \in Lifecycle =>
                     /\ row'.status \notin {"absent", "DECLINED"}
                     /\ row'.ref = psp'.gen => psp'.hold \in Done[req'[q].op]
    <3>1. req'[q] = req[q] BY <1>4, <2>1
    <3> QED BY <1>0, <1>3, <2>1, <3>1 DEF BooksInv, WriteInv
  <2>2. ASSUME req'[r].at = "write"
        PROVE  /\ op = "auth" =>
                     /\ req'[r].ref \in Nat /\ req'[r].ref <= psp'.gen
                     /\ req'[r].arg = "approved" /\ req'[r].ref = psp'.gen => psp'.hold # "none"
               /\ op \in Lifecycle =>
                     /\ row'.status \notin {"absent", "DECLINED"}
                     /\ row'.ref = psp'.gen => psp'.hold \in Done[op]
    <3>1. Goto(r, "write", answer[1], psp'.gen) /\ AfterReply(op, answer[1]) = "write"
      BY <1>1, <1>4, <2>2 DEF Goto, Req, BooksInv, Shape
    <3>2. req'[r].arg = answer[1] /\ req'[r].ref = psp'.gen
      BY <1>4, <3>1 DEF Goto, Req
    <3>3. psp'.gen \in Nat BY <1>3 DEF PspTypes
    <3> QED BY <1>0, <1>2, <1>3, <3>1, <3>2, <3>3 DEF Reached, Lifecycle
  <2> QED BY <1>4, <2>1, <2>2 DEF WriteInv
<1>7. Shape' BY <1>0, <1>3, <1>4 DEF BooksInv, Shape
<1> QED BY <1>3, <1>5, <1>6, <1>7 DEF BooksInv

\* A request goes on, and neither the PSP nor the row changes.
LEMMA BooksGoto ==
    ASSUME BooksInv, UNCHANGED <<row, psp, wire>>, NEW r \in Requests, req[r].at # "idle",
           NEW at \in Places \ {"write", "idle"}, NEW arg, NEW ref, Goto(r, at, arg, ref),
           at = "call" => \/ req[r].op = "auth"
                          \/ req[r].op \in Lifecycle /\ Reached(req[r].op) /\ ref = row.ref,
           at = "read" => req[r].op \in Lifecycle
    PROVE  BooksInv'
<1>1. /\ \A q \in Requests : q # r => req'[q] = req[q]
      /\ req'[r].at = at /\ req'[r].op = req[r].op /\ req'[r].ref = ref
      /\ req' = [q \in Requests |-> req'[q]]
  BY DEF Goto, Req, BooksInv, Shape
<1>2. Shape' /\ RefInv' /\ HoldInv' /\ BooksAgree'
  BY <1>1 DEF BooksInv, Shape, RefInv, HoldInv, BooksAgree
<1>3. CallInv'
  BY <1>1 DEF BooksInv, CallInv, Reached
<1>4. WriteInv'
  BY <1>1 DEF BooksInv, WriteInv
<1> QED BY <1>2, <1>3, <1>4 DEF BooksInv

\* A request starts or ends.
LEMMA BooksReplace ==
    ASSUME BooksInv, UNCHANGED <<row, psp, wire>>, NEW r \in Requests, NEW new,
           req' = [req EXCEPT ![r] = new],
           new = Idle \/ (new.at = "insert" /\ new.op \in Ops)
    PROVE  BooksInv'
<1>1. /\ \A q \in Requests : q # r => req'[q] = req[q]
      /\ req'[r] = new /\ req' = [q \in Requests |-> req'[q]]
      /\ new.at \in {"idle", "insert"} /\ (new.at = "insert" => new.op \in Ops)
  BY DEF BooksInv, Shape, Idle
<1>2. Shape' /\ RefInv' /\ HoldInv' /\ BooksAgree'
  BY <1>1 DEF BooksInv, Shape, RefInv, HoldInv, BooksAgree
<1>3. CallInv'
  BY <1>1 DEF BooksInv, CallInv, Reached
<1>4. WriteInv'
  BY <1>1 DEF BooksInv, WriteInv
<1> QED BY <1>2, <1>3, <1>4 DEF BooksInv

\* Nothing of it changes.
LEMMA BooksStutter == ASSUME BooksInv, UNCHANGED <<row, psp, wire, req>> PROVE BooksInv'
BY DEF BooksInv, Shape, RefInv, HoldInv, CallInv, WriteInv, BooksAgree, Reached

LEMMA BooksServe ==
    ASSUME BooksInv, NEW r \in Requests,
           \/ Insert(r) \/ Look(r) \/ TakeOver(r) \/ Release(r)
           \/ ReadRow(r) \/ Store(r) \/ Converge(r) \/ Crash(r) \/ Retry(r) \/ GiveUp(r)
    PROVE  BooksInv'
<1> USE DEF books
<1>0. \A at \in Places : req[r].at = at /\ at # "idle" => req[r].op \in Ops
  BY DEF BooksInv, CallInv
<1>1. UNCHANGED <<row, psp, wire>> /\ req[r].at # "idle"
  BY DEF Insert, Look, TakeOver, Release, ReadRow, Store, Converge, Crash, Retry, GiveUp
<1>2. \/ req' = [req EXCEPT ![r] = Idle]
      \/ \E arg : Goto(r, First(req[r].op), arg, 0)
      \/ \E at \in Places \ {"write", "idle", "call", "read"} : \E arg, ref : Goto(r, at, arg, ref)
      \/ ReadRow(r) /\ row.status = Expected[req[r].op] /\ Goto(r, "call", "none", row.ref)
  BY DEF Insert, Look, TakeOver, Release, ReadRow, Store, Converge, Crash, Retry, GiveUp,
         Answer, TryLater, Places
<1>3. CASE req' = [req EXCEPT ![r] = Idle]
  BY <1>1, <1>3, BooksReplace
<1>4. ASSUME NEW arg, Goto(r, First(req[r].op), arg, 0) PROVE BooksInv'
  <2>1. req[r].op \in Ops BY <1>1 DEF BooksInv, CallInv
  <2>2. First(req[r].op) \in {"call", "read"} BY DEF First
  <2>3. /\ First(req[r].op) = "call" => req[r].op = "auth"
        /\ First(req[r].op) = "read" => req[r].op \in Lifecycle
    BY <2>1 DEF First, Lifecycle
  <2>4. {"call", "read"} \subseteq Places \ {"write", "idle"} BY DEF Places
  <2> QED BY <1>1, <1>4, <2>2, <2>3, <2>4, BooksGoto
<1>5. ASSUME NEW at \in Places \ {"write", "idle", "call", "read"}, NEW arg, NEW ref,
             Goto(r, at, arg, ref)
      PROVE  BooksInv'
  BY <1>1, <1>5, BooksGoto
<1>6. CASE ReadRow(r) /\ row.status = Expected[req[r].op] /\ Goto(r, "call", "none", row.ref)
  <2>1. req[r].op \in Lifecycle BY <1>6 DEF ReadRow, BooksInv, CallInv
  <2>2. Reached(req[r].op) BY <1>6, <2>1 DEF Reached, Lifecycle, Ops, Expected
  <2>3. "call" \in Places \ {"write", "idle"} BY DEF Places
  <2> QED BY <1>1, <1>6, <2>1, <2>2, <2>3, BooksGoto
<1> QED BY <1>2, <1>3, <1>4, <1>5, <1>6

LEMMA BooksWriteAuth ==
    ASSUME BooksInv, NEW r \in Requests, WriteAuth(r)
    PROVE  BooksInv'
<1>0. psp' = psp /\ wire' = wire /\ req[r].at = "write" /\ req[r].op = "auth"
  BY DEF WriteAuth
<1>1. CASE row.status = "absent"
  <2>1. /\ row' = IF req[r].arg = "approved" THEN [status |-> "AUTHORIZED", ref |-> req[r].ref]
                  ELSE [status |-> "DECLINED", ref |-> 0]
        /\ req' = [req EXCEPT ![r] = Idle]
    BY <1>1 DEF WriteAuth, Answer
  <2>2. /\ req[r].ref \in Nat /\ req[r].ref <= psp.gen
        /\ req[r].arg = "approved" /\ req[r].ref = psp.gen => psp.hold # "none"
    BY <1>0 DEF BooksInv, WriteInv
  <2>3. psp.hold \in {"none", "authorized"} /\ psp.gen \in Nat /\ psp.gen # 0
    BY <1>1 DEF BooksInv, HoldInv, RefInv, Shape, PspTypes
  <2>4. /\ \A q \in Requests : q # r => req'[q] = req[q]
        /\ req'[r] = Idle /\ req' = [q \in Requests |-> req'[q]]
    BY <2>1 DEF BooksInv, Shape
  <2>5. Shape' BY <1>0, <2>1, <2>2, <2>4 DEF BooksInv, Shape, Statuses
  <2>6. RefInv' BY <1>0, <2>1, <2>2, <2>3 DEF RefInv
  <2>7. HoldInv' BY <1>0, <2>1, <2>2, <2>3 DEF BooksInv, HoldInv
  <2>8. BooksAgree' BY <1>0, <2>1, <2>2, <2>3 DEF BooksAgree
  <2>9. CallInv' BY <1>0, <1>1, <2>4 DEF BooksInv, CallInv, Reached, Idle
  <2>10. WriteInv' BY <1>0, <1>1, <2>4 DEF BooksInv, WriteInv, Idle
  <2> QED BY <2>5, <2>6, <2>7, <2>8, <2>9, <2>10 DEF BooksInv
<1>2. CASE row.status # "absent"
  <2>1. row' = row /\ Goto(r, "converge", "none", 0) BY <1>2 DEF WriteAuth
  <2>2. "converge" \in Places \ {"write", "idle"} BY DEF Places
  <2> QED BY <1>0, <2>1, <2>2, BooksGoto
<1> QED BY <1>1, <1>2

LEMMA BooksWriteMove ==
    ASSUME BooksInv, NEW r \in Requests, WriteMove(r)
    PROVE  BooksInv'
<1> DEFINE op == req[r].op
<1>0. /\ psp' = psp /\ wire' = wire /\ req[r].at = "write"
      /\ op \in {"capture", "void", "refund"} /\ op \in Lifecycle
      /\ req' = [req EXCEPT ![r] = Idle]
  BY DEF WriteMove, Lifecycle, Ops, Answer
<1>1. CASE row.status = Expected[op]
  <2>1. row' = [status |-> Target[op], ref |-> row.ref] BY <1>1 DEF WriteMove
  <2>2. row.ref = psp.gen => psp.hold \in Done[op] BY <1>0 DEF BooksInv, WriteInv
  <2>3. /\ \A q \in Requests : q # r => req'[q] = req[q]
        /\ req'[r] = Idle /\ req' = [q \in Requests |-> req'[q]]
    BY <1>0 DEF BooksInv, Shape
  <2> HIDE DEF op
  <2>4. /\ row'.ref = row.ref /\ row'.status \in Statuses \ {"absent", "DECLINED"}
        /\ \A o \in Ops : Reached(o) => (Reached(o))'
    BY <1>0, <1>1, <2>1 DEF Reached, Expected, Target, Statuses
  <2>5. Shape' BY <1>0, <2>1, <2>3, <2>4 DEF BooksInv, Shape
  <2>6. RefInv' /\ HoldInv' BY <1>0, <2>4 DEF BooksInv, RefInv, HoldInv
  <2>7. BooksAgree' BY <1>0, <2>1, <2>2 DEF BooksAgree, Target, Done
  <2>8. CallInv'
    BY <1>0, <1>1, <2>1, <2>3 DEF BooksInv, CallInv, Reached, Idle, Expected, Target
  <2>9. WriteInv' BY <1>0, <2>3, <2>4 DEF BooksInv, WriteInv, Idle
  <2> QED BY <2>5, <2>6, <2>7, <2>8, <2>9 DEF BooksInv
<1>2. CASE row.status # Expected[op]
  BY <1>0, <1>2, BooksReplace DEF WriteMove, books
<1> QED BY <1>1, <1>2

LEMMA BooksUnheard ==
    ASSUME BooksInv, NEW r \in Requests, CallUnheard(r)
    PROVE  BooksInv'
<1>0. row' = row /\ psp' = psp /\ req[r].at = "call" BY DEF CallUnheard, books
<1>1. req' = req \/ Goto(r, "release", "unavailable", 0) BY DEF CallUnheard
<1>2. /\ \A q \in Requests : q # r => req'[q] = req[q]
      /\ req'[r].at \in {"call", "release"} /\ req'[r].op = req[r].op
      /\ req'[r].at = "call" => req'[r] = req[r]
      /\ req' = [q \in Requests |-> req'[q]]
  BY <1>0, <1>1 DEF Goto, Req, BooksInv, Shape
<1>3. \A m \in wire' : m \in wire \/ (m.op = req[r].op /\ m.ref = req[r].ref)
  BY DEF CallUnheard
<1>4. Shape' /\ RefInv' /\ HoldInv' /\ BooksAgree'
  BY <1>0, <1>2 DEF BooksInv, Shape, RefInv, HoldInv, BooksAgree
<1>5. CallInv' BY <1>0, <1>2, <1>3 DEF BooksInv, CallInv, Reached
<1>6. WriteInv' BY <1>0, <1>2 DEF BooksInv, WriteInv
<1> QED BY <1>4, <1>5, <1>6 DEF BooksInv

LEMMA BooksLate ==
    ASSUME BooksInv, NEW m \in wire, PspLate(m)
    PROVE  BooksInv'
<1>0. row' = row /\ req' = req /\ wire' \subseteq wire BY DEF PspLate, books
<1>1. PICK answer \in PspReplies(m.op, m.ref) : psp' = answer[2] BY DEF PspLate
<1>2. /\ psp' \in PspTypes /\ RefInv' /\ HoldInv' /\ BooksAgree'
      /\ psp'.gen = psp.gen
      /\ \A o \in Lifecycle : psp.hold \in Done[o] => psp'.hold \in Done[o]
      /\ psp.hold # "none" => psp'.hold # "none"
  <2>1. CASE m.op = "auth"
    <3>1. answer \in PspAuthorize BY <1>1, <2>1 DEF PspReplies
    <3>2. /\ psp' \in PspTypes /\ RefInv' /\ HoldInv' /\ BooksAgree'
          /\ psp'.gen = psp.gen
          /\ psp.hold # "none" => psp'.hold = psp.hold
      BY <1>0, <1>1, <3>1, PspAuth
    <3> QED BY <3>2 DEF Done, Lifecycle, Ops
  <2>2. CASE m.op # "auth"
    <3>1. m.op \in Lifecycle /\ Reached(m.op) /\ m.ref = row.ref
      BY <2>2 DEF BooksInv, CallInv
    <3>2. answer \in PspLifecycle(m.op, row.ref) BY <1>1, <2>2, <3>1 DEF PspReplies
    <3> QED BY <1>0, <1>1, <3>1, <3>2, PspMove
  <2> QED BY <2>1, <2>2
<1>3. Shape' BY <1>0, <1>2 DEF BooksInv, Shape
<1>4. CallInv' BY <1>0 DEF BooksInv, CallInv, Reached
<1>5. WriteInv' BY <1>0, <1>2 DEF BooksInv, WriteInv
<1> QED BY <1>2, <1>3, <1>4, <1>5 DEF BooksInv

LEMMA BooksRestart ==
    ASSUME BooksInv, PspRestart
    PROVE  BooksInv'
<1>0. row' = row /\ req' = req /\ wire' = wire BY DEF PspRestart, books
<1>1. psp.gen \in Nat /\ row.ref \in Nat /\ row.ref <= psp.gen
  BY DEF BooksInv, Shape, RefInv, PspTypes
<1>2. /\ psp' \in PspTypes /\ psp'.gen = psp.gen + 1 /\ psp'.hold = "none"
      /\ \A op \in Ops : psp'.answered[op] = "none"
  BY <1>1 DEF PspRestart, PspState, PspTypes
<1>3. Shape' BY <1>0, <1>2 DEF BooksInv, Shape
<1>4. RefInv' BY <1>0, <1>1, <1>2 DEF BooksInv, RefInv
<1>5. HoldInv' BY <1>0, <1>1, <1>2 DEF HoldInv, Lifecycle, Ops
<1>6. BooksAgree' BY <1>0, <1>1, <1>2 DEF BooksAgree
<1>7. CallInv' BY <1>0 DEF BooksInv, CallInv, Reached
<1>8. WriteInv' BY <1>0, <1>1, <1>2 DEF BooksInv, WriteInv
<1> QED BY <1>3, <1>4, <1>5, <1>6, <1>7, <1>8 DEF BooksInv

LEMMA BooksStep == BooksInv /\ [Next]_vars => BooksInv'
<1> SUFFICES ASSUME BooksInv, [Next]_vars PROVE BooksInv'
  OBVIOUS
<1>1. ASSUME NEW r \in Requests, NEW op \in Ops, NEW body, Ask(r, op, body) PROVE BooksInv'
  BY <1>1, BooksReplace DEF Ask, Req, books
<1>2. ASSUME NEW op \in Ops, Age(op) PROVE BooksInv'
  BY <1>2, BooksStutter DEF Age, books
<1>3. CASE UNCHANGED vars
  BY <1>3, BooksStutter DEF vars, books
<1>4. "auth" \in Ops /\ Lifecycle \subseteq Ops BY DEF Ops, Lifecycle
<1> QED BY <1>1, <1>2, <1>3, <1>4, BooksServe, BooksCall, BooksWriteAuth, BooksWriteMove,
           BooksUnheard, BooksLate, BooksRestart DEF Next, Serve

\* Whatever crashes, retries, takeovers and late or lost calls of the PSP do,
\* the payments row never claims more than the PSP has done with its reference
\* (_lifecycle: the PSP first, the row after it).
THEOREM BooksCorrect == Spec => []BooksAgree
<1>1. BooksInv => BooksAgree
  BY DEF BooksInv
<1> QED BY <1>1, BooksInit, BooksStep, PTL DEF Spec

----------------------------------------------------------------------------
(* Success.  An operation that is answered with "ok" was found done in the  *)
(* row, or was done by the transaction that answers, or the row refused the *)
(* move: then the PSP had done it, and so had another request.  That last   *)
(* step needs a PSP that still knows the reference.                         *)

Happened(op) ==
    /\ op = "capture" => row.status \in {"CAPTURED", "REFUNDED"}
    /\ op = "void" => row.status = "VOIDED"
    /\ op = "refund" => row.status = "REFUNDED"
Proven(op) == psp.gen = 1 => Happened(op)

\* What a request knows by its place.
Sound(q) ==
    /\ q.at = "store" /\ q.op \in Lifecycle => Proven(q.op)
    /\ q.at = "converge" => q.op = "auth"
    /\ q.at = "write" /\ q.op = "auth" => q.ref # 0
    /\ q.at = "write" /\ q.op \in Lifecycle => Reached(q.op)

SaidTold == \A op \in Lifecycle : "ok" \in told[op] => Proven(op)
SaidKey == \A op \in Lifecycle : key[op].answer = "ok" => Proven(op)
SaidReq == \A r \in Requests : Sound(req[r])
SaidRow == row.status \notin {"absent", "DECLINED"} => row.ref # 0
SaidInv == SaidTold /\ SaidKey /\ SaidReq /\ SaidRow
RealInv == VerdictInv /\ BooksInv /\ SaidInv

LEMMA RealInit == Init => RealInv
<1> SUFFICES ASSUME Init PROVE SaidInv
  BY VerdictInit, BooksInit DEF RealInv
<1>1. SaidTold /\ SaidKey
  BY DEF Init, SaidTold, SaidKey, NoKey, Lifecycle
<1>2. SaidReq /\ SaidRow
  BY DEF Init, SaidReq, Sound, SaidRow, Idle, NoRow
<1> QED BY <1>1, <1>2 DEF SaidInv

\* The row goes forward, and a PSP that has not forgotten never had.
LEMMA RowForward ==
    ASSUME [Next]_vars, NEW op \in Lifecycle
    PROVE  /\ Happened(op) => Happened(op)'
           /\ Reached(op) => Reached(op)'
<1>0. op \in {"capture", "void", "refund"}
  BY DEF Lifecycle, Ops
<1>1. CASE UNCHANGED books
  BY <1>1 DEF books, Happened, Reached
<1>2. ASSUME NEW r \in Requests, WriteAuth(r)
      PROVE  /\ Happened(op) => Happened(op)'
             /\ Reached(op) => Reached(op)'
  BY <1>0, <1>2 DEF WriteAuth, Happened, Reached
<1>3. ASSUME NEW r \in Requests, WriteMove(r)
      PROVE  /\ Happened(op) => Happened(op)'
             /\ Reached(op) => Reached(op)'
  BY <1>0, <1>3 DEF WriteMove, Happened, Reached, Lifecycle, Ops, Expected, Target, books
<1> QED BY <1>1, <1>2, <1>3, BooksMove

LEMMA GenForward ==
    ASSUME BooksInv, [Next]_vars
    PROVE  psp'.gen = 1 => psp.gen = 1
<1>1. psp.gen \in Nat /\ psp.gen # 0
  BY DEF BooksInv, Shape, RefInv, PspTypes
<1>2. CASE PspRestart
  BY <1>1, <1>2 DEF PspRestart, PspState
<1>3. CASE psp' = psp
  BY <1>3
<1>4. ASSUME NEW op, NEW ref, NEW answer \in PspReplies(op, ref), psp' = answer[2]
      PROVE  psp'.gen = psp.gen
  BY <1>4 DEF PspReplies, PspAuthorize, PspLifecycle, PspState
<1>5. ASSUME NEW r \in Requests, Call(r) PROVE psp'.gen = psp.gen
  BY <1>4, <1>5 DEF Call
<1>6. ASSUME NEW m \in wire, PspLate(m) PROVE psp'.gen = psp.gen
  BY <1>4, <1>6 DEF PspLate
<1> QED
  BY <1>2, <1>3, <1>5, <1>6 DEF Next, vars, Serve, Ask, Insert, Look, TakeOver, Release, ReadRow,
     Store, Converge, WriteAuth, WriteMove, CallUnheard, Crash, Retry, GiveUp, Age

LEMMA ProvenKept ==
    ASSUME BooksInv, [Next]_vars, NEW op \in Lifecycle, Proven(op)
    PROVE  Proven(op)'
BY RowForward, GenForward DEF Proven

\* A move that the row refuses, although the PSP made it, was made already.
LEMMA RefusedWasDone ==
    ASSUME BooksInv, SaidInv, NEW r \in Requests, req[r].at = "write", req[r].op \in Lifecycle,
           row.status # Expected[req[r].op]
    PROVE  Proven(req[r].op)
<1> SUFFICES ASSUME psp.gen = 1 PROVE Happened(req[r].op)
  BY DEF Proven
<1>1. Reached(req[r].op)
  BY DEF SaidInv, SaidReq, Sound
<1>2. row.ref = psp.gen
  BY <1>1 DEF Reached, SaidInv, SaidRow, BooksInv, RefInv, Shape
<1>3. psp.hold \in Done[req[r].op]
  BY <1>2 DEF BooksInv, WriteInv
<1>4. req[r].op \in {"capture", "void", "refund"}
  BY DEF Lifecycle, Ops
<1>5. row.status \in {"AUTHORIZED", "CAPTURED", "VOIDED", "REFUNDED"}
  BY <1>1 DEF Reached, BooksInv, Shape, Statuses
<1> QED BY <1>1, <1>2, <1>3, <1>4, <1>5 DEF BooksInv, BooksAgree, Reached, Done, Happened, Expected

\* Steps that leave a part of it alone.
LEMMA SaidToldKept == ASSUME RealInv, [Next]_vars, UNCHANGED told PROVE SaidTold'
BY ProvenKept DEF RealInv, SaidInv, SaidTold
LEMMA SaidKeyKept == ASSUME RealInv, [Next]_vars, UNCHANGED key PROVE SaidKey'
BY ProvenKept DEF RealInv, SaidInv, SaidKey
LEMMA SaidRowKept == ASSUME RealInv, UNCHANGED row PROVE SaidRow'
BY DEF RealInv, SaidInv, SaidRow

LEMMA SoundKept ==
    ASSUME RealInv, [Next]_vars, NEW r \in Requests, req'[r] = req[r]
    PROVE  Sound(req[r])'
BY ProvenKept, RowForward DEF RealInv, SaidInv, SaidReq, Sound

\* A request's record is replaced.
LEMMA SaidPut ==
    ASSUME RealInv, [Next]_vars, NEW r \in Requests, NEW q, req' = [req EXCEPT ![r] = q],
           Sound(q)'
    PROVE  SaidReq'
<1>1. req = [p \in Requests |-> req[p]]
  BY DEF RealInv, BooksInv, Shape
<1>2. ASSUME NEW p \in Requests, p # r PROVE Sound(req[p])'
  BY <1>1, <1>2, SoundKept
<1>3. req'[r] = q
  BY <1>1
<1>4. Sound(req[r])'
  BY <1>3 DEF Sound
<1> QED BY <1>2, <1>4 DEF SaidReq

LEMMA SaidGoto ==
    ASSUME RealInv, [Next]_vars, NEW r \in Requests, NEW at, NEW arg, NEW ref,
           Goto(r, at, arg, ref),
           NEW op, op = req[r].op,
           at = "store" /\ op \in Lifecycle => Proven(op)',
           at = "converge" => op = "auth",
           at = "write" /\ op = "auth" => ref # 0,
           at = "write" /\ op \in Lifecycle => Reached(op)
    PROVE  SaidReq'
<1>1. PICK q : q = Req(at, op, req[r].body, arg, ref)
  OBVIOUS
<1>2. req' = [req EXCEPT ![r] = q]
  BY <1>1 DEF Goto
<1>3. q.at = at /\ q.op = op /\ q.ref = ref
  BY <1>1 DEF Req
<1>4. Sound(q)'
  BY <1>3, RowForward DEF Sound
<1> QED BY <1>2, <1>4, SaidPut

LEMMA SaidIdle ==
    ASSUME RealInv, [Next]_vars, NEW r \in Requests, req' = [req EXCEPT ![r] = Idle]
    PROVE  SaidReq'
<1>1. Sound(Idle)'
  BY DEF Sound, Idle
<1> QED BY <1>1, SaidPut

LEMMA SaidTryLater ==
    ASSUME RealInv, [Next]_vars, NEW r \in Requests, TryLater(r)
    PROVE  SaidReq' /\ SaidTold'
BY SaidGoto, SaidToldKept DEF TryLater

\* An answer is given, or stored.
LEMMA SaidAnswer ==
    ASSUME RealInv, [Next]_vars, NEW r \in Requests, NEW a, Answer(r, a),
           NEW op, op = req[r].op,
           op \in Lifecycle /\ a = "ok" => Proven(op)'
    PROVE  SaidReq' /\ SaidTold'
<1>1. SaidReq'
  BY SaidIdle DEF Answer
<1>2. ASSUME NEW o \in Lifecycle, "ok" \in told'[o] PROVE Proven(o)'
  <2>1. o \in Ops /\ told = [x \in Ops |-> told[x]]
    BY DEF Lifecycle, RealInv, VerdictInv, ToldInv
  <2>2. "ok" \in told[o] \/ (o = op /\ a = "ok")
    BY <1>2, <2>1 DEF Answer
  <2>3. ASSUME "ok" \in told[o] PROVE Proven(o)'
    BY <2>3, ProvenKept DEF RealInv, SaidInv, SaidTold
  <2> QED BY <2>2, <2>3
<1> QED BY <1>1, <1>2 DEF SaidTold

LEMMA SaidComplete ==
    ASSUME RealInv, [Next]_vars, NEW op, NEW a, Complete(op, a),
           op \in Lifecycle /\ a = "ok" => Proven(op)'
    PROVE  SaidKey'
<1>1. ASSUME NEW o \in Lifecycle, key'[o].answer = "ok" PROVE Proven(o)'
  <2>1. o \in Ops /\ key = [x \in Ops |-> key[x]]
    BY DEF Lifecycle, RealInv, VerdictInv, StoredInv
  <2>2. key[o].answer = "ok" \/ (o = op /\ a = "ok")
    BY <1>1, <2>1 DEF Complete, Key
  <2>3. ASSUME key[o].answer = "ok" PROVE Proven(o)'
    BY <2>3, ProvenKept DEF RealInv, SaidInv, SaidKey
  <2> QED BY <2>2, <2>3
<1> QED BY <1>1 DEF SaidKey

LEMMA SaidNewKey ==
    ASSUME RealInv, [Next]_vars, NEW op, NEW k, key' = [key EXCEPT ![op] = k],
           k.answer = "none" \/ k.answer = key[op].answer
    PROVE  SaidKey'
<1>1. ASSUME NEW o \in Lifecycle, key'[o].answer = "ok" PROVE Proven(o)'
  <2>1. o \in Ops /\ key = [x \in Ops |-> key[x]]
    BY DEF Lifecycle, RealInv, VerdictInv, StoredInv
  <2>2. key[o].answer = "ok"
    BY <1>1, <2>1
  <2> QED BY <2>2, ProvenKept DEF RealInv, SaidInv, SaidKey
<1> QED BY <1>1 DEF SaidKey

LEMMA SaidServe ==
    ASSUME RealInv, [Next]_vars, NEW r \in Requests, Serve(r)
    PROVE  SaidInv'
<1>0. PICK op : op = req[r].op
  OBVIOUS
<1> USE DEF books
<1>1. CASE Insert(r)
  <2>1. SaidReq'
    <3>1. PICK at \in {First(op), "look"} : Goto(r, at, "none", 0)
      BY <1>0, <1>1 DEF Insert
    <3> QED BY <1>0, <3>1, SaidGoto DEF First
  <2>2. SaidKey' BY <1>1, SaidKeyKept, SaidNewKey DEF Insert, Key
  <2> QED BY <1>1, <2>1, <2>2, SaidToldKept, SaidRowKept DEF Insert, SaidInv
<1>2. CASE Look(r)
  <2>1. SaidKey' /\ SaidRow' BY <1>2, SaidKeyKept, SaidRowKept DEF Look
  <2>2. CASE TryLater(r) BY <2>1, <2>2, SaidTryLater DEF SaidInv
  <2>3. CASE Answer(r, "mismatch") BY <1>0, <2>1, <2>3, SaidAnswer DEF SaidInv
  <2>4. CASE Answer(r, key[req[r].op].answer)
    <3>1. PICK a : a = key[req[r].op].answer OBVIOUS
    <3>2. op \in Lifecycle /\ a = "ok" => Proven(op)'
      BY <1>0, <3>1, ProvenKept DEF RealInv, SaidInv, SaidKey
    <3>3. Answer(r, a) BY <2>4, <3>1
    <3> QED BY <1>0, <2>1, <3>2, <3>3, SaidAnswer DEF SaidInv
  <2>5. CASE Goto(r, "takeover", key[req[r].op].status, 0) /\ UNCHANGED told
    BY <1>0, <2>1, <2>5, SaidGoto, SaidToldKept DEF SaidInv
  <2> QED BY <1>2, <2>2, <2>3, <2>4, <2>5 DEF Look
<1>3. CASE TakeOver(r)
  <2>1. SaidRow' BY <1>3, SaidRowKept DEF TakeOver
  <2>2. CASE TryLater(r) /\ UNCHANGED key
    BY <2>1, <2>2, SaidTryLater, SaidKeyKept DEF SaidInv
  <2>3. CASE /\ key' = [key EXCEPT ![req[r].op] = Key("IN_PROGRESS", "none", 0, req[r].body)]
             /\ Goto(r, First(req[r].op), "none", 0) /\ UNCHANGED told
    <3>1. SaidKey' BY <2>3, SaidNewKey DEF Key
    <3>2. SaidReq' BY <1>0, <2>3, SaidGoto DEF First
    <3> QED BY <2>1, <2>3, <3>1, <3>2, SaidToldKept DEF SaidInv
  <2> QED BY <1>3, <2>2, <2>3 DEF TakeOver
<1>4. CASE Release(r)
  <2>1. SaidKey' /\ SaidRow' BY <1>4, SaidNewKey, SaidRowKept DEF Release, NoKey
  <2>2. CASE TryLater(r) BY <2>1, <2>2, SaidTryLater DEF SaidInv
  <2>3. CASE Answer(r, "conflict") BY <1>0, <2>1, <2>3, SaidAnswer DEF SaidInv
  <2> QED BY <1>4, <2>2, <2>3 DEF Release
<1>5. CASE ReadRow(r)
  <2>1. SaidTold' /\ SaidKey' /\ SaidRow'
    BY <1>5, SaidToldKept, SaidKeyKept, SaidRowKept DEF ReadRow
  <2>2. CASE row.status = Target[req[r].op] /\ Goto(r, "store", Describe(row), 0)
    <3>1. op \in Lifecycle => Proven(op)
      BY <1>0, <2>2 DEF Proven, Happened, Target, Lifecycle, Ops
    <3>2. op \in Lifecycle => Proven(op)'
      BY <3>1, ProvenKept DEF RealInv
    <3>3. PICK a : a = Describe(row) OBVIOUS
    <3>4. SaidReq' BY <1>0, <2>2, <3>2, <3>3, SaidGoto
    <3> QED BY <2>1, <3>4 DEF SaidInv
  <2>3. CASE Goto(r, "call", "none", row.ref) BY <1>0, <2>1, <2>3, SaidGoto DEF SaidInv
  <2>4. CASE Goto(r, "release", "conflict", 0) BY <1>0, <2>1, <2>4, SaidGoto DEF SaidInv
  <2> QED BY <1>5, <2>2, <2>3, <2>4 DEF ReadRow
<1>6. CASE Store(r)
  <2>1. PICK a : a = req[r].arg OBVIOUS
  <2>2. op \in Lifecycle => Proven(op)'
    BY <1>0, <1>6, ProvenKept DEF Store, RealInv, SaidInv, SaidReq, Sound
  <2>3. SaidKey' BY <1>0, <1>6, <2>1, <2>2, SaidComplete DEF Store
  <2>4. SaidReq' /\ SaidTold' BY <1>0, <1>6, <2>1, <2>2, SaidAnswer DEF Store
  <2> QED BY <1>6, <2>3, <2>4, SaidRowKept DEF Store, SaidInv
<1>7. CASE Converge(r)
  <2>1. op = "auth" BY <1>0, <1>7 DEF Converge, RealInv, SaidInv, SaidReq, Sound
  <2>2. PICK a : a = Describe(row) OBVIOUS
  <2>3. SaidReq' BY <1>0, <1>7, <2>1, <2>2, SaidGoto DEF Converge, Lifecycle
  <2> QED BY <1>7, <2>3, SaidToldKept, SaidKeyKept, SaidRowKept DEF Converge, SaidInv
<1>8. CASE Call(r)
  <2>1. \/ \E arg : Goto(r, "write", arg, psp'.gen)
        \/ Goto(r, "release", "conflict", 0)
    BY <1>8 DEF Call
  <2>2. PICK gen : gen = psp'.gen OBVIOUS
  <2>3. gen # 0 BY <2>2, BooksStep DEF RealInv, BooksInv, RefInv
  <2>4. op \in Lifecycle => Reached(op)
    BY <1>0, <1>8 DEF Call, RealInv, BooksInv, CallInv, Lifecycle
  <2>5. ASSUME NEW arg, Goto(r, "write", arg, psp'.gen) PROVE SaidReq'
    <3>1. Goto(r, "write", arg, gen) BY <2>2, <2>5
    <3> QED BY <1>0, <2>3, <2>4, <3>1, SaidGoto
  <2>6. SaidReq' BY <1>0, <2>1, <2>5, SaidGoto
  <2> QED BY <1>8, <2>6, SaidToldKept, SaidKeyKept, SaidRowKept DEF Call, SaidInv
<1>9. CASE WriteAuth(r)
  <2>0. op = "auth" /\ op \notin Lifecycle BY <1>0, <1>9 DEF WriteAuth, Lifecycle
  <2>1. CASE row.status = "absent"
    <3>1. PICK a : a = Describe(row') OBVIOUS
    <3>2. Complete("auth", a) /\ Answer(r, a) BY <1>9, <2>1, <3>1 DEF WriteAuth
    <3>3. SaidKey' BY <2>0, <3>2, SaidComplete
    <3>4. SaidReq' /\ SaidTold' BY <1>0, <2>0, <3>2, SaidAnswer
    <3>5. SaidRow' BY <1>9, <2>1 DEF WriteAuth, SaidRow, RealInv, SaidInv, SaidReq, Sound
    <3> QED BY <3>3, <3>4, <3>5 DEF SaidInv
  <2>2. CASE row.status # "absent"
    <3>1. SaidReq' BY <1>0, <1>9, <2>0, <2>2, SaidGoto DEF WriteAuth
    <3> QED BY <1>9, <2>2, <3>1, SaidToldKept, SaidKeyKept, SaidRowKept DEF WriteAuth, SaidInv
  <2> QED BY <2>1, <2>2
<1>10. CASE WriteMove(r)
  <2>0. req[r].at = "write" /\ op \in Lifecycle BY <1>0, <1>10 DEF WriteMove
  <2>1. PICK a : Complete(op, a) /\ Answer(r, a) BY <1>0, <1>10 DEF WriteMove
  <2>2. Proven(op)' /\ SaidRow'
    <3>1. CASE row.status = Expected[op]
      <4>1. row' = [status |-> Target[op], ref |-> row.ref]
        BY <1>0, <1>10, <3>1 DEF WriteMove
      <4>2. op \in {"capture", "void", "refund"}
        BY <2>0 DEF Lifecycle, Ops
      <4> QED
        BY <3>1, <4>1, <4>2 DEF Proven, Happened, Target, Expected, SaidRow, RealInv, SaidInv
    <3>2. CASE row.status # Expected[op]
      <4>1. Proven(op)
        BY <1>0, <2>0, <3>2, RefusedWasDone DEF RealInv
      <4> QED BY <1>0, <1>10, <2>0, <3>2, <4>1, ProvenKept, SaidRowKept DEF WriteMove, RealInv
    <3> QED BY <3>1, <3>2
  <2> QED BY <1>0, <2>1, <2>2, SaidComplete, SaidAnswer DEF SaidInv
<1> QED BY <1>1, <1>2, <1>3, <1>4, <1>5, <1>6, <1>7, <1>8, <1>9, <1>10 DEF Serve

LEMMA RealStep == RealInv /\ [Next]_vars => RealInv'
<1> SUFFICES ASSUME RealInv, [Next]_vars PROVE SaidInv'
  BY VerdictStep, BooksStep DEF RealInv
<1> USE DEF books
<1>1. ASSUME NEW r \in Requests, NEW op, NEW body, Ask(r, op, body) PROVE SaidInv'
  <2>1. PICK q : q = Req("insert", op, body, "none", 0) OBVIOUS
  <2>2. Sound(q)' BY <2>1 DEF Sound, Req
  <2>3. SaidReq' BY <1>1, <2>1, <2>2, SaidPut DEF Ask
  <2> QED BY <1>1, <2>3, SaidToldKept, SaidKeyKept, SaidRowKept DEF Ask, SaidInv
<1>2. ASSUME NEW r \in Requests, CallUnheard(r) PROVE SaidInv'
  <2>1. PICK op : op = req[r].op OBVIOUS
  <2>2. ASSUME req' = req PROVE SaidReq' BY <2>2, SoundKept DEF SaidReq
  <2>3. ASSUME Goto(r, "release", "unavailable", 0) PROVE SaidReq' BY <2>1, <2>3, SaidGoto
  <2>4. SaidReq' BY <1>2, <2>2, <2>3 DEF CallUnheard
  <2> QED BY <1>2, <2>4, SaidToldKept, SaidKeyKept, SaidRowKept DEF CallUnheard, SaidInv
<1>3. ASSUME NEW r \in Requests, Crash(r) PROVE SaidInv'
  BY <1>3, SaidTryLater, SaidKeyKept, SaidRowKept DEF Crash, SaidInv
<1>4. ASSUME NEW r \in Requests, Retry(r) PROVE SaidInv'
  <2>1. PICK op : op = req[r].op OBVIOUS
  <2>2. SaidReq' BY <1>4, <2>1, SaidGoto DEF Retry
  <2> QED BY <1>4, <2>2, SaidToldKept, SaidKeyKept, SaidRowKept DEF Retry, SaidInv
<1>5. ASSUME NEW r \in Requests, GiveUp(r) PROVE SaidInv'
  <2>1. SaidReq' BY <1>5, SaidIdle DEF GiveUp
  <2> QED BY <1>5, <2>1, SaidToldKept, SaidKeyKept, SaidRowKept DEF GiveUp, SaidInv
<1>6. ASSUME UNCHANGED <<key, row, req, told>> PROVE SaidInv'
  <2>1. SaidReq' BY <1>6, SoundKept DEF SaidReq
  <2> QED BY <1>6, <2>1, SaidToldKept, SaidKeyKept, SaidRowKept DEF SaidInv
<1>7. ASSUME NEW op \in Ops, Age(op) PROVE SaidInv'
  <2>1. SaidKey' BY <1>7, SaidNewKey DEF Age, Key
  <2>2. SaidReq' BY <1>7, SoundKept DEF Age, SaidReq
  <2> QED BY <1>7, <2>1, <2>2, SaidToldKept, SaidRowKept DEF Age, SaidInv
<1>8. CASE (\E m \in wire : PspLate(m)) \/ PspRestart \/ UNCHANGED vars
  BY <1>6, <1>8 DEF PspLate, PspRestart, vars
<1> QED BY <1>1, <1>2, <1>3, <1>4, <1>5, <1>7, <1>8, SaidServe DEF Next

\* An operation of which a caller was told that it succeeded has happened,
\* whoever executed it and however often its key expired or was taken over,
\* as long as the PSP has not forgotten the order (_lifecycle, replies of the
\* idempotency store).
THEOREM SuccessReal == Spec => []SuccessIsReal
<1>1. RealInv => SuccessIsReal
  <2> SUFFICES ASSUME RealInv, psp.gen = 1
               PROVE  /\ "ok" \in told["auth"] => row.status \notin {"absent", "DECLINED"}
                      /\ "ok" \in told["capture"] => row.status \in {"CAPTURED", "REFUNDED"}
                      /\ "ok" \in told["void"] => row.status = "VOIDED"
                      /\ "ok" \in told["refund"] => row.status = "REFUNDED"
    BY DEF SuccessIsReal
  <2>1. "ok" \in told["auth"] => row.status \notin {"absent", "DECLINED"}
    BY DEF RealInv, VerdictInv, ToldInv, Says
  <2>2. {"capture", "void", "refund"} \subseteq Lifecycle
    BY DEF Lifecycle, Ops
  <2> QED BY <2>1, <2>2 DEF RealInv, SaidInv, SaidTold, Proven, Happened
<1> QED BY <1>1, RealInit, RealStep, PTL DEF Spec
=============================================================================
