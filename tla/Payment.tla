------------------------------- MODULE Payment -------------------------------
(***************************************************************************)
(* The payment of one order: the payments row, the ledger and the outbox   *)
(* of the payment service, the idempotency keys "{order_id}:{op}" it       *)
(* guards every operation with, and the processor (PSP) behind it.  Rows,  *)
(* keys and references of different orders never meet, so one order is     *)
(* enough.                                                                 *)
(*                                                                         *)
(* A request is one execution of an operation by some instance of the      *)
(* service.  Each of its transactions and each of its calls of the PSP is  *)
(* one step: the transactions of the idempotency store are single          *)
(* statements (the failed INSERT and the SELECT after it are two), and a   *)
(* transaction that moves the payments row holds its lock up to the        *)
(* commit.  Nothing bounds how long a request may be stalled between two   *)
(* steps, so a key may be taken over from a holder that is still alive.    *)
(*                                                                         *)
(* The amount, the currency and the card are left out: capture and refund  *)
(* read the amount from the row, and the callers never change an order's   *)
(* total.  What is left of them is the body that the key's hash covers.    *)
(***************************************************************************)
EXTENDS Naturals, FiniteSets

CONSTANTS
    Requests,
    Bodies,             \* what the request hash of an authorize can be
    InProgressTTL,      \* the age after which an IN_PROGRESS key is taken over
    ReplayTTL,          \* the age after which a COMPLETE key is
    MaxCalls,           \* operations that are ever asked for
    MaxFaults,          \* crashes, and PSP requests that get no answer
    MaxRestarts         \* how often the PSP forgets everything

ASSUME TTLAssumption ==
    /\ InProgressTTL \in Nat /\ ReplayTTL \in Nat /\ InProgressTTL <= ReplayTTL
    /\ MaxCalls \in Nat /\ MaxFaults \in Nat /\ MaxRestarts \in Nat

VARIABLES
    key,        \* idempotency_keys, by operation
    row,        \* the payments row
    ledger,     \* balanced pairs written, by operation
    outbox,     \* events staged, by operation
    psp,        \* the processor: its one reference and what it has answered
    wire,       \* PSP requests whose sender has stopped listening
    req,        \* the requests
    told,       \* ghost: the definite answers given, by operation
    calls, faults

books == <<row, ledger, outbox>>
vars == <<key, books, psp, wire, req, told, calls, faults>>

----------------------------------------------------------------------------
(* The operations and what each of them does to the row and to the PSP.    *)

Ops == {"auth", "capture", "void", "refund"}
Lifecycle == Ops \ {"auth"}

Expected == [capture |-> "AUTHORIZED", void |-> "AUTHORIZED", refund |-> "CAPTURED"]
Target == [capture |-> "CAPTURED", void |-> "VOIDED", refund |-> "REFUNDED"]
PspExpected == [capture |-> "authorized", void |-> "authorized", refund |-> "captured"]
PspTarget == [capture |-> "captured", void |-> "voided", refund |-> "refunded"]

MovesMoney == {"capture", "refund"}             \* writes a ledger pair
Announced == {"auth", "capture", "refund"}      \* stages an event

NoRow == [status |-> "absent", ref |-> 0]
NoKey == [status |-> "absent", answer |-> "none", age |-> 0, body |-> "none"]
Key(status, answer, age, body) ==
    [status |-> status, answer |-> answer, age |-> age, body |-> body]
Idle == [at |-> "idle", op |-> "none", body |-> "none", arg |-> "none", ref |-> 0]
Req(at, op, body, arg, ref) == [at |-> at, op |-> op, body |-> body, arg |-> arg, ref |-> ref]

\* A row as the answer it implies.
Describe(r) == IF r.status = "DECLINED" THEN "declined" ELSE "ok"

----------------------------------------------------------------------------
(* The steps of a request.                                                 *)

Goto(r, at, arg, ref) == req' = [req EXCEPT ![r] = Req(at, @.op, @.body, arg, ref)]

\* A definite answer ends the request; the caller tries again on any other.
Answer(r, a) ==
    /\ req' = [req EXCEPT ![r] = Idle]
    /\ told' = [told EXCEPT ![req[r].op] = @ \cup {a}]
TryLater(r) == Goto(r, "again", "none", 0) /\ UNCHANGED told

\* The store's complete(): an UPDATE, on whatever row the key has by now.
Complete(op, a) ==
    key' = [key EXCEPT ![op] = IF @.status = "absent" THEN @
                               ELSE Key("COMPLETE", a, @.age, @.body)]

\* The saga asks for an operation.
Ask(r, op, body) ==
    /\ req[r] = Idle /\ calls < MaxCalls
    /\ req' = [req EXCEPT ![r] = Req("insert", op, body, "none", 0)]
    /\ calls' = calls + 1
    /\ UNCHANGED <<key, books, psp, wire, told, faults>>

\* What a request that holds its key does first.
First(op) == IF op = "auth" THEN "call" ELSE "read"

\* reserve(): the INSERT is the lock.
Insert(r) ==
    LET op == req[r].op IN
    /\ req[r].at = "insert"
    /\ \/ /\ key[op].status = "absent"
          /\ key' = [key EXCEPT ![op] = Key("IN_PROGRESS", "none", 0, req[r].body)]
          /\ Goto(r, First(op), "none", 0)
       \/ /\ key[op].status # "absent"
          /\ Goto(r, "look", "none", 0)
          /\ UNCHANGED key
    /\ UNCHANGED <<books, psp, wire, told, calls, faults>>

\* reserve(): the INSERT met a row; what does the row say?
\* Mutant: only answers expire, a key a dead request holds does not.
FaultyExpired(k) == k.status = "COMPLETE" /\ k.age > ReplayTTL
Expired(k) == k.age > (IF k.status = "COMPLETE" THEN ReplayTTL ELSE InProgressTTL)

Look(r) ==
    LET k == key[req[r].op] IN
    /\ req[r].at = "look"
    /\ \/ k.status = "absent" /\ TryLater(r)
       \/ k.status # "absent" /\ k.body # req[r].body /\ Answer(r, "mismatch")
       \/ /\ k.status # "absent" /\ k.body = req[r].body
          /\ \/ Expired(k) /\ Goto(r, "takeover", k.status, 0) /\ UNCHANGED told
             \/ ~Expired(k) /\ k.status = "COMPLETE" /\ Answer(r, k.answer)
             \/ ~Expired(k) /\ k.status = "IN_PROGRESS" /\ TryLater(r)
    /\ UNCHANGED <<key, books, psp, wire, calls, faults>>

\* _take_over(): the UPDATE names the status that was read, not its age.
TakeOver(r) ==
    LET op == req[r].op IN
    /\ req[r].at = "takeover"
    /\ \/ /\ key[op].status = req[r].arg
          /\ key' = [key EXCEPT ![op] = Key("IN_PROGRESS", "none", 0, req[r].body)]
          /\ Goto(r, First(op), "none", 0) /\ UNCHANGED told
       \/ key[op].status # req[r].arg /\ TryLater(r) /\ UNCHANGED key
    /\ UNCHANGED <<books, psp, wire, calls, faults>>

\* release(): a DELETE, of whatever row the key has by now; then the error.
Release(r) ==
    /\ req[r].at = "release"
    /\ key' = [key EXCEPT ![req[r].op] = NoKey]
    /\ IF req[r].arg = "conflict" THEN Answer(r, "conflict") ELSE TryLater(r)
    /\ UNCHANGED <<books, psp, wire, calls, faults>>

\* _lifecycle(): read the row; a row that is at the target is the answer.
ReadRow(r) ==
    LET op == req[r].op IN
    /\ req[r].at = "read"
    /\ \/ row.status = Target[op] /\ Goto(r, "store", Describe(row), 0)
       \/ row.status = Expected[op] /\ Goto(r, "call", "none", row.ref)
       \/ row.status \notin {Target[op], Expected[op]} /\ Goto(r, "release", "conflict", 0)
    /\ UNCHANGED <<key, books, psp, wire, told, calls, faults>>

\* The at-target answer, and the one an authorize that lost its INSERT reads
\* from the winner's row, are stored by a transaction of their own.
Store(r) ==
    /\ req[r].at = "store"
    /\ Complete(req[r].op, req[r].arg)
    /\ Answer(r, req[r].arg)
    /\ UNCHANGED <<books, psp, wire, calls, faults>>

Converge(r) ==
    /\ req[r].at = "converge"
    /\ Goto(r, "store", Describe(row), 0)
    /\ UNCHANGED <<key, books, psp, wire, told, calls, faults>>

----------------------------------------------------------------------------
(* The PSP (tools/mock-psp): it answers a key it has seen as it did then.   *)
(* Its one reference is named by how often it has started anew.             *)

\* The answers it may give to a request, each with the PSP it leaves behind.
PspState(hold, answered, gen) == [hold |-> hold, answered |-> answered, gen |-> gen]
Remembered(op, a) == [psp.answered EXCEPT ![op] = a]
PspAuthorize ==
    IF psp.answered["auth"] # "none" THEN {<<psp.answered["auth"], psp>>}
    ELSE {<<"approved", PspState("authorized", Remembered("auth", "approved"), psp.gen)>>,
          <<"declined", PspState(psp.hold, Remembered("auth", "declined"), psp.gen)>>}
PspLifecycle(op, ref) ==
    IF psp.answered[op] # "none" THEN {<<psp.answered[op], psp>>}
    ELSE IF ref # psp.gen \/ psp.hold = "none" THEN {<<"unknown", psp>>}
    ELSE IF psp.hold # PspExpected[op] THEN {<<"refused", psp>>}
    ELSE {<<"done", PspState(PspTarget[op], Remembered(op, "done"), psp.gen)>>}
PspReplies(op, ref) == IF op = "auth" THEN PspAuthorize ELSE PspLifecycle(op, ref)

\* Mutant: a void goes on whatever the PSP says.
FaultyAfterReply(op, reply) ==
    IF reply \in {"approved", "declined", "done"} \/ op = "void" THEN "write" ELSE "release"

\* Where the reply sends the request: only a void may go on without the hold.
AfterReply(op, reply) ==
    IF reply \in {"approved", "declined", "done"} \/ (reply = "unknown" /\ op = "void")
    THEN "write" ELSE "release"

\* An attempt of _post() that is answered.
Call(r) ==
    LET op == req[r].op IN
    /\ req[r].at = "call"
    /\ \E answer \in PspReplies(op, req[r].ref) :
          /\ psp' = answer[2]
          /\ IF AfterReply(op, answer[1]) = "write"
             THEN Goto(r, "write", answer[1], psp'.gen)
             ELSE Goto(r, "release", "conflict", 0)
    /\ UNCHANGED <<key, books, wire, told, calls, faults>>

\* An attempt that is not: the PSP may get it later, or never.  _post() tries
\* again with the same key or, at last, gives up.
CallUnheard(r) ==
    /\ req[r].at = "call" /\ faults < MaxFaults
    /\ faults' = faults + 1
    /\ wire' = wire \cup {[op |-> req[r].op, ref |-> req[r].ref]}
    /\ UNCHANGED req \/ Goto(r, "release", "unavailable", 0)
    /\ UNCHANGED <<key, books, psp, told, calls>>

PspLate(m) ==
    /\ m \in wire /\ wire' = wire \ {m}
    /\ \E answer \in PspReplies(m.op, m.ref) : psp' = answer[2]
    /\ UNCHANGED <<key, books, req, told, calls, faults>>

\* The mock forgets everything it knew when it restarts, and a real processor
\* forgets old authorizations.
PspRestart ==
    /\ psp.gen <= MaxRestarts
    /\ psp' = PspState("none", [op \in Ops |-> "none"], psp.gen + 1)
    /\ UNCHANGED <<key, books, wire, req, told, calls, faults>>

----------------------------------------------------------------------------
(* The transaction that makes the PSP's answer the order's state.           *)

\* Mutant: an INSERT that loses answers what its own call was told.
FaultyWriteAuth(r) ==
    LET approved == req[r].arg = "approved" IN
    /\ req[r].at = "write" /\ req[r].op = "auth"
    /\ row' = IF row.status # "absent" THEN row
              ELSE IF approved THEN [status |-> "AUTHORIZED", ref |-> req[r].ref]
              ELSE [status |-> "DECLINED", ref |-> 0]
    /\ outbox' = IF approved /\ row.status = "absent" THEN [outbox EXCEPT !["auth"] = @ + 1] ELSE outbox
    /\ Complete("auth", IF approved THEN "ok" ELSE "declined")
    /\ Answer(r, IF approved THEN "ok" ELSE "declined")
    /\ UNCHANGED <<ledger, psp, wire, calls, faults>>

\* authorize(): INSERT, event and response, or the winner's row.
WriteAuth(r) ==
    LET approved == req[r].arg = "approved" IN
    /\ req[r].at = "write" /\ req[r].op = "auth"
    /\ \/ /\ row.status = "absent"
          /\ row' = IF approved THEN [status |-> "AUTHORIZED", ref |-> req[r].ref]
                    ELSE [status |-> "DECLINED", ref |-> 0]
          /\ outbox' = IF approved THEN [outbox EXCEPT !["auth"] = @ + 1] ELSE outbox
          /\ Complete("auth", Describe(row'))
          /\ Answer(r, Describe(row'))
       \/ /\ row.status # "absent"
          /\ Goto(r, "converge", "none", 0)
          /\ UNCHANGED <<key, row, outbox, told>>
    /\ UNCHANGED <<ledger, psp, wire, calls, faults>>

\* Mutant: the move is not guarded by the status that was read.
FaultyWriteMove(r) ==
    LET op == req[r].op IN
    /\ req[r].at = "write" /\ op \in Lifecycle
    /\ row' = [status |-> Target[op], ref |-> row.ref]
    /\ ledger' = [ledger EXCEPT ![op] = IF op \in MovesMoney THEN @ + 1 ELSE @]
    /\ outbox' = [outbox EXCEPT ![op] = IF op \in Announced THEN @ + 1 ELSE @]
    /\ Complete(op, Describe(row'))
    /\ Answer(r, Describe(row'))
    /\ UNCHANGED <<psp, wire, calls, faults>>

\* _lifecycle(): the guarded move with its ledger pair and its event, or
\* whatever the row says instead.
WriteMove(r) ==
    LET op == req[r].op IN
    /\ req[r].at = "write" /\ op \in Lifecycle
    /\ \/ /\ row.status = Expected[op]
          /\ row' = [status |-> Target[op], ref |-> row.ref]
          /\ ledger' = [ledger EXCEPT ![op] = IF op \in MovesMoney THEN @ + 1 ELSE @]
          /\ outbox' = [outbox EXCEPT ![op] = IF op \in Announced THEN @ + 1 ELSE @]
       \/ row.status # Expected[op] /\ UNCHANGED books
    /\ Complete(op, Describe(row'))
    /\ Answer(r, Describe(row'))
    /\ UNCHANGED <<psp, wire, calls, faults>>

----------------------------------------------------------------------------
(* The world around a request.                                             *)

\* The instance dies, or the caller stops waiting and the request is lost;
\* the caller hears nothing and tries again.
Crash(r) ==
    /\ req[r].at \notin {"idle", "again"} /\ faults < MaxFaults
    /\ faults' = faults + 1
    /\ TryLater(r)
    /\ UNCHANGED <<key, books, psp, wire, calls>>

\* Temporal runs the activity again ...
Retry(r) ==
    /\ req[r].at = "again"
    /\ Goto(r, "insert", "none", 0)
    /\ UNCHANGED <<key, books, psp, wire, told, calls, faults>>

\* ... except that an authorize may run out of its schedule_to_close.
GiveUp(r) ==
    /\ req[r].at = "again" /\ req[r].op = "auth"
    /\ req' = [req EXCEPT ![r] = Idle]
    /\ UNCHANGED <<key, books, psp, wire, told, calls, faults>>

\* Time passes for a key; past ReplayTTL nothing changes any more.
Age(op) ==
    /\ key[op].status # "absent" /\ key[op].age <= ReplayTTL
    /\ key' = [key EXCEPT ![op] = Key(@.status, @.answer, @.age + 1, @.body)]
    /\ UNCHANGED <<books, psp, wire, req, told, calls, faults>>

----------------------------------------------------------------------------
Init ==
    /\ key = [op \in Ops |-> NoKey]
    /\ row = NoRow
    /\ ledger = [op \in Ops |-> 0] /\ outbox = [op \in Ops |-> 0]
    /\ psp = PspState("none", [op \in Ops |-> "none"], 1)
    /\ wire = {}
    /\ req = [r \in Requests |-> Idle]
    /\ told = [op \in Ops |-> {}]
    /\ calls = 0 /\ faults = 0

Serve(r) ==
    \/ Insert(r) \/ Look(r) \/ TakeOver(r) \/ Release(r)
    \/ ReadRow(r) \/ Store(r) \/ Converge(r)
    \/ Call(r) \/ WriteAuth(r) \/ WriteMove(r)

Next ==
    \/ \E r \in Requests :
          \/ \E body \in Bodies : Ask(r, "auth", body)
          \/ \E op \in Lifecycle : Ask(r, op, "none")
          \/ Serve(r) \/ CallUnheard(r) \/ Crash(r) \/ Retry(r) \/ GiveUp(r)
    \/ \E m \in wire : PspLate(m)
    \/ PspRestart
    \/ \E op \in Ops : Age(op)

Spec == Init /\ [][Next]_vars

\* A live instance goes on with its requests, Temporal runs a failed activity
\* again, and time passes.
Fairness ==
    /\ \A r \in Requests : WF_vars(Serve(r)) /\ WF_vars(Retry(r))
    /\ \A op \in Ops : WF_vars(Age(op))
FairSpec == Spec /\ Fairness

----------------------------------------------------------------------------
Statuses == {"absent", "AUTHORIZED", "DECLINED", "CAPTURED", "VOIDED", "REFUNDED"}
Verdicts == {"ok", "declined"}
Places == {"idle", "insert", "look", "takeover", "read", "call",
           "write", "store", "converge", "release", "again"}
Args == {"none", "IN_PROGRESS", "COMPLETE", "approved", "declined", "done",
         "unknown", "ok", "conflict", "unavailable"}
KeyTypes == [status : {"absent", "IN_PROGRESS", "COMPLETE"},
             answer : Verdicts \cup {"none"}, age : Nat, body : Bodies \cup {"none"}]
ReqTypes == [at : Places, op : Ops \cup {"none"}, body : Bodies \cup {"none"},
             arg : Args, ref : Nat]
PspTypes == [hold : {"none", "authorized", "captured", "voided", "refunded"},
             answered : [Ops -> {"none", "approved", "declined", "done"}], gen : Nat]

TypeOK ==
    /\ key \in [Ops -> KeyTypes]
    /\ \A op \in Ops : key[op].status = "COMPLETE" => key[op].answer \in Verdicts
    /\ row \in [status : Statuses, ref : Nat]
    /\ ledger \in [Ops -> Nat] /\ outbox \in [Ops -> Nat]
    /\ psp \in PspTypes
    /\ wire \subseteq [op : Ops, ref : Nat]
    /\ req \in [Requests -> ReqTypes]
    /\ \A r \in Requests : /\ req[r].at # "idle" => req[r].op \in Ops
                           /\ req[r].at = "read" => req[r].op \in Lifecycle
                           /\ req[r].at = "store" => req[r].arg \in Verdicts
    /\ told \in [Ops -> SUBSET (Verdicts \cup {"mismatch", "conflict"})]
    /\ calls \in Nat /\ faults \in Nat

\* The books are written once per movement of the row, however often an
\* operation was executed: an order that was captured has one capture pair and
\* one PaymentCaptured event, an order that was refunded one reversing pair,
\* and no other order has any (transition_payment's guard).
EntriesMatchRow ==
    LET captured == row.status \in {"CAPTURED", "REFUNDED"}
        refunded == row.status = "REFUNDED" IN
    /\ ledger["capture"] = IF captured THEN 1 ELSE 0
    /\ ledger["refund"] = IF refunded THEN 1 ELSE 0
    /\ outbox["auth"] = IF row.status \in {"absent", "DECLINED"} THEN 0 ELSE 1
    /\ outbox["capture"] = ledger["capture"] /\ outbox["refund"] = ledger["refund"]

\* The row never says more than the PSP has done with the reference it names:
\* money the books call captured was captured, a hold they call voided is
\* gone, and a payment they call authorized has not been refunded.
BooksAgree ==
    row.ref = psp.gen =>
        /\ row.status = "AUTHORIZED" => psp.hold # "refunded"
        /\ row.status = "CAPTURED" => psp.hold \in {"captured", "refunded"}
        /\ row.status = "VOIDED" => psp.hold = "voided"
        /\ row.status = "REFUNDED" => psp.hold = "refunded"

\* "Was my card charged?" has one answer: whoever asks, and however often the
\* key expired, was taken over or was deleted in between, an authorize that
\* was once answered is never answered otherwise.
OneVerdict == ~(Verdicts \subseteq told["auth"])

\* An operation that was answered with success has happened, also when the
\* answer was stored by one instance and read by another; only a PSP that
\* forgot the order can have made it otherwise.
SuccessIsReal ==
    psp.gen = 1 =>
        /\ "ok" \in told["auth"] => row.status \notin {"absent", "DECLINED"}
        /\ "ok" \in told["capture"] => row.status \in {"CAPTURED", "REFUNDED"}
        /\ "ok" \in told["void"] => row.status = "VOIDED"
        /\ "ok" \in told["refund"] => row.status = "REFUNDED"

\* A caller that keeps trying is answered in the end, although a dead instance
\* may hold its key: the key expires and is taken over.
RetriesEnd ==
    \A r \in Requests : req[r].op \in Lifecycle ~> req[r] = Idle
=============================================================================
