---------------------------- MODULE CustomerProofs ----------------------------
(***************************************************************************)
(* Theorems about what reaches a customer and the tabs that show it.       *)
(*                                                                         *)
(* Receipts and Live, for every number of orders, Celery messages, retries *)
(* and faults, and for every length of an order's life: every copy of a    *)
(* receipt has its reason, the delivery log and the row agree, and a page  *)
(* that has heard everything shows the record.                             *)
(*                                                                         *)
(* Identity, for any tabs, requests, grants, keys, limits and faults: a    *)
(* tab stays signed in, an owner's token follows the grant, services see   *)
(* roles that are in the account's rows, and grants exclude each other.    *)
(***************************************************************************)
EXTENDS Receipts, Live, Identity, FiniteSetTheorems, TLAPS

\* A send between the check of the log and its record: before the provider's
\* answer, and after it.
IsAsking(k, o) == k.order = o /\ k.at \in {"checked", "resolved"}
IsAccepted(k, o) == k.order = o /\ k.at = "accepted"
Asking(o) == {m \in Messages : IsAsking(task[m], o)}
Accepted(o) == {m \in Messages : IsAccepted(task[m], o)}

\* One order's sends that ask and that were accepted, its inbox, its forgotten
\* copies, whether the log has it, and whether its chains overlapped.  What was
\* mailed and not forgotten is accepted by a send still at work; once the log has
\* the order, what may still be mailed is what had passed the check by then.
SendOk(ask, acc, box, lost, filed, many) ==
    /\ ~filed => box <= lost + acc
    /\ filed => box + ask <= lost + IF many THEN Cardinality(Messages) ELSE 1
    /\ ~many => ask + acc <= 1
    /\ ~many /\ filed => ask + acc = 0

SendInv ==
    \A o \in Orders : SendOk(Cardinality(Asking(o)), Cardinality(Accepted(o)),
                             inboxes[o], spare[o], o \in logged, o \in overlapped)

\* The row, the log and the inbox: a logged receipt has a row, and a send that
\* was accepted has mailed.
LedgerInv ==
    /\ LedgerAgrees
    /\ \A o \in logged : receipt[o].status # "none"
    /\ \A m \in Messages : \A o \in Orders : IsAccepted(task[m], o) => inboxes[o] > 0

\* The write activity has an attempt left while it runs.
RefundInv == \A r \in Refunds : refund[r].wf \in {"none", "lookup", "write"} => refund[r].writes < MaxWrites

ReceiptInv == TypeOK /\ RefundInv /\ SendInv /\ LedgerInv

-----------------------------------------------------------------------------
(* Types. *)

\* A message slot that moves on holds a task again.
LEMMA SlotTypes ==
    ASSUME TypeOK, NEW m \in Messages
    PROVE  /\ NoTask \in Task /\ task[m] \in Task
           /\ \A s \in RenderSteps \cup SendSteps : [task[m] EXCEPT !.at = s] \in Task
           /\ \A s \in RenderSteps \cup SendSteps : Move(m, s) => task' \in [Messages -> Task]
           /\ \A s \in RenderSteps \cup SendSteps : Retry(m, s) => task' \in [Messages -> Task]
           /\ Finish(m) => task' \in [Messages -> Task]
<1>1. NoTask \in Task /\ task[m] \in Task
  BY BoundsAreNat DEF NoTask, Task, TypeOK, RenderSteps
<1>2. ASSUME NEW s \in RenderSteps \cup SendSteps PROVE [task[m] EXCEPT !.at = s] \in Task
  BY <1>1 DEF Task
<1>3. ASSUME NEW s \in RenderSteps \cup SendSteps, Move(m, s) PROVE task' \in [Messages -> Task]
  BY <1>2, <1>3 DEF Move, TypeOK
<1>4. ASSUME NEW s \in RenderSteps \cup SendSteps, Retry(m, s) PROVE task' \in [Messages -> Task]
  <2> DEFINE n == [task[m] EXCEPT !.at = s, !.tries = task[m].tries + 1]
  <2>1. task[m].tries < MaxRetries => task[m].tries + 1 \in 0..MaxRetries
    BY <1>1, BoundsAreNat DEF Task
  <2>0. task[m].tries < MaxRetries => n \in Task
    BY <1>1, <2>1 DEF Task
  <2>2. task' = [task EXCEPT ![m] = IF task[m].tries < MaxRetries THEN n ELSE NoTask]
    BY <1>4 DEF Retry
  <2> QED
    BY <1>1, <2>0, <2>2 DEF TypeOK
<1>5. Finish(m) => task' \in [Messages -> Task]
  BY <1>1 DEF Finish, TypeOK
<1> QED
  BY <1>1, <1>2, <1>3, <1>4, <1>5

\* Where a message is when its task moved on, failed or ended.
LEMMA SlotMoves ==
    ASSUME TypeOK, NEW m \in Messages
    PROVE  /\ \A s : Move(m, s) => task'[m].at = s /\ task'[m].order = task[m].order
           /\ \A s : Retry(m, s) => task'[m].at \in {s, "render"}
           /\ Finish(m) => task'[m].at = "render"
<1>1. task[m] \in Task /\ NoTask.at = "render"
  BY DEF TypeOK, NoTask
<1>2. ASSUME NEW s, Move(m, s) PROVE task'[m].at = s /\ task'[m].order = task[m].order
  <2>1. task'[m] = [task[m] EXCEPT !.at = s]
    BY <1>2 DEF Move, TypeOK
  <2> QED
    BY <1>1, <2>1 DEF Task
<1>3. ASSUME NEW s, Retry(m, s) PROVE task'[m].at \in {s, "render"}
  <2>1. task'[m] \in {[task[m] EXCEPT !.at = s, !.tries = task[m].tries + 1], NoTask}
    BY <1>3 DEF Retry, TypeOK
  <2> QED
    BY <1>1, <2>1 DEF Task
<1>4. Finish(m) => task'[m].at = "render"
  BY <1>1 DEF Finish, TypeOK
<1> QED
  BY <1>2, <1>3, <1>4

\* A row takes any status and keeps its shape.
LEMMA RowTypes ==
    ASSUME TypeOK, NEW o \in Orders, NEW s \in ReceiptStatus
    PROVE  [receipt EXCEPT ![o].status = s] \in [Orders -> ReceiptRow]
BY DEF TypeOK, ReceiptRow

\* Every state starts well typed, with nothing sent.
LEMMA ReceiptsBegin == Init => ReceiptInv
<1> SUFFICES ASSUME Init PROVE ReceiptInv
  OBVIOUS
<1>1. TypeOK /\ RefundInv
  <2>1. task \in [Messages -> Task] /\ faults \in 0..MaxFaults
    BY BoundsAreNat DEF Init, NoTask, Task, RenderSteps
  <2>2. receipt \in [Orders -> ReceiptRow] /\ copies \in [Orders -> 0..MaxCopies] /\ reach \in [Orders -> Reach]
    BY DEF Init, ReceiptRow
  <2>3. refund \in [Refunds -> RefundState] /\ \A r \in Refunds : refund[r].writes = 0
    BY DEF Init
  <2> QED
    BY <2>1, <2>2, <2>3, BoundsAreNat DEF Init, TypeOK, RefundInv
<1>2. ASSUME NEW o \in Orders PROVE Asking(o) = {} /\ Accepted(o) = {}
  BY NoOrderIsNone DEF Init, Asking, Accepted, IsAsking, IsAccepted, NoTask
<1>3. SendInv
  <2>1. ASSUME NEW o \in Orders
        PROVE  /\ Cardinality(Asking(o)) = 0 /\ Cardinality(Accepted(o)) = 0
               /\ inboxes[o] = 0 /\ spare[o] = 0 /\ o \notin logged /\ o \notin overlapped
    BY <1>2, FS_EmptySet DEF Init
  <2> QED
    BY <2>1 DEF SendInv, SendOk
<1>4. LedgerInv
  BY NoOrderIsNone DEF LedgerInv, LedgerAgrees, IsAccepted, Init, NoTask
<1> QED
  BY <1>1, <1>3, <1>4 DEF ReceiptInv

\* Every step leaves the rows, the messages and the counters well shaped, and a
\* refund's workflow within its attempts.
LEMMA TypesStep == TypeOK /\ RefundInv /\ [Next]_vars => TypeOK' /\ RefundInv'
<1> SUFFICES ASSUME TypeOK, RefundInv, [Next]_vars PROVE TypeOK' /\ RefundInv'
  OBVIOUS
<1> USE BoundsAreNat
<1>1. CASE UNCHANGED vars
  BY <1>1 DEF TypeOK, RefundInv, vars
<1>2. ASSUME NEW o \in Orders, InboxHandlerSettled(o) PROVE TypeOK' /\ RefundInv'
  <2>1. copies' \in [Orders -> 0..MaxCopies]
    BY <1>2 DEF InboxHandlerSettled, TypeOK
  <2>2. receipt' \in [Orders -> ReceiptRow]
    BY <1>2, RowTypes DEF InboxHandlerSettled, insert_receipt, ReceiptStatus, TypeOK
  <2> QED
    BY <1>2, <2>1, <2>2 DEF InboxHandlerSettled, TypeOK, RefundInv
<1>3. ASSUME NEW o \in Orders, enqueue_receipt_chain(o) PROVE task' \in [Messages -> Task]
  BY <1>3 DEF enqueue_receipt_chain, TypeOK, Task, RenderSteps
<1>4. Fault => faults' \in 0..MaxFaults
  BY DEF Fault, TypeOK
<1>5. ASSUME NEW o \in Orders, enqueue_receipt(o) \/ SweepEnqueue(o) PROVE TypeOK' /\ RefundInv'
  BY <1>3, <1>4, <1>5 DEF enqueue_receipt, SweepEnqueue, TypeOK, RefundInv
<1>6. ASSUME NEW o \in Orders, ChangeContact(o) \/ HumanReplay(o) PROVE TypeOK' /\ RefundInv'
  <2>1. HumanReplay(o) => receipt' \in [Orders -> ReceiptRow]
    BY RowTypes DEF HumanReplay, ReceiptStatus
  <2> QED
    BY <1>4, <1>6, <2>1 DEF ChangeContact, HumanReplay, TypeOK, RefundInv
<1>7. ASSUME NEW m \in Messages, Work(m) \/ WorkerLost(m) \/ DatabaseFails(m) PROVE TypeOK' /\ RefundInv'
  <2> DEFINE o == task[m].order
  <2>1. o # NoOrder => o \in Orders
    BY DEF TypeOK, Task
  <2>2. task' \in [Messages -> Task]
    <3>1. CASE render_receipt_record(m)
      <4>1. 0 \in 0..MaxRetries
        OBVIOUS
      <4>2. [task[m] EXCEPT !.at = "send", !.tries = 0] \in Task
        <5>1. task[m] \in Task
          BY SlotTypes
        <5> QED
          BY <4>1, <5>1 DEF Task, SendSteps
      <4> QED
        BY <3>1, <4>2 DEF render_receipt_record, TypeOK
    <3>2. CASE WorkerLost(m) \/ DatabaseFails(m)
      BY <3>2, SlotTypes DEF WorkerLost, DatabaseFails, RenderSteps, SendSteps
    <3>3. CASE render_receipt_load(m) \/ render_receipt_put(m)
      BY <3>3, SlotTypes DEF render_receipt_load, render_receipt_put, RenderSteps
    <3>4. CASE send_receipt_check(m) \/ email_for(m) \/ sender_send(m) \/ send_receipt_record(m)
      BY <3>4, SlotTypes DEF send_receipt_check, email_for, sender_send, send_receipt_record, SendSteps
    <3> QED
      BY <1>7, <3>1, <3>2, <3>3, <3>4 DEF Work
  <2>3. /\ copies' = copies /\ nudge' = nudge /\ reach' = reach /\ sweep' = sweep /\ refund' = refund
        /\ faults' \in 0..MaxFaults
    BY <1>4, <1>7 DEF Work, WorkerLost, DatabaseFails, render_receipt_load, render_receipt_put, render_receipt_record,
                      send_receipt_check, email_for, sender_send, send_receipt_record, TypeOK
  <2>4. receipt' \in [Orders -> ReceiptRow]
    <3>1. CASE render_receipt_record(m)
      BY <2>1, <3>1 DEF render_receipt_record, Step, TypeOK, ReceiptRow
    <3>2. CASE email_for(m) \/ sender_send(m) \/ send_receipt_record(m)
      <4>1. o \in Orders
        BY <2>1, <3>2 DEF email_for, sender_send, send_receipt_record, Step
      <4>2. \/ receipt' = receipt \/ receipt' = [receipt EXCEPT ![o].status = "parked"]
            \/ receipt' = [receipt EXCEPT ![o].status = "sent"]
        BY <3>2 DEF email_for, sender_send, send_receipt_record, _park
      <4> QED
        <5>1. receipt \in [Orders -> ReceiptRow]
          BY DEF TypeOK
        <5>2. "parked" \in ReceiptStatus /\ "sent" \in ReceiptStatus
          BY DEF ReceiptStatus
        <5> QED
          BY <4>1, <4>2, <5>1, <5>2, RowTypes
    <3> QED
      BY <1>7, <3>1, <3>2 DEF Work, WorkerLost, DatabaseFails, render_receipt_load, render_receipt_put, send_receipt_check, TypeOK
  <2>5. inboxes' \in [Orders -> Nat] /\ spare' \in [Orders -> Nat]
    BY <1>7 DEF Work, WorkerLost, DatabaseFails, render_receipt_load, render_receipt_put, render_receipt_record,
                send_receipt_check, email_for, sender_send, send_receipt_record, TypeOK
  <2>6. logged' \subseteq Orders /\ overlapped' \subseteq Orders
    BY <1>7, <2>1 DEF Work, WorkerLost, DatabaseFails, render_receipt_load, render_receipt_put, render_receipt_record,
                      send_receipt_check, email_for, sender_send, send_receipt_record, Step, TypeOK
  <2> QED
    BY <2>2, <2>3, <2>4, <2>5, <2>6 DEF TypeOK, RefundInv
<1>8. CASE sweep_unsent_receipts
  BY <1>8 DEF sweep_unsent_receipts, owed, TypeOK, RefundInv
<1>9. ASSUME NEW r \in Refunds, notify_refund(r) \/ RefundNotificationWorkflow(r) PROVE TypeOK' /\ RefundInv'
  <2>1. refund[r] \in RefundState
    BY DEF TypeOK
  <2>2. ASSUME NEW n \in RefundState, Refunded(r, n), faults' \in 0..MaxFaults,
               n.wf \in {"none", "lookup", "write"} => n.writes < MaxWrites
        PROVE  TypeOK' /\ RefundInv'
    BY <2>2 DEF Refunded, TypeOK, RefundInv
  <2>3. CASE notify_refund(r)
    <3> DEFINE n == [refund[r] EXCEPT !.copies = @ - 1, !.wf = IF @ = "none" THEN "lookup" ELSE @]
    <3>1. n \in RefundState /\ n.writes = refund[r].writes
          /\ (n.wf \in {"none", "lookup", "write"} => refund[r].wf \in {"none", "lookup", "write"})
      <4>1. refund[r].copies \in 0..MaxCopies /\ refund[r].copies > 0
        BY <2>1, <2>3 DEF notify_refund, RefundState
      <4>2. refund[r].copies - 1 \in 0..MaxCopies
        BY <4>1
      <4> QED
        BY <2>1, <4>2 DEF RefundState
    <3>2. n.wf \in {"none", "lookup", "write"} => n.writes < MaxWrites
      BY <3>1 DEF RefundInv
    <3> QED
      BY <2>2, <2>3, <3>1, <3>2 DEF notify_refund, TypeOK
  <2>4. CASE fetch_recipients(r)
    <3>1. ASSUME NEW w \in {"write", "failed"}
          PROVE  LET n == [refund[r] EXCEPT !.wf = w] IN n \in RefundState /\ n.writes < MaxWrites
      BY <2>1, <2>4 DEF fetch_recipients, RefundState, RefundInv
    <3>2. PICK w \in {"write", "failed"} : Refunded(r, [refund[r] EXCEPT !.wf = w]) /\ faults' \in 0..MaxFaults
      BY <1>4, <2>4 DEF fetch_recipients, TypeOK
    <3> QED
      BY <2>2, <3>1, <3>2
  <2>5. CASE write_notification(r)
    <3> DEFINE next == [refund[r] EXCEPT !.writes = @ + 1,
                                         !.wf = IF refund[r].writes + 1 = MaxWrites THEN "failed" ELSE @]
    <3>1. refund[r].writes \in 0..MaxWrites /\ refund[r].wf = "write" /\ refund[r].writes < MaxWrites
      BY <2>1, <2>5 DEF write_notification, RefundState, RefundInv
    <3>8. /\ refund[r].writes + 1 \in 0..MaxWrites
          /\ refund[r].writes + 1 # MaxWrites => refund[r].writes + 1 < MaxWrites
      BY <3>1
    <3>9. next.writes = refund[r].writes + 1 /\ next.wf = IF refund[r].writes + 1 = MaxWrites THEN "failed" ELSE "write"
      BY <2>1, <3>1 DEF RefundState
    <3>10. next \in RefundState
      BY <2>1, <3>1, <3>8 DEF RefundState
    <3>2. next \in RefundState /\ (next.wf = "write" => next.writes < MaxWrites) /\ next.wf \in {"write", "failed"}
      BY <3>8, <3>9, <3>10
    <3>3. LET n == [next EXCEPT !.row = TRUE, !.unheard = TRUE]
          IN  n \in RefundState /\ n.wf = next.wf /\ n.writes = next.writes
      BY <3>2 DEF RefundState
    <3>4. ASSUME NEW heard \in BOOLEAN
          PROVE  LET n == [refund[r] EXCEPT !.wf = "done", !.row = TRUE, !.unheard = ~heard]
                 IN  n \in RefundState /\ n.wf = "done"
      BY <2>1 DEF RefundState
    <3>5. CASE \E heard \in BOOLEAN :
                  Refunded(r, [refund[r] EXCEPT !.wf = "done", !.row = TRUE, !.unheard = ~heard]) /\ UNCHANGED faults
      BY <2>2, <3>4, <3>5 DEF TypeOK
    <3>6. CASE Fault /\ Refunded(r, next)
      BY <1>4, <2>2, <3>2, <3>6
    <3>7. CASE Fault /\ Refunded(r, [next EXCEPT !.row = TRUE, !.unheard = TRUE])
      BY <1>4, <2>2, <3>2, <3>3, <3>7
    <3> QED
      BY <2>5, <3>5, <3>6, <3>7 DEF write_notification
  <2> QED
    BY <1>9, <2>3, <2>4, <2>5 DEF RefundNotificationWorkflow
<1> QED
  BY <1>1, <1>2, <1>5, <1>6, <1>7, <1>8, <1>9 DEF Next

-----------------------------------------------------------------------------
(* Copies and the log. *)

One(p) == IF p THEN 1 ELSE 0

\* A set of messages that changes in one message changes its size by that one.
LEMMA OneMoves ==
    ASSUME NEW C \in SUBSET Messages, NEW D \in SUBSET Messages, NEW m, D \ {m} = C \ {m}
    PROVE  /\ Cardinality(C) \in Nat /\ Cardinality(D) \in Nat
           /\ Cardinality(D) = Cardinality(C) + One(m \in D) - One(m \in C)
<1>1. IsFiniteSet(C) /\ IsFiniteSet(D)
  BY MessagesFinite, FS_Subset
<1>2. Cardinality(C) \in Nat /\ Cardinality(D) \in Nat /\ Cardinality(C \ {m}) \in Nat
  BY <1>1, FS_CardinalityType, FS_RemoveElement
<1>3. /\ Cardinality(C \ {m}) = Cardinality(C) - One(m \in C)
      /\ Cardinality(D \ {m}) = Cardinality(D) - One(m \in D)
  <2>1. /\ Cardinality(C \ {m}) = IF m \in C THEN Cardinality(C) - 1 ELSE Cardinality(C)
        /\ Cardinality(D \ {m}) = IF m \in D THEN Cardinality(D) - 1 ELSE Cardinality(D)
    BY <1>1, FS_RemoveElement
  <2> QED
    BY <1>2, <2>1 DEF One
<1>4. One(m \in C) \in {0, 1} /\ One(m \in D) \in {0, 1}
  BY DEF One
<1> QED
  BY <1>2, <1>3, <1>4

\* The sends of one order: how many there are, and what one of them shows.
LEMMA Counts ==
    ASSUME NEW o
    PROVE  LET a == Cardinality(Asking(o))
               b == Cardinality(Accepted(o))
           IN  /\ a \in Nat /\ b \in Nat /\ Cardinality(Messages) \in Nat
               /\ a + b <= Cardinality(Messages)
               /\ Sending(o) = {} => a + b = 0
               /\ \A m \in Messages : /\ IsAsking(task[m], o) => a > 0
                                      /\ IsAccepted(task[m], o) => b > 0
<1>1. /\ IsFiniteSet(Asking(o)) /\ IsFiniteSet(Accepted(o)) /\ IsFiniteSet(Messages)
      /\ Asking(o) \in SUBSET Messages /\ Accepted(o) \in SUBSET Messages
  BY MessagesFinite, FS_Subset DEF Asking, Accepted
<1>2. Asking(o) \cap Accepted(o) = {} /\ Asking(o) \cup Accepted(o) = Sending(o)
  BY DEF Asking, Accepted, IsAsking, IsAccepted, Sending
<1>3. Cardinality(Sending(o)) = Cardinality(Asking(o)) + Cardinality(Accepted(o)) - Cardinality(Asking(o) \cap Accepted(o))
  BY <1>1, <1>2, FS_Union
<1>4. Cardinality(Asking(o) \cap Accepted(o)) = 0
  BY <1>2, FS_EmptySet
<1>5. Sending(o) \in SUBSET Messages /\ Cardinality(Sending(o)) <= Cardinality(Messages)
  BY <1>1, FS_Subset DEF Sending
<1>6. Cardinality(Asking(o)) \in Nat /\ Cardinality(Accepted(o)) \in Nat /\ Cardinality(Messages) \in Nat
  BY <1>1, FS_CardinalityType
<1>7. Sending(o) = {} => Cardinality(Sending(o)) = 0
  BY FS_EmptySet
<1>8. ASSUME NEW m \in Messages
      PROVE  /\ IsAsking(task[m], o) => Cardinality(Asking(o)) # 0
             /\ IsAccepted(task[m], o) => Cardinality(Accepted(o)) # 0
  BY <1>1, FS_EmptySet DEF Asking, Accepted
<1> QED
  BY <1>3, <1>4, <1>5, <1>6, <1>7, <1>8

\* A step of one message: how many sends of an order there are after it.
LEMMA TaskMoves ==
    ASSUME TypeOK, NEW m \in Messages, NEW n, task' = [task EXCEPT ![m] = n], NEW o
    PROVE  /\ Cardinality(Asking(o)') = Cardinality(Asking(o)) + One(IsAsking(n, o)) - One(IsAsking(task[m], o))
           /\ Cardinality(Accepted(o)') = Cardinality(Accepted(o)) + One(IsAccepted(n, o)) - One(IsAccepted(task[m], o))
<1>1. task'[m] = n /\ \A k \in Messages \ {m} : task'[k] = task[k]
  BY DEF TypeOK
<1>2. /\ Asking(o)' \in SUBSET Messages /\ Asking(o)' \ {m} = Asking(o) \ {m} /\ Asking(o) \in SUBSET Messages
      /\ (m \in Asking(o)' <=> IsAsking(n, o)) /\ (m \in Asking(o) <=> IsAsking(task[m], o))
  BY <1>1 DEF Asking
<1>3. /\ Accepted(o)' \in SUBSET Messages /\ Accepted(o)' \ {m} = Accepted(o) \ {m} /\ Accepted(o) \in SUBSET Messages
      /\ (m \in Accepted(o)' <=> IsAccepted(n, o)) /\ (m \in Accepted(o) <=> IsAccepted(task[m], o))
  BY <1>1 DEF Accepted
<1>4. Cardinality(Asking(o)') = Cardinality(Asking(o)) + One(m \in Asking(o)') - One(m \in Asking(o))
  BY <1>2, OneMoves
<1>5. Cardinality(Accepted(o)') = Cardinality(Accepted(o)) + One(m \in Accepted(o)') - One(m \in Accepted(o))
  BY <1>3, OneMoves
<1> QED
  BY <1>2, <1>3, <1>4, <1>5 DEF One

\* A step of one order's send that leaves that order right leaves all right.
LEMMA OneSend ==
    ASSUME TypeOK, SendInv, NEW m \in Messages, NEW n, task' = [task EXCEPT ![m] = n],
           NEW o \in Orders, task[m].order = o, n.order \in {o, NoOrder},
           \A p \in Orders \ {o} : /\ inboxes'[p] = inboxes[p] /\ spare'[p] = spare[p]
                                   /\ (p \in logged' <=> p \in logged)
                                   /\ (p \in overlapped' <=> p \in overlapped),
           SendOk(Cardinality(Asking(o)) + One(IsAsking(n, o)) - One(IsAsking(task[m], o)),
                  Cardinality(Accepted(o)) + One(IsAccepted(n, o)) - One(IsAccepted(task[m], o)),
                  inboxes'[o], spare'[o], o \in logged', o \in overlapped')
    PROVE  SendInv'
<1>0. ASSUME NEW p
      PROVE  /\ Cardinality(Asking(p)') = Cardinality(Asking(p)) + One(IsAsking(n, p)) - One(IsAsking(task[m], p))
             /\ Cardinality(Accepted(p)') = Cardinality(Accepted(p)) + One(IsAccepted(n, p)) - One(IsAccepted(task[m], p))
             /\ Cardinality(Asking(p)) \in Nat /\ Cardinality(Accepted(p)) \in Nat
  BY TaskMoves, Counts
<1>1. ASSUME NEW p \in Orders \ {o}
      PROVE  Cardinality(Asking(p)') = Cardinality(Asking(p)) /\ Cardinality(Accepted(p)') = Cardinality(Accepted(p))
  <2>1. ~IsAsking(n, p) /\ ~IsAsking(task[m], p) /\ ~IsAccepted(n, p) /\ ~IsAccepted(task[m], p)
    BY NoOrderIsNone DEF IsAsking, IsAccepted
  <2> QED
    BY <1>0, <2>1 DEF One
<1>2. ASSUME NEW p \in Orders \ {o}
      PROVE  SendOk(Cardinality(Asking(p)'), Cardinality(Accepted(p)'),
                    inboxes'[p], spare'[p], p \in logged', p \in overlapped')
  BY <1>1 DEF SendInv, SendOk
<1>3. SendOk(Cardinality(Asking(o)'), Cardinality(Accepted(o)'),
             inboxes'[o], spare'[o], o \in logged', o \in overlapped')
  BY <1>0
<1> QED
  BY <1>2, <1>3 DEF SendInv

\* A step that sends nothing: a message that was not sending is not sending after.
LEMMA NoSend ==
    ASSUME TypeOK, SendInv, UNCHANGED <<inboxes, spare, logged, overlapped>>,
           \/ task' = task
           \/ \E m \in Messages : \E n \in Task :
                 /\ task' = [task EXCEPT ![m] = n]
                 /\ \A k \in {task[m], n} : k.at \in RenderSteps \cup {"send"}
    PROVE  /\ SendInv'
           /\ \A m \in Messages : \A o \in Orders : IsAccepted(task'[m], o) => IsAccepted(task[m], o)
<1>1. CASE task' = task
  BY <1>1 DEF SendInv, Asking, Accepted
<1>2. ASSUME NEW m \in Messages, NEW n \in Task, task' = [task EXCEPT ![m] = n],
             \A k \in {task[m], n} : k.at \in RenderSteps \cup {"send"}
      PROVE  /\ SendInv'
             /\ \A k \in Messages : \A o \in Orders : IsAccepted(task'[k], o) => IsAccepted(task[k], o)
  <2>1. task'[m] = n /\ \A k \in Messages \ {m} : task'[k] = task[k]
    BY <1>2 DEF TypeOK
  <2>2. \A o : ~IsAsking(n, o) /\ ~IsAsking(task[m], o) /\ ~IsAccepted(n, o) /\ ~IsAccepted(task[m], o)
    BY <1>2 DEF IsAsking, IsAccepted, RenderSteps
  <2>3. \A o \in Orders : Asking(o)' = Asking(o) /\ Accepted(o)' = Accepted(o)
    BY <2>1, <2>2 DEF Asking, Accepted
  <2>4. SendInv'
    BY <2>3 DEF SendInv
  <2> QED
    BY <2>1, <2>2, <2>4
<1> QED
  BY <1>1, <1>2

\* The ledger stays right when neither row, log nor inbox changes, and nothing
\* new was accepted.
LEMMA LedgerKept ==
    ASSUME LedgerInv, UNCHANGED <<receipt, logged, inboxes>>, overlapped \subseteq overlapped',
           \A m \in Messages : \A o \in Orders : IsAccepted(task'[m], o) => IsAccepted(task[m], o)
    PROVE  LedgerInv'
BY DEF LedgerInv, LedgerAgrees

\* A worker moves one order's send: out of it by retry, death or end, within it
\* by an answer.  What it adds to the inbox is either accepted or forgotten.
LEMMA SendStep ==
    ASSUME ReceiptInv, NEW m \in Messages,
           \/ WorkerLost(m) \/ DatabaseFails(m) \/ send_receipt_check(m) \/ email_for(m)
           \/ sender_send(m) \/ send_receipt_record(m)
    PROVE  SendInv'
<1> DEFINE o == task[m].order
           a == Cardinality(Asking(o))
           b == Cardinality(Accepted(o))
<1>1. /\ TypeOK /\ SendInv /\ o \in Orders /\ task[m] \in Task
      /\ \A s \in RenderSteps \cup SendSteps : [task[m] EXCEPT !.at = s].order = o /\ [task[m] EXCEPT !.at = s].at = s
  BY SlotTypes DEF ReceiptInv, WorkerLost, DatabaseFails, send_receipt_check, email_for, sender_send, send_receipt_record,
                   Step, TypeOK, Task
<1>2. /\ a \in Nat /\ b \in Nat /\ Cardinality(Messages) \in Nat /\ a + b <= Cardinality(Messages)
      /\ Sending(o) = {} => a + b = 0
      /\ (IsAsking(task[m], o) => a > 0) /\ (IsAccepted(task[m], o) => b > 0)
      /\ inboxes[o] \in Nat /\ spare[o] \in Nat
  BY <1>1, Counts DEF TypeOK
<1>3. SendOk(a, b, inboxes[o], spare[o], o \in logged, o \in overlapped)
  BY <1>1 DEF SendInv
<1>4. ASSUME NEW n, task' = [task EXCEPT ![m] = n], n.order \in {o, NoOrder},
             \A p \in Orders \ {o} : /\ inboxes'[p] = inboxes[p] /\ spare'[p] = spare[p]
                                     /\ (p \in logged' <=> p \in logged)
                                     /\ (p \in overlapped' <=> p \in overlapped),
             SendOk(a + One(IsAsking(n, o)) - One(IsAsking(task[m], o)),
                    b + One(IsAccepted(n, o)) - One(IsAccepted(task[m], o)),
                    inboxes'[o], spare'[o], o \in logged', o \in overlapped')
      PROVE  SendInv'
  BY <1>1, <1>4, OneSend
<1>5. ASSUME NEW s \in {"send", "checked", "resolved", "accepted"}, task[m].at = s
      PROVE  /\ One(IsAsking(task[m], o)) = IF s \in {"checked", "resolved"} THEN 1 ELSE 0
             /\ One(IsAccepted(task[m], o)) = IF s = "accepted" THEN 1 ELSE 0
  BY <1>5 DEF IsAsking, IsAccepted, One
<1>6. ASSUME NEW s \in RenderSteps \cup SendSteps
      PROVE  LET n == [task[m] EXCEPT !.at = s]
             IN  /\ One(IsAsking(n, o)) = IF s \in {"checked", "resolved"} THEN 1 ELSE 0
                 /\ One(IsAccepted(n, o)) = IF s = "accepted" THEN 1 ELSE 0
  BY <1>1, <1>6 DEF IsAsking, IsAccepted, One
<1>7. NoTask.order = NoOrder /\ One(IsAsking(NoTask, o)) = 0 /\ One(IsAccepted(NoTask, o)) = 0
  BY DEF NoTask, IsAsking, IsAccepted, One
<1>8. ASSUME Retry(m, "send")
      PROVE  \E n : /\ task' = [task EXCEPT ![m] = n] /\ n.order \in {o, NoOrder}
                    /\ One(IsAsking(n, o)) = 0 /\ One(IsAccepted(n, o)) = 0
  <2> DEFINE n == [task[m] EXCEPT !.at = "send", !.tries = task[m].tries + 1]
  <2>1. n.order = o /\ n.at = "send"
    BY <1>1 DEF Task
  <2>2. One(IsAsking(n, o)) = 0 /\ One(IsAccepted(n, o)) = 0
    BY <2>1 DEF IsAsking, IsAccepted, One
  <2>3. task' = [task EXCEPT ![m] = n] \/ task' = [task EXCEPT ![m] = NoTask]
    BY <1>8 DEF Retry
  <2> QED
    BY <1>7, <2>1, <2>2, <2>3
<1>9. CASE send_receipt_check(m)
  <2>1. /\ task[m].at = "send" /\ UNCHANGED <<inboxes, spare, logged>>
        /\ \A p \in Orders \ {o} : p \in overlapped' <=> p \in overlapped
    BY <1>9 DEF send_receipt_check, Step
  <2>2. CASE o \in logged
    <3>1. task' = [task EXCEPT ![m] = NoTask] /\ UNCHANGED overlapped
      BY <1>9, <2>2 DEF send_receipt_check, Finish
    <3>2. SendOk(a + 0 - 0, b + 0 - 0, inboxes'[o], spare'[o], o \in logged', o \in overlapped')
      BY <1>2, <1>3, <2>1, <3>1 DEF SendOk
    <3> QED
      BY <1>4, <1>5, <1>7, <2>1, <3>1, <3>2
  <2>3. CASE o \notin logged
    <3> DEFINE n == [task[m] EXCEPT !.at = "checked"]
    <3>1. task' = [task EXCEPT ![m] = n] /\ (o \notin overlapped' => o \notin overlapped /\ Sending(o) = {})
      BY <1>9, <2>3 DEF send_receipt_check, Move
    <3>2. SendOk(a + 1 - 0, b + 0 - 0, inboxes'[o], spare'[o], o \in logged', o \in overlapped')
      BY <1>2, <1>3, <2>1, <2>3, <3>1 DEF SendOk
    <3>3. n.order = o /\ One(IsAsking(n, o)) = 1 /\ One(IsAccepted(n, o)) = 0
      BY <1>1, <1>6 DEF SendSteps
    <3> HIDE DEF n
    <3> QED
      BY <1>4, <1>5, <2>1, <3>1, <3>2, <3>3
  <2> QED
    BY <2>2, <2>3
<1>10. CASE email_for(m)
  <2>1. task[m].at = "checked" /\ UNCHANGED <<inboxes, spare, logged, overlapped>>
    BY <1>10 DEF email_for, Step
  <2>2. /\ SendOk(a + 0 - 1, b + 0 - 0, inboxes'[o], spare'[o], o \in logged', o \in overlapped')
        /\ SendOk(a + 1 - 1, b + 0 - 0, inboxes'[o], spare'[o], o \in logged', o \in overlapped')
    <3>1. a > 0
      BY <1>2, <2>1 DEF IsAsking
    <3> QED
      BY <1>2, <1>3, <2>1, <3>1 DEF SendOk
  <2>3. CASE Finish(m)
    BY <1>4, <1>5, <1>7, <2>1, <2>2, <2>3 DEF Finish
  <2>4. CASE Move(m, "resolved")
    <3> DEFINE n == [task[m] EXCEPT !.at = "resolved"]
    <3>1. n.order = o /\ One(IsAsking(n, o)) = 1 /\ One(IsAccepted(n, o)) = 0 /\ task' = [task EXCEPT ![m] = n]
      BY <1>1, <1>6, <2>4 DEF SendSteps, Move
    <3> HIDE DEF n
    <3> QED
      BY <1>4, <1>5, <2>1, <2>2, <3>1
  <2>5. CASE Retry(m, "send")
    BY <1>4, <1>5, <1>8, <2>1, <2>2, <2>5
  <2> QED
    BY <1>10, <2>3, <2>4, <2>5 DEF email_for
<1>11. CASE sender_send(m)
  <2>1. task[m].at = "resolved" /\ UNCHANGED <<logged, overlapped>> /\ a > 0
    BY <1>2, <1>11 DEF sender_send, Step, IsAsking
  <2>2. CASE UNCHANGED <<inboxes, spare>> /\ (Finish(m) \/ Retry(m, "send"))
    <3>1. SendOk(a + 0 - 1, b + 0 - 0, inboxes'[o], spare'[o], o \in logged', o \in overlapped')
      BY <1>2, <1>3, <2>1, <2>2 DEF SendOk
    <3>2. PICK n : /\ task' = [task EXCEPT ![m] = n] /\ n.order \in {o, NoOrder}
                   /\ One(IsAsking(n, o)) = 0 /\ One(IsAccepted(n, o)) = 0
      BY <1>7, <1>8, <2>2 DEF Finish
    <3> QED
      BY <1>4, <1>5, <2>1, <2>2, <3>1, <3>2
  <2>3. CASE Move(m, "accepted") /\ inboxes' = [inboxes EXCEPT ![o] = @ + 1] /\ UNCHANGED spare
    <3>0. inboxes'[o] = inboxes[o] + 1 /\ \A p \in Orders \ {o} : inboxes'[p] = inboxes[p]
      BY <1>1, <2>3 DEF TypeOK
    <3>1. SendOk(a + 0 - 1, b + 1 - 0, inboxes'[o], spare'[o], o \in logged', o \in overlapped')
      BY <1>2, <1>3, <2>1, <2>3, <3>0 DEF SendOk
    <3> DEFINE n == [task[m] EXCEPT !.at = "accepted"]
    <3>2. n.order = o /\ One(IsAsking(n, o)) = 0 /\ One(IsAccepted(n, o)) = 1 /\ task' = [task EXCEPT ![m] = n]
      BY <1>1, <1>6, <2>3 DEF SendSteps, Move
    <3> HIDE DEF n
    <3> QED
      BY <1>4, <1>5, <2>1, <2>3, <3>0, <3>1, <3>2
  <2>4. CASE /\ Retry(m, "send") /\ inboxes' = [inboxes EXCEPT ![o] = @ + 1]
             /\ spare' = [spare EXCEPT ![o] = @ + 1]
    <3>0. /\ inboxes'[o] = inboxes[o] + 1 /\ spare'[o] = spare[o] + 1
          /\ \A p \in Orders \ {o} : inboxes'[p] = inboxes[p] /\ spare'[p] = spare[p]
      BY <1>1, <2>4 DEF TypeOK
    <3>1. SendOk(a + 0 - 1, b + 0 - 0, inboxes'[o], spare'[o], o \in logged', o \in overlapped')
      BY <1>2, <1>3, <2>1, <3>0 DEF SendOk
    <3>2. PICK n : /\ task' = [task EXCEPT ![m] = n] /\ n.order \in {o, NoOrder}
                   /\ One(IsAsking(n, o)) = 0 /\ One(IsAccepted(n, o)) = 0
      BY <1>8, <2>4
    <3> QED
      BY <1>4, <1>5, <2>1, <3>0, <3>1, <3>2
  <2> QED
    BY <1>11, <2>2, <2>3, <2>4 DEF sender_send
<1>12. CASE send_receipt_record(m)
  <2>1. /\ task[m].at = "accepted" /\ UNCHANGED <<inboxes, spare, overlapped>> /\ b > 0
        /\ task' = [task EXCEPT ![m] = NoTask] /\ o \in logged' /\ \A p \in Orders \ {o} : p \in logged' <=> p \in logged
    BY <1>2, <1>12 DEF send_receipt_record, Step, Finish, IsAccepted
  <2>2. SendOk(a + 0 - 0, b + 0 - 1, inboxes'[o], spare'[o], o \in logged', o \in overlapped')
    BY <1>2, <1>3, <2>1 DEF SendOk
  <2> QED
    BY <1>4, <1>5, <1>7, <2>1, <2>2
<1>13. CASE WorkerLost(m) \/ DatabaseFails(m)
  <2>0. UNCHANGED <<inboxes, logged, overlapped>>
    BY <1>13 DEF WorkerLost, DatabaseFails
  <2>1. PICK n : /\ task' = [task EXCEPT ![m] = n] /\ n.order \in {o, NoOrder}
                 /\ One(IsAsking(n, o)) = 0 /\ One(IsAccepted(n, o)) = 0
    <3>1. CASE WorkerLost(m)
      <4> DEFINE n == [task[m] EXCEPT !.at = IF task[m].at \in RenderSteps THEN "render" ELSE "send"]
      <4>1. /\ task' = [task EXCEPT ![m] = n] /\ n.order = o
            /\ One(IsAsking(n, o)) = 0 /\ One(IsAccepted(n, o)) = 0
        BY <1>1, <1>6, <3>1 DEF WorkerLost, Move, RenderSteps, SendSteps
      <4> QED
        BY <4>1
    <3>2. CASE DatabaseFails(m)
      BY <1>7, <3>2 DEF DatabaseFails, Finish
    <3> QED
      BY <1>13, <3>1, <3>2
  <2>2. CASE task[m].at = "accepted"
    <3>0. spare'[o] = spare[o] + 1 /\ \A p \in Orders \ {o} : spare'[p] = spare[p]
      BY <1>1, <1>13, <2>2 DEF WorkerLost, DatabaseFails, TypeOK
    <3>1. b > 0
      BY <1>2, <2>2 DEF IsAccepted
    <3>2. SendOk(a + 0 - 0, b + 0 - 1, inboxes'[o], spare'[o], o \in logged', o \in overlapped')
      BY <1>2, <1>3, <2>0, <2>1, <3>0, <3>1 DEF SendOk
    <3> QED
      BY <1>4, <1>5, <2>0, <2>1, <2>2, <3>0, <3>2
  <2>3. CASE task[m].at \in {"checked", "resolved"}
    <3>0. UNCHANGED spare /\ a > 0
      BY <1>2, <1>13, <2>3 DEF WorkerLost, DatabaseFails, IsAsking
    <3>1. SendOk(a + 0 - 1, b + 0 - 0, inboxes'[o], spare'[o], o \in logged', o \in overlapped')
      BY <1>2, <1>3, <2>0, <2>1, <3>0 DEF SendOk
    <3> QED
      BY <1>4, <1>5, <2>0, <2>1, <2>3, <3>0, <3>1
  <2>4. CASE task[m].at \notin {"checked", "resolved", "accepted"}
    <3>0. UNCHANGED spare /\ One(IsAsking(task[m], o)) = 0 /\ One(IsAccepted(task[m], o)) = 0
      BY <1>13, <2>4 DEF WorkerLost, DatabaseFails, IsAsking, IsAccepted, One
    <3>1. SendOk(a + 0 - 0, b + 0 - 0, inboxes'[o], spare'[o], o \in logged', o \in overlapped')
      BY <1>2, <1>3, <2>0, <2>1, <3>0 DEF SendOk
    <3> QED
      BY <1>4, <2>0, <2>1, <3>0, <3>1
  <2> QED
    BY <2>2, <2>3, <2>4
<1> QED
  BY <1>9, <1>10, <1>11, <1>12, <1>13

\* Every step of the pipeline, the sweeper, the human and the refunds.
LEMMA ReceiptStep == ReceiptInv /\ [Next]_vars => ReceiptInv'
<1> SUFFICES ASSUME ReceiptInv, [Next]_vars PROVE ReceiptInv'
  OBVIOUS
<1>1. TypeOK /\ SendInv /\ LedgerInv /\ TypeOK' /\ RefundInv'
  BY TypesStep DEF ReceiptInv
<1>2. CASE UNCHANGED vars
  <2>1. SendInv' /\ \A m \in Messages : \A o \in Orders : IsAccepted(task'[m], o) => IsAccepted(task[m], o)
    BY <1>1, <1>2, NoSend DEF vars
  <2> QED
    BY <1>1, <1>2, <2>1, LedgerKept DEF ReceiptInv, vars
<1>3. ASSUME NEW o \in Orders, enqueue_receipt(o) \/ SweepEnqueue(o) PROVE ReceiptInv'
  <2>1. UNCHANGED <<receipt, logged, inboxes, spare, overlapped>>
    BY <1>3 DEF enqueue_receipt, SweepEnqueue
  <2>2. \/ task' = task
        \/ \E m \in Messages : \E n \in Task :
              /\ task' = [task EXCEPT ![m] = n]
              /\ \A k \in {task[m], n} : k.at \in RenderSteps \cup {"send"}
    <3>1. CASE task' = task
      BY <3>1
    <3>2. CASE enqueue_receipt_chain(o)
      <4>1. PICK m \in Messages : /\ task[m] = NoTask
                                  /\ task' = [task EXCEPT ![m] = [order |-> o, at |-> "render", tries |-> 0]]
        BY <3>2 DEF enqueue_receipt_chain
      <4> DEFINE n == [order |-> o, at |-> "render", tries |-> 0]
      <4>2. n \in Task /\ n.at \in RenderSteps /\ task[m].at \in RenderSteps
        BY <4>1, BoundsAreNat DEF Task, RenderSteps, NoTask
      <4>3. \A k \in {task[m], n} : k.at \in RenderSteps \cup {"send"}
        BY <4>2
      <4> QED
        BY <4>1, <4>2, <4>3
    <3> QED
      BY <1>3, <3>1, <3>2 DEF enqueue_receipt, SweepEnqueue
  <2>3. SendInv' /\ \A m \in Messages : \A p \in Orders : IsAccepted(task'[m], p) => IsAccepted(task[m], p)
    BY <1>1, <2>1, <2>2, NoSend
  <2> QED
    BY <1>1, <2>1, <2>3, LedgerKept DEF ReceiptInv
<1>4. ASSUME NEW o \in Orders, InboxHandlerSettled(o) \/ HumanReplay(o) PROVE ReceiptInv'
  <2>1. UNCHANGED <<task, logged, inboxes, spare, overlapped>>
    BY <1>4 DEF InboxHandlerSettled, HumanReplay
  <2>2. SendInv'
    BY <1>1, <2>1, NoSend
  <2>3. \A p \in Orders : \/ receipt'[p].status = receipt[p].status
                          \/ receipt'[p].status = "pending" /\ receipt[p].status \in {"none", "parked"}
    BY <1>1, <1>4 DEF InboxHandlerSettled, HumanReplay, insert_receipt, TypeOK, ReceiptRow
  <2>4. LedgerInv'
    BY <1>1, <2>1, <2>3 DEF LedgerInv, LedgerAgrees, TypeOK
  <2> QED
    BY <1>1, <2>2, <2>4 DEF ReceiptInv
<1>5. CASE \/ \E o \in Orders : ChangeContact(o)
           \/ sweep_unsent_receipts
           \/ \E r \in Refunds : notify_refund(r) \/ RefundNotificationWorkflow(r)
  <2>1. UNCHANGED <<task, receipt, logged, inboxes, spare, overlapped>>
    BY <1>5 DEF ChangeContact, sweep_unsent_receipts, notify_refund, RefundNotificationWorkflow,
                fetch_recipients, write_notification, Refunded
  <2>2. SendInv' /\ \A m \in Messages : \A o \in Orders : IsAccepted(task'[m], o) => IsAccepted(task[m], o)
    BY <1>1, <2>1, NoSend
  <2> QED
    BY <1>1, <2>1, <2>2, LedgerKept DEF ReceiptInv
<1>6. ASSUME NEW m \in Messages, render_receipt_load(m) \/ render_receipt_put(m) \/ render_receipt_record(m)
      PROVE  ReceiptInv'
  <2>1. /\ UNCHANGED <<logged, inboxes, spare, overlapped>>
        /\ \A p \in Orders : receipt'[p].status = receipt[p].status
    BY <1>1, <1>6 DEF render_receipt_load, render_receipt_put, render_receipt_record, TypeOK, ReceiptRow
  <2>2. task[m] \in Task /\ task[m].at \in RenderSteps
    BY <1>1, <1>6 DEF render_receipt_load, render_receipt_put, render_receipt_record, Step, RenderSteps, TypeOK
  <2>3. \E n \in Task : task' = [task EXCEPT ![m] = n] /\ n.at \in RenderSteps \cup {"send"}
    <3>1. task'[m] \in Task /\ task' = [task EXCEPT ![m] = task'[m]]
      BY <1>1, <1>6 DEF render_receipt_load, render_receipt_put, render_receipt_record, Move, Retry, TypeOK
    <3>2. task'[m].at \in {"loaded", "stored", "render", "send"}
      <4>1. render_receipt_record(m) => task'[m].at = "send"
        BY <1>1, <2>2 DEF render_receipt_record, TypeOK, Task
      <4> QED
        BY <1>1, <1>6, <4>1, SlotMoves DEF render_receipt_load, render_receipt_put
    <3> QED
      BY <3>1, <3>2 DEF RenderSteps
  <2>4. SendInv' /\ \A k \in Messages : \A o \in Orders : IsAccepted(task'[k], o) => IsAccepted(task[k], o)
    BY <1>1, <2>1, <2>2, <2>3, NoSend
  <2>5. LedgerInv'
    BY <1>1, <2>1, <2>4 DEF LedgerInv, LedgerAgrees, TypeOK
  <2> QED
    BY <1>1, <2>4, <2>5 DEF ReceiptInv
<1>7. ASSUME NEW m \in Messages, \/ WorkerLost(m) \/ DatabaseFails(m) \/ send_receipt_check(m) \/ email_for(m)
                                 \/ sender_send(m) \/ send_receipt_record(m)
      PROVE  ReceiptInv'
  <2> DEFINE o == task[m].order
  <2>1. SendInv' /\ o \in Orders /\ task[m] \in Task /\ \A k \in Messages \ {m} : task'[k] = task[k]
    <3>1. SendInv'
      BY <1>7, SendStep
    <3>2. o \in Orders /\ task[m] \in Task
      BY <1>1, <1>7, SlotTypes DEF WorkerLost, DatabaseFails, send_receipt_check, email_for, sender_send,
                                   send_receipt_record, Step, Task
    <3>3. \A k \in Messages \ {m} : task'[k] = task[k]
      BY <1>1, <1>7 DEF WorkerLost, DatabaseFails, send_receipt_check, email_for, sender_send, send_receipt_record,
                        TypeOK, Move, Retry, Finish
    <3> QED
      BY <3>1, <3>2, <3>3
  <2>2. /\ overlapped \subseteq overlapped'
        /\ \A p \in Orders : inboxes'[p] >= inboxes[p]
    BY <1>1, <1>7 DEF WorkerLost, DatabaseFails, send_receipt_check, email_for, sender_send, send_receipt_record, TypeOK
  <2>3. \A k \in Messages : \A p \in Orders : IsAccepted(task'[k], p) => inboxes'[p] > 0
    <3>1. ASSUME NEW p \in Orders, IsAccepted(task'[m], p), ~IsAccepted(task[m], p) PROVE p = o /\ sender_send(m)
                                                                                     /\ task'[m].at = "accepted"
      <4>1. task'[m].at = "accepted" /\ sender_send(m)
        BY <1>1, <1>7, <3>1, SlotMoves DEF WorkerLost, DatabaseFails, send_receipt_check, email_for, sender_send,
                                           send_receipt_record, IsAccepted
      <4>2. Move(m, "accepted")
        BY <1>1, <4>1, SlotMoves DEF sender_send
      <4> QED
        BY <1>1, <3>1, <4>1, <4>2, SlotMoves DEF IsAccepted
    <3>2. sender_send(m) /\ task'[m].at = "accepted" => inboxes'[o] = inboxes[o] + 1
      <4> SUFFICES ASSUME sender_send(m), task'[m].at = "accepted" PROVE inboxes'[o] = inboxes[o] + 1
        OBVIOUS
      <4>1. inboxes' = [inboxes EXCEPT ![o] = @ + 1]
        BY <1>1, SlotMoves DEF sender_send
      <4> QED
        BY <1>1, <2>1, <4>1 DEF TypeOK
    <3> QED
      BY <1>1, <2>1, <2>2, <3>1, <3>2 DEF LedgerInv, TypeOK
  <2>4. CASE UNCHANGED <<receipt, logged>>
    <3>1. \A p \in Orders : inboxes[p] > 0 => inboxes'[p] > 0
      BY <1>1, <2>2 DEF TypeOK
    <3> QED
      BY <1>1, <2>1, <2>2, <2>3, <2>4, <3>1 DEF ReceiptInv, LedgerInv, LedgerAgrees, TypeOK
  <2>5. CASE task[m].at \in {"checked", "resolved"} /\ _park(o) /\ UNCHANGED <<logged, inboxes>>
    <3>1. \A p \in Orders : receipt'[p].status = IF p = o THEN "parked" ELSE receipt[p].status
      BY <1>1, <2>5 DEF _park, TypeOK, ReceiptRow
    <3>2. o \in logged => o \in overlapped
      <4>1. Cardinality(Asking(o)) > 0 /\ Cardinality(Asking(o)) \in Nat /\ Cardinality(Accepted(o)) \in Nat
        BY <2>5, Counts DEF IsAsking
      <4> QED
        BY <1>1, <2>1, <4>1 DEF SendInv, SendOk
    <3> QED
      BY <1>1, <2>1, <2>2, <2>3, <2>5, <3>1, <3>2 DEF ReceiptInv, LedgerInv, LedgerAgrees, TypeOK
  <2>6. CASE send_receipt_record(m)
    <3>1. \A p \in Orders : receipt'[p].status = IF p = o THEN "sent" ELSE receipt[p].status
      BY <1>1, <2>6 DEF send_receipt_record, TypeOK, ReceiptRow
    <3>2. logged' = logged \cup {o} /\ UNCHANGED <<inboxes, overlapped>> /\ inboxes[o] > 0
      BY <1>1, <2>1, <2>6 DEF send_receipt_record, Step, IsAccepted, LedgerInv
    <3> QED
      BY <1>1, <2>1, <2>3, <3>1, <3>2 DEF ReceiptInv, LedgerInv, LedgerAgrees, TypeOK
  <2> QED
    BY <1>7, <2>4, <2>5, <2>6 DEF WorkerLost, DatabaseFails, send_receipt_check, email_for, sender_send, Step
<1> QED
  BY <1>2, <1>3, <1>4, <1>5, <1>6, <1>7 DEF Next, Work

\* Receipts, refunds and counters keep their shapes and their bounds: retries,
\* attempts, deliveries (celery_app.py, workflows.py).
THEOREM ReceiptTypes == Spec => []TypeOK
<1>1. ReceiptInv => TypeOK
  BY DEF ReceiptInv
<1> QED
  BY <1>1, ReceiptsBegin, ReceiptStep, PTL DEF Spec

\* A customer gets a second copy of a receipt only for an accepted reason, one
\* per extra copy (send_receipt): an acceptance nobody remembers, or chains of
\* the order that had passed the check of the log together.
THEOREM CopiesCorrect == Spec => []CopiesHaveReasons
<1>1. ReceiptInv => CopiesHaveReasons
  <2> SUFFICES ASSUME ReceiptInv, NEW o \in Orders
               PROVE  inboxes[o] <= spare[o] + IF o \in overlapped THEN Cardinality(Messages) ELSE 1
    BY DEF CopiesHaveReasons
  <2>1. SendOk(Cardinality(Asking(o)), Cardinality(Accepted(o)), inboxes[o], spare[o], o \in logged, o \in overlapped)
        /\ inboxes[o] \in Nat /\ spare[o] \in Nat
    BY DEF ReceiptInv, SendInv, TypeOK
  <2> QED
    BY <2>1, Counts DEF SendOk
<1> QED
  BY <1>1, ReceiptsBegin, ReceiptStep, PTL DEF Spec

\* The log, the row and the inbox agree (send_receipt, _park), unless chains of
\* the order were sending at once.
THEOREM LedgerCorrect == Spec => []LedgerAgrees
<1>1. ReceiptInv => LedgerAgrees
  BY DEF ReceiptInv, LedgerInv
<1> QED
  BY <1>1, ReceiptsBegin, ReceiptStep, PTL DEF Spec

-----------------------------------------------------------------------------
(* The live views. *)

Heard(w) == \E i \in DOMAIN w : w[i] = "hint"

\* The newest answer the page holds, given or about to be shown.
Known == IF answer # <<>> THEN answer ELSE shown

\* Something is under way that ends in a GET answered after the last commit.
UnderWay == due # <<>> \/ pipe # <<>> \/ tap # "none" \/ Heard(wire) \/ (fetch /\ answer = <<>>)

\* A stream is one connection's: it holds hints only while it is subscribed, its
\* events reach the page that opened it, and nothing follows its end.
StreamInv ==
    /\ serving # "subscribed" => pipe = <<>>
    /\ step # "opened" => serving = "none" /\ wire = <<>>
    /\ \A i \in DOMAIN wire : wire[i] \in {"eof", "reconnect"} => i = Len(wire) /\ serving = "none"
    /\ ~fetch => answer = <<>>

\* What a page holds of an order is of its past, and an order page has no rows.
PastInv ==
    view = "track" =>
        /\ rows = [n \in Notices |-> "absent"] /\ deliveries = [n \in Notices |-> 0] /\ tap = "none"
        /\ \A s \in {answer, shown} : s # <<>> => s[1].status <= status /\ s[1].rows = rows

\* Unless a loss is known, what the page holds is the record as it is, or
\* something is under way.
NewestInv == missed \/ UnderWay \/ Known = <<>> \/ Known[1] = Truth

LiveInv == LiveTypeOK /\ StreamInv /\ PastInv /\ NewestInv

Hints == {"move", "end"}
Events == {"open", "hint", "reconnect", "eof"}
Reading == [status : 0..MaxMoves, rows : [Notices -> RowStates]]

\* What is appended to the wire, and what is taken off it.
LEMMA WireMoves ==
    ASSUME NEW w \in Seq(Events)
    PROVE  /\ \A e \in Events : Append(w, e) \in Seq(Events) /\ (Heard(w) \/ e = "hint" => Heard(Append(w, e)))
           /\ w # <<>> => /\ Tail(w) \in Seq(Events)
                          /\ Heard(w) /\ Head(w) # "hint" => Heard(Tail(w))
<1>1. ASSUME NEW e \in Events
      PROVE  Append(w, e) \in Seq(Events) /\ (Heard(w) \/ e = "hint" => Heard(Append(w, e)))
  <2>1. /\ Append(w, e) \in Seq(Events) /\ DOMAIN Append(w, e) = 1..(Len(w) + 1)
        /\ Append(w, e)[Len(w) + 1] = e /\ \A i \in 1..Len(w) : Append(w, e)[i] = w[i]
    OBVIOUS
  <2>2. Len(w) + 1 \in DOMAIN Append(w, e) /\ \A i \in DOMAIN w : i \in DOMAIN Append(w, e) /\ i \in 1..Len(w)
    BY <2>1
  <2> QED
    BY <2>1, <2>2 DEF Heard
<1>2. ASSUME w # <<>>
      PROVE  Tail(w) \in Seq(Events) /\ (Heard(w) /\ Head(w) # "hint" => Heard(Tail(w)))
  <2>1. /\ Tail(w) \in Seq(Events) /\ Len(w) \in Nat \ {0} /\ DOMAIN Tail(w) = 1..(Len(w) - 1)
        /\ Head(w) = w[1] /\ \A i \in 1..(Len(w) - 1) : Tail(w)[i] = w[i + 1]
    BY <1>2
  <2>2. ASSUME NEW i \in DOMAIN w, w[i] = "hint", Head(w) # "hint" PROVE Heard(Tail(w))
    <3>1. i - 1 \in 1..(Len(w) - 1) /\ Tail(w)[i - 1] = w[i]
      BY <2>1, <2>2
    <3> QED
      BY <2>1, <2>2, <3>1 DEF Heard
  <2> QED
    BY <2>1, <2>2 DEF Heard
<1> QED
  BY <1>1, <1>2

\* What is taken off a queue, and added to it.
LEMMA QueueMoves ==
    ASSUME NEW S, NEW w \in Seq(S)
    PROVE  /\ w # <<>> => Tail(w) \in Seq(S) /\ Head(w) \in S
           /\ \A e \in S : Append(w, e) \in Seq(S)
           /\ \A e \in S : w \o <<e>> = Append(w, e)
           /\ \A e, f \in S : w \o <<e, f>> = Append(Append(w, e), f)
           /\ <<>> \in Seq(S)
OBVIOUS

\* A page that mounts holds nothing and owes nothing.
LEMMA LiveBegins == (\E v \in {"track", "bell", "none"} : LiveInit(v)) => LiveInv
<1> SUFFICES ASSUME NEW v \in {"track", "bell", "none"}, LiveInit(v) PROVE LiveInv
  OBVIOUS
<1>1. LiveTypeOK
  <2>1. status \in 0..MaxMoves /\ taps \in 0..MaxTaps /\ mishaps \in 0..MaxMishaps
    BY LiveBounds DEF LiveInit
  <2>2. rows \in [Notices -> RowStates] /\ deliveries \in [Notices -> 0..2]
    BY DEF LiveInit, RowStates
  <2>3. ticket \in BOOLEAN /\ streaming \in BOOLEAN /\ fetch \in BOOLEAN /\ missed \in BOOLEAN
    BY DEF LiveInit
  <2>4. due \in Seq({"move", "end"}) /\ pipe \in Seq({"move", "end"}) /\ wire \in Seq({"open", "hint", "reconnect", "eof"})
    BY DEF LiveInit
  <2> QED
    BY <2>1, <2>2, <2>3, <2>4 DEF LiveInit, LiveTypeOK, Steps, Snapshots
<1>2. StreamInv /\ PastInv /\ NewestInv
  BY DEF LiveInit, StreamInv, PastInv, NewestInv, Known
<1> QED
  BY <1>1, <1>2 DEF LiveInv

\* Every step keeps the shapes of the page, the stream and the record.
LEMMA LiveTypes == LiveTypeOK /\ [LiveNext]_liveVars => LiveTypeOK'
<1> SUFFICES ASSUME LiveTypeOK, [LiveNext]_liveVars PROVE LiveTypeOK'
  OBVIOUS
<1>0. /\ Truth \in Reading /\ \A t \in Reading : <<t>> \in Snapshots
      /\ <<>> \in Snapshots /\ wire \in Seq(Events)
      /\ Mishap => mishaps' \in 0..MaxMishaps
  <2>1. Mishap => mishaps' \in 0..MaxMishaps
    BY LiveBounds DEF Mishap, LiveTypeOK
  <2> QED
    BY <2>1 DEF Truth, Reading, Snapshots, LiveTypeOK, Events
<1>20. /\ due \in Seq(Hints) /\ pipe \in Seq(Hints) /\ Seq({"open", "hint", "reconnect", "eof"}) = Seq(Events)
       /\ Seq({"move", "end"}) = Seq(Hints) /\ {"move", "end"} = Hints
       /\ missed \in BOOLEAN /\ serving \in {"none", "first", "subscribed"} /\ <<>> \in Seq(Hints)
  BY DEF LiveTypeOK, Events, Hints
<1>21. \A w \in Seq(Hints) : /\ w # <<>> => Tail(w) \in Seq(Hints) /\ Head(w) \in Hints
                             /\ \A e \in Hints : Append(w, e) \in Seq(Hints)
  BY QueueMoves
<1>1. CASE UNCHANGED liveVars
  BY <1>1 DEF LiveTypeOK, liveVars
<1>2. CASE OrderMoves \/ \E n \in Notices : InboxHandlerOrder(n)
  <2>1. CASE OrderMoves
    <3>1. status' \in 0..MaxMoves /\ due' \in Seq({"move", "end"})
      BY <2>1, LiveBounds DEF OrderMoves, LiveTypeOK, Terminal, Hint
    <3> QED
      BY <2>1, <3>1 DEF OrderMoves, LiveTypeOK, server, page, get, people
  <2>2. ASSUME NEW n \in Notices, InboxHandlerOrder(n) PROVE LiveTypeOK'
    <3>1. due' \in Seq({"move", "end"}) /\ deliveries' \in [Notices -> 0..2] /\ rows' \in [Notices -> RowStates]
      BY <2>2 DEF InboxHandlerOrder, insert_notification, LiveTypeOK, RowStates
    <3> QED
      BY <2>2, <3>1 DEF InboxHandlerOrder, LiveTypeOK, server, page, get, people
  <2> QED
    BY <1>2, <2>1, <2>2
<1>3. CASE publish \/ HintLost
  <2>1. due' \in Seq({"move", "end"}) /\ Head(due) \in {"move", "end"}
    BY <1>3, <1>20, <1>21 DEF publish, HintLost
  <2>2. pipe' \in Seq({"move", "end"}) /\ missed' \in BOOLEAN
    BY <1>3, <1>20, <1>21, <2>1 DEF publish, HintLost, server
  <2> QED
    BY <1>0, <1>3, <2>1, <2>2 DEF publish, HintLost, LiveTypeOK, record, server, page, get, people
<1>4. CASE TicketExpires \/ BusFails \/ BusReturns \/ NoTicket \/ connect \/ issue_ticket \/ ClaimsChange
           \/ StreamRefused \/ subscription
  <2>1. wire' \in Seq(Events)
    <3>1. <<"eof">> \in Seq(Events)
      BY DEF Events
    <3>2. wire' = wire \/ wire' = <<"eof">>
      BY <1>4 DEF TicketExpires, BusFails, BusReturns, NoTicket, connect, issue_ticket, ClaimsChange,
                  StreamRefused, subscription
    <3> QED
      BY <1>0, <3>1, <3>2
  <2>2. ticket' \in BOOLEAN /\ streaming' \in BOOLEAN /\ mishaps' \in 0..MaxMishaps
    BY <1>0, <1>4 DEF TicketExpires, BusFails, BusReturns, NoTicket, connect, issue_ticket, ClaimsChange,
                      StreamRefused, subscription, LiveTypeOK, server, page
  <2>3. step' \in Steps /\ serving' \in {"none", "first", "subscribed"} /\ bus' \in {"up", "down"}
    BY <1>4 DEF TicketExpires, BusFails, BusReturns, NoTicket, connect, issue_ticket, ClaimsChange,
                StreamRefused, subscription, LiveTypeOK, server, page, Steps
  <2>4. UNCHANGED <<record, due, pipe, shown, get, people, missed>>
    BY <1>4 DEF TicketExpires, BusFails, BusReturns, NoTicket, connect, issue_ticket, ClaimsChange,
                StreamRefused, subscription, server, page
  <2> QED
    BY <1>20, <2>1, <2>2, <2>3, <2>4 DEF LiveTypeOK, record, get, people
<1>5. CASE stream_order \/ stream_bell
  <2>1. wire' \in Seq({"open", "hint", "reconnect", "eof"}) /\ serving' \in {"none", "first", "subscribed"}
    <3>1. /\ <<"eof">> \in Seq(Events) /\ <<"open">> \in Seq(Events) /\ <<"open", "hint">> \in Seq(Events)
          /\ <<"open", "hint", "eof">> \in Seq(Events)
      BY DEF Events
    <3> QED
      BY <1>5, <1>20, <3>1 DEF stream_order, stream_bell, Unauthorized, Opens
  <2> QED
    BY <1>5, <2>1 DEF stream_order, stream_bell, Redeem, LiveTypeOK, record, get, people, Steps
<1>6. CASE relay \/ lifetime \/ StreamBreaks
  <2>1. wire' \in Seq({"open", "hint", "reconnect", "eof"})
    <3>1. \A e \in Events : Append(wire, e) \in Seq(Events) /\ wire \o <<e>> \in Seq(Events)
      BY <1>0, QueueMoves
    <3>2. wire \o <<"hint", "eof">> \in Seq(Events)
      BY <1>0 DEF Events
    <3> QED
      BY <1>6, <1>20, <3>1, <3>2 DEF relay, lifetime, StreamBreaks, Ends, Events
  <2>2. pipe' \in Seq({"move", "end"}) /\ serving' \in {"none", "first", "subscribed"} /\ missed' \in BOOLEAN
    BY <1>6, <1>20, <1>21 DEF relay, lifetime, StreamBreaks, Ends
  <2> QED
    BY <1>0, <1>6, <2>1, <2>2 DEF relay, lifetime, StreamBreaks, LiveTypeOK, record, page, get, people
<1>7. CASE Handlers
  <2>1. wire' \in Seq({"open", "hint", "reconnect", "eof"})
    BY <1>0, <1>7, <1>20, QueueMoves DEF Handlers, onopen, onhint, onreconnect, onerror, Event
  <2>2. fetch' \in BOOLEAN /\ missed' \in BOOLEAN /\ answer' \in Snapshots
    BY <1>0, <1>7 DEF Handlers, onopen, onhint, onreconnect, onerror, Refetch, LiveTypeOK, get
  <2> QED
    BY <1>7, <2>1, <2>2, ZenonT(30) DEF Handlers, onopen, onhint, onreconnect, onerror, LiveTypeOK, record, server, page, get,
                            people, Steps
<1>8. CASE onSettled
  <2>1. fetch' \in BOOLEAN /\ missed' \in BOOLEAN /\ answer' \in Snapshots
    BY <1>0, <1>8 DEF onSettled, Refetch, LiveTypeOK, get
  <2> QED
    BY <1>8, <2>1 DEF onSettled, LiveTypeOK, record, server, page
<1>9. CASE poll \/ serve \/ FetchFails
  BY <1>0, <1>9 DEF poll, serve, FetchFails, LiveTypeOK, record, server, page, get, people
<1>10. CASE fetched
  <2>1. /\ step' \in Steps /\ streaming' \in BOOLEAN /\ serving' \in {"none", "first", "subscribed"}
        /\ wire' \in Seq({"open", "hint", "reconnect", "eof"}) /\ pipe' \in Seq({"move", "end"})
    <3>1. \/ UNCHANGED <<step, streaming, wire, serving, pipe>>
          \/ step' = "idle" /\ streaming' = FALSE /\ wire' = <<>> /\ serving' = "none" /\ pipe' = <<>>
      BY <1>10 DEF fetched
    <3>2. <<>> \in Seq(Events) /\ "idle" \in Steps
      BY DEF Steps
    <3> QED
      BY <1>0, <1>20, <3>1, <3>2 DEF LiveTypeOK
  <2> QED
    BY <1>0, <1>10, <2>1 DEF fetched, LiveTypeOK, record, people
<1>11. CASE Tap
  BY <1>11, LiveBounds DEF Tap, LiveTypeOK, Unread, record, server, page, get
<1>12. CASE Marks
  <2>1. rows' \in [Notices -> RowStates]
    BY <1>12 DEF Marks, mark_all_read, mark_read, LiveTypeOK, RowStates
  <2> QED
    BY <1>12, <2>1 DEF Marks, mark_all_read, mark_read, LiveTypeOK, server, page, get
<1> QED
  BY <1>1, <1>2, <1>3, <1>4, <1>5, <1>6, <1>7, <1>8, <1>9, <1>10, <1>11, <1>12
     DEF LiveNext, Writers, Mishaps, Streams

\* What a step leaves of the stream, with its page.
LEMMA StreamStep == LiveTypeOK /\ StreamInv /\ [LiveNext]_liveVars => StreamInv'
<1> SUFFICES ASSUME LiveTypeOK, StreamInv, [LiveNext]_liveVars PROVE StreamInv'
  OBVIOUS
<1>0. /\ wire \in Seq(Events) /\ step \in Steps
      /\ serving # "none" => step = "opened" /\ \A i \in DOMAIN wire : wire[i] \notin {"eof", "reconnect"}
  BY DEF LiveTypeOK, Events, StreamInv
<1>1. CASE UNCHANGED <<serving, pipe, step, wire, fetch, answer>>
  BY <1>1 DEF StreamInv
<1>2. CASE publish \/ HintLost
  BY <1>2 DEF publish, HintLost, StreamInv, server, page, get
<1>3. CASE TicketExpires \/ BusFails \/ NoTicket \/ connect \/ issue_ticket \/ subscription
  BY <1>3 DEF TicketExpires, BusFails, NoTicket, connect, issue_ticket, subscription,
              StreamInv, server, page, get
<1>4. CASE stream_order \/ stream_bell \/ StreamRefused
  <2>1. /\ step = "bought" /\ step' = "opened" /\ UNCHANGED <<pipe, get>>
        /\ \/ serving' = serving /\ wire' = <<"eof">>
           \/ serving' = "none" /\ wire' = <<"open", "hint", "eof">>
           \/ serving' = "first" /\ wire' \in {<<"open">>, <<"open", "hint">>}
    BY <1>4 DEF stream_order, stream_bell, StreamRefused, Redeem, Unauthorized, Opens, server
  <2>2. serving = "none" /\ pipe = <<>>
    BY <2>1 DEF StreamInv
  <2>3. \A i \in DOMAIN wire' : wire'[i] \in {"eof", "reconnect"} => i = Len(wire') /\ serving' = "none"
    <3>1. CASE serving' = serving /\ wire' = <<"eof">>
      BY <2>2, <3>1
    <3>2. CASE serving' = "none" /\ wire' = <<"open", "hint", "eof">>
      <4>1. DOMAIN wire' = {1, 2, 3} /\ Len(wire') = 3
        BY <3>2
      <4> QED
        BY <3>2, <4>1
    <3>3. CASE serving' = "first" /\ wire' = <<"open">>
      BY <3>3
    <3>4. CASE serving' = "first" /\ wire' = <<"open", "hint">>
      <4>1. DOMAIN wire' = {1, 2}
        BY <3>4
      <4> QED
        BY <3>4, <4>1
    <3> QED
      BY <2>1, <3>1, <3>2, <3>3, <3>4
  <2> QED
    BY <2>1, <2>2, <2>3 DEF StreamInv, get
<1>5. CASE relay \/ lifetime \/ StreamBreaks
  <2>1. serving # "none" /\ UNCHANGED <<page, get>>
    BY <1>5 DEF relay, lifetime, StreamBreaks
  <2>2. CASE \E e \in {"reconnect", "eof"} : Ends(<<e>>)
    BY <1>0, <2>1, <2>2 DEF Ends, StreamInv, page, get
  <2>3. CASE Ends(<<"hint", "eof">>)
    BY <1>0, <2>1, <2>3 DEF Ends, StreamInv, page, get
  <2>4. CASE serving = "subscribed" /\ wire' = Append(wire, "hint") /\ UNCHANGED serving
    BY <1>0, <2>1, <2>4 DEF StreamInv, page, get
  <2> QED
    BY <1>5, <2>2, <2>3, <2>4 DEF relay, lifetime, StreamBreaks
<1>6. CASE onopen \/ onhint
  <2>1. /\ step = "opened" /\ wire # <<>> /\ wire' = Tail(wire) /\ UNCHANGED <<server, step>>
        /\ ~fetch' => answer' = <<>>
    BY <1>6 DEF onopen, onhint, Event, page, Refetch, StreamInv, get
  <2>2. \A i \in DOMAIN wire' : i + 1 \in DOMAIN wire /\ wire'[i] = wire[i + 1] /\ Len(wire') = Len(wire) - 1
    BY <1>0, <2>1
  <2>3. \A i \in DOMAIN wire' : wire'[i] \in {"eof", "reconnect"} => i = Len(wire') /\ serving' = "none"
    <3> SUFFICES ASSUME NEW i \in DOMAIN wire', wire'[i] \in {"eof", "reconnect"}
                 PROVE  i = Len(wire') /\ serving' = "none"
      OBVIOUS
    <3>1. i + 1 = Len(wire) /\ serving = "none"
      BY <2>2 DEF StreamInv
    <3>2. i \in Nat /\ Len(wire) \in Nat
      BY <1>0, <2>1
    <3> QED
      BY <2>1, <2>2, <3>1, <3>2 DEF server
  <2> QED
    BY <2>1, <2>3 DEF StreamInv, server
<1>7. CASE onreconnect \/ onerror
  <2>1. step = "opened" /\ wire # <<>> /\ Head(wire) \in {"reconnect", "eof"}
    BY <1>7 DEF onreconnect, onerror, Event
  <2>2. serving = "none"
    BY <1>0, <2>1 DEF StreamInv
  <2> QED
    BY <1>7, <2>2 DEF onreconnect, onerror, StreamInv, server, get
<1>8. CASE onSettled \/ poll \/ serve \/ FetchFails
  BY <1>8 DEF onSettled, poll, serve, FetchFails, Refetch, StreamInv, server, page, get
<1>9. CASE fetched
  BY <1>9 DEF fetched, StreamInv
<1> QED
  BY <1>1, <1>2, <1>3, <1>4, <1>5, <1>6, <1>7, <1>8, <1>9
     DEF LiveNext, Writers, Mishaps, Streams, Handlers, Marks, BusReturns, ClaimsChange, Tap, mark_all_read, mark_read,
         OrderMoves, InboxHandlerOrder, liveVars, server, page, get

\* An order moves on, and on its page nothing else does.
LEMMA PastStep == LiveTypeOK /\ PastInv /\ [LiveNext]_liveVars => PastInv'
<1> SUFFICES ASSUME LiveTypeOK, PastInv, [LiveNext]_liveVars, view' = "track" PROVE PastInv'
  BY DEF PastInv
<1>0. view = "track" /\ view' = view
  BY DEF LiveNext, Writers, Mishaps, Streams, Handlers, Marks, OrderMoves, HintLost, InboxHandlerOrder, publish,
         TicketExpires, StreamBreaks, BusFails, NoTicket, FetchFails, BusReturns, issue_ticket, stream_order,
         stream_bell, Redeem, subscription, relay, lifetime, StreamRefused, connect, ClaimsChange, onopen, onhint,
         onreconnect, onerror, onSettled, poll, serve, fetched, Tap, mark_all_read, mark_read, liveVars, record
<1>1. /\ rows = [n \in Notices |-> "absent"] /\ deliveries = [n \in Notices |-> 0] /\ tap = "none"
      /\ \A s \in {answer, shown} : s # <<>> => s[1].status <= status /\ s[1].rows = rows
      /\ status \in 0..MaxMoves
      /\ \A s \in {answer, shown} : s # <<>> => s[1] \in Reading
  BY <1>0 DEF PastInv, LiveTypeOK, Snapshots, Reading
<1>2. /\ UNCHANGED <<rows, deliveries, tap>> /\ status' \in {status, status + 1}
      /\ answer' \in {answer, <<>>, <<Truth>>} /\ shown' \in {shown, answer}
  BY <1>0, <1>1, NoticesHaveNames
     DEF LiveNext, Writers, Mishaps, Streams, Handlers, Marks, OrderMoves, HintLost, InboxHandlerOrder, publish,
         TicketExpires, StreamBreaks, BusFails, NoTicket, FetchFails, BusReturns, issue_ticket, stream_order,
         stream_bell, Redeem, subscription, relay, lifetime, StreamRefused, connect, ClaimsChange, onopen, onhint,
         onreconnect, onerror, onSettled, Refetch, poll, serve, fetched, Tap, mark_all_read, mark_read,
         liveVars, record, page, get, people
<1>3. ASSUME NEW s \in {answer, shown, <<>>, <<Truth>>}, s # <<>>
      PROVE  s[1].status <= status /\ s[1].rows = rows /\ s[1].status \in Nat
  BY <1>1, <1>3 DEF Truth, Reading
<1>4. status <= status'
  BY <1>1, <1>2
<1>5. ASSUME NEW s \in {answer', shown'}, s # <<>>
      PROVE  s[1].status <= status' /\ s[1].rows = rows'
  BY <1>1, <1>2, <1>3, <1>4, <1>5
<1> QED
  BY <1>1, <1>2, <1>5 DEF PastInv

\* A row that moves owes a hint, a hint that is heard is a GET, a GET answers
\* with the record; what breaks the chain is known to.
LEMMA NewestStep == LiveInv /\ [LiveNext]_liveVars => NewestInv'
<1> SUFFICES ASSUME LiveInv, [LiveNext]_liveVars, ~missed' PROVE UnderWay' \/ Known' = <<>> \/ Known'[1] = Truth'
  BY DEF NewestInv
<1>0. /\ LiveTypeOK /\ StreamInv /\ PastInv /\ (missed \/ UnderWay \/ Known = <<>> \/ Known[1] = Truth)
      /\ wire \in Seq(Events) /\ due \in Seq(Hints) /\ pipe \in Seq(Hints)
  BY DEF LiveInv, NewestInv, LiveTypeOK, Events, Hints
<1>1. CASE UNCHANGED <<status, rows, due, pipe, wire, tap, fetch, answer, shown, missed>>
  <2>1. Known' = Known /\ Truth' = Truth /\ (UnderWay => UnderWay')
    BY <1>1 DEF Known, Truth, UnderWay, Heard
  <2> QED
    BY <1>0, <1>1, <2>1
<1>2. CASE OrderMoves \/ \E n \in Notices : InboxHandlerOrder(n)
  <2>1. due' # <<>>
    BY <1>0, <1>2 DEF OrderMoves, InboxHandlerOrder
  <2> QED
    BY <2>1 DEF UnderWay
<1>3. CASE publish
  <2>1. pipe' # <<>>
    BY <1>0, <1>3 DEF publish
  <2> QED
    BY <2>1 DEF UnderWay
<1>4. CASE HintLost \/ StreamBreaks \/ FetchFails
  BY <1>4 DEF HintLost, StreamBreaks, FetchFails
<1>5. CASE stream_order \/ stream_bell \/ StreamRefused
  <2>1. wire = <<>> /\ UNCHANGED <<status, rows, due, pipe, tap, fetch, answer, shown, missed>>
    BY <1>0, <1>5 DEF stream_order, stream_bell, StreamRefused, Redeem, StreamInv, record, get, people, server
  <2>2. Known' = Known /\ Truth' = Truth /\ ~Heard(wire)
    BY <2>1 DEF Known, Truth, Heard
  <2> QED
    BY <1>0, <2>1, <2>2 DEF UnderWay
<1>6. CASE relay
  <2>1. Heard(wire')
    <3>1. wire' = Append(wire, "hint") \/ wire' = wire \o <<"hint", "eof">>
      BY <1>6 DEF relay, Ends
    <3>2. Heard(Append(wire, "hint")) /\ Append(wire, "hint") \in Seq(Events)
      BY <1>0, WireMoves DEF Events
    <3>3. wire \o <<"hint", "eof">> = Append(Append(wire, "hint"), "eof")
      BY <1>0
    <3>4. Heard(Append(Append(wire, "hint"), "eof"))
      BY <3>2, WireMoves DEF Events
    <3> QED
      BY <3>1, <3>2, <3>3, <3>4
  <2> QED
    BY <2>1 DEF UnderWay
<1>7. CASE lifetime
  <2>1. /\ pipe = <<>> /\ ~missed /\ wire' = wire \o <<"reconnect">>
        /\ UNCHANGED <<status, rows, due, tap, fetch, answer, shown>>
    BY <1>0, <1>7 DEF lifetime, Ends, record, get, people, page, LiveTypeOK
  <2>2. Heard(wire) => Heard(wire')
    <3>1. wire \o <<"reconnect">> = Append(wire, "reconnect")
      BY <1>0
    <3> QED
      BY <1>0, <2>1, <3>1, WireMoves DEF Events
  <2>3. Known' = Known /\ Truth' = Truth
    BY <2>1 DEF Known, Truth
  <2> QED
    BY <1>0, <2>1, <2>2, <2>3 DEF UnderWay
<1>8. CASE onhint \/ onSettled
  <2>1. Refetch
    BY <1>8 DEF onhint, onSettled
  <2>2. fetch' /\ answer' = <<>>
    BY <1>0, <2>1 DEF Refetch, get, LiveTypeOK
  <2> QED
    BY <2>2 DEF UnderWay
<1>9. CASE onopen
  <2>1. /\ wire # <<>> /\ Head(wire) = "open" /\ wire' = Tail(wire)
        /\ UNCHANGED <<status, rows, due, pipe, tap, fetch, answer, shown, missed>>
    BY <1>9 DEF onopen, Event, record, server, get, people
  <2>2. Heard(wire) => Heard(wire')
    BY <1>0, <2>1, WireMoves
  <2>3. Known' = Known /\ Truth' = Truth
    BY <2>1 DEF Known, Truth
  <2> QED
    BY <1>0, <2>1, <2>2, <2>3 DEF UnderWay
<1>10. CASE onreconnect \/ onerror
  <2>1. /\ wire # <<>> /\ wire[1] \in {"reconnect", "eof"}
        /\ UNCHANGED <<status, rows, due, pipe, tap, fetch, answer, shown, missed>>
    BY <1>10 DEF onreconnect, onerror, Event, record, server, get, people
  <2>2. ~Heard(wire)
    <3>0. 1 \in DOMAIN wire /\ DOMAIN wire = 1..Len(wire)
      BY <1>0, <2>1
    <3>2. Len(wire) = 1
      BY <1>0, <2>1, <3>0 DEF StreamInv
    <3>1. DOMAIN wire = {1}
      BY <3>0, <3>2
    <3> QED
      BY <2>1, <3>1 DEF Heard
  <2>3. Known' = Known /\ Truth' = Truth
    BY <2>1 DEF Known, Truth
  <2> QED
    BY <1>0, <2>1, <2>2, <2>3 DEF UnderWay
<1>11. CASE poll
  <2>1. fetch' /\ answer' = <<>>
    BY <1>0, <1>11 DEF poll, StreamInv, LiveTypeOK
  <2> QED
    BY <2>1 DEF UnderWay
<1>12. CASE serve
  <2>1. answer' = <<Truth>> /\ Truth' = Truth
    BY <1>12 DEF serve, Truth, record
  <2> QED
    BY <2>1 DEF Known
<1>13. CASE fetched
  <2>1. /\ answer # <<>> /\ shown' = answer /\ answer' = <<>>
        /\ UNCHANGED <<view, status, rows, due, tap, missed>>
    BY <1>13 DEF fetched, record, people
  <2>2. Known' = answer /\ Known = answer /\ Truth' = Truth
    BY <2>1 DEF Known, Truth
  <2>3. CASE Finished(answer)
    <3>1. answer[1].status = MaxMoves /\ answer[1] \in Reading /\ view = "track"
      BY <1>0, <2>1, <2>3 DEF Finished, Terminal, LiveTypeOK, Snapshots, Reading
    <3>2. answer[1].status <= status /\ answer[1].rows = rows /\ status \in 0..MaxMoves
      BY <1>0, <2>1, <3>1 DEF PastInv, LiveTypeOK
    <3>3. answer[1].status = status
      BY <3>1, <3>2, LiveBounds
    <3>4. answer[1] = Truth
      BY <3>1, <3>2, <3>3 DEF Truth, Reading
    <3> QED
      BY <2>2, <3>4
  <2>4. CASE ~Finished(answer)
    <3>1. UNCHANGED <<wire, pipe>>
      BY <1>13, <2>4 DEF fetched
    <3> QED
      BY <1>0, <2>1, <2>2, <3>1 DEF UnderWay
  <2> QED
    BY <2>3, <2>4
<1>14. CASE Tap \/ Marks
  <2>1. tap' # "none"
    BY <1>14, NoticesHaveNames DEF Tap, Marks, mark_all_read, mark_read, Unread
  <2> QED
    BY <2>1 DEF UnderWay
<1> QED
  BY <1>1, <1>2, <1>3, <1>4, <1>5, <1>6, <1>7, <1>8, <1>9, <1>10, <1>11, <1>12, <1>13, <1>14
     DEF LiveNext, Writers, Mishaps, Streams, Handlers, BusReturns, ClaimsChange, TicketExpires, BusFails, NoTicket,
         connect, issue_ticket, subscription, liveVars, record, server, page, get, people

\* The page, the bell and the stream keep their shapes and their bounds
\* (stream.py, OrderDetail.tsx, NotificationBell.tsx).
THEOREM LiveTypesCorrect == LiveSpec => []LiveTypeOK
<1> QED
  BY LiveBegins, LiveTypes, PTL DEF LiveSpec, LiveInv

\* A page that has heard all there is shows the record, unless a hint or a GET is
\* known to be lost (tracking.py, push.py, NotificationBell.tsx).
THEOREM QuietCorrect == LiveSpec => []QuietMeansCurrent
<1>1. LiveInv => QuietMeansCurrent
  <2> SUFFICES ASSUME LiveInv, Quiet, ~missed, shown # <<>> PROVE shown[1] = Truth
    BY DEF QuietMeansCurrent
  <2>1. ~UnderWay /\ Known = shown
    BY DEF Quiet, UnderWay, Heard, Known, LiveInv, StreamInv
  <2> QED
    BY <2>1 DEF LiveInv, NewestInv
<1>2. LiveInv /\ [LiveNext]_liveVars => LiveInv'
  BY LiveTypes, StreamStep, PastStep, NewestStep DEF LiveInv
<1> QED
  BY <1>1, <1>2, LiveBegins, PTL DEF LiveSpec


-----------------------------------------------------------------------------
(* Signing in. *)

\* A call is edited field by field.
IsCall(q) == q = [pc |-> q.pc, route |-> q.route, pair |-> q.pair, retry |-> q.retry,
                  doc |-> q.doc, ctx |-> q.ctx, joined |-> q.joined]
Fields ==
    /\ calls = [c \in Calls |-> calls[c]] /\ \A c \in Calls : IsCall(calls[c])
    /\ flight = [t \in Tabs |-> flight[t]] /\ mem = [t \in Tabs |-> mem[t]]
    /\ sess = [s \in 1 .. MaxSessions |-> sess[s]]
    /\ granting = [g \in Grantors |-> granting[g]]
    /\ user = User(user.there, user.roles, user.brand, user.rider)

\* What the account may be, and which grants are on their way.
Owns == "restaurant_admin" \in user.roles
Rides == "rider" \in user.roles
RoleInv ==
    /\ user.there => "customer" \in user.roles
    /\ ~user.there => user.roles = {} /\ user.brand = None /\ user.rider = FALSE
    /\ user.roles \subseteq Grantable /\ user.brand \in {None, BrandId} /\ user.rider \in BOOLEAN
    /\ (Owns <=> user.brand = BrandId) /\ (Rides <=> user.rider)
    /\ \A g \in Grantors : granting[g] \in {"admin", "rider"} => user.there
    /\ \A c \in Calls : calls[c].pc = "grant" => granting[c] = "admin"
    /\ ~crossed =>
          /\ ~(Owns /\ Rides)
          /\ \A g \in Grantors : /\ granting[g] = "admin" => ~Rides
                                 /\ granting[g] = "rider" => ~Owns

LEMMA SignInBegins == ASSUME IdentityInit PROVE Fields /\ RoleInv
<1>1. \A c \in Calls : calls[c] = Idle \/ calls[c] = Absent
  BY DEF IdentityInit
<1>2. user = User(FALSE, {}, None, FALSE) /\ \A g \in Grantors : granting[g] \in {"no", "absent"}
  BY DEF IdentityInit, NoUser
<1>3. \A c \in Calls : IsCall(calls[c]) /\ calls[c].pc \in {"idle", "absent"}
  BY <1>1 DEF Idle, Absent, Request, IsCall
<1>4. Fields
  BY <1>2, <1>3 DEF IdentityInit, Fields, User
<1> QED
  BY <1>2, <1>3, <1>4 DEF RoleInv, User, Owns, Rides, None, BrandId

\* A step outside the account, and what may become of the calls in it.
Aside ==
    /\ UNCHANGED <<user, granting, crossed>>
    /\ \A c \in Calls : calls'[c].pc = "grant" => calls[c].pc = "grant"
LEMMA AsideKeeps == ASSUME RoleInv, Aside PROVE RoleInv'
BY DEF RoleInv, Aside, Owns, Rides

LEMMA RegisterKeeps == ASSUME RoleInv, register PROVE RoleInv'
BY DEF RoleInv, register, User, Owns, Rides, Grantable, None, BrandId, Crosses

\* The write of a grant: who has both roles had both granted at once.
LEMMA WriteKeeps ==
    ASSUME Fields, RoleInv, NEW g \in Grantors, granting[g] \in {"admin", "rider"},
           user' = Write(g), crossed' = (crossed \/ Crosses(g)),
           NEW x, x \in {"no", "mark"}, granting' = [granting EXCEPT ![g] = x],
           \A c \in Calls : calls'[c].pc = "grant" => calls[c].pc = "grant" /\ c # g
    PROVE  RoleInv'
<1>1. /\ granting'[g] = x
      /\ \A h \in Grantors : h # g => granting'[h] = granting[h]
  BY DEF Fields
<1>2. user.there
  BY DEF RoleInv
<1>3. /\ user'.there = TRUE
      /\ granting[g] = "admin" =>
            /\ user'.roles = user.roles \cup {"restaurant_admin"}
            /\ user'.brand = BrandId /\ user'.rider = user.rider
      /\ granting[g] = "rider" =>
            /\ user'.roles = user.roles \cup {"rider"}
            /\ user'.brand = user.brand /\ user'.rider = TRUE
  BY DEF Write, grant_restaurant_admin, grant_rider, add_role, User
<1>4. ~crossed' => ~crossed /\ \A h \in Grantors : h # g =>
          ~(granting[g] = "admin" /\ granting[h] = "rider") /\ ~(granting[g] = "rider" /\ granting[h] = "admin")
  BY DEF Crosses
<1>5. \A c \in Calls : c \in Grantors
  BY DEF Grantors
<1>6. ~crossed' => /\ ~(Owns /\ Rides)'
                   /\ \A h \in Grantors : /\ granting'[h] = "admin" => ~Rides'
                                          /\ granting'[h] = "rider" => ~Owns'
  BY <1>1, <1>3, <1>4 DEF RoleInv, Owns, Rides
<1> QED
  BY <1>1, <1>2, <1>3, <1>5, <1>6 DEF RoleInv, Owns, Rides, Grantable, None, BrandId

\* A check that passed: the write may follow.
LEMMA CheckKeeps ==
    ASSUME Fields, RoleInv, NEW g \in Grantors, NEW kind \in {"admin", "rider"}, GrantIn(kind),
           granting' = [granting EXCEPT ![g] = kind], UNCHANGED <<user, crossed>>,
           \A c \in Calls : calls'[c].pc = "grant" =>
              (calls[c].pc = "grant" /\ c # g) \/ (c = g /\ kind = "admin")
    PROVE  RoleInv'
<1>1. /\ granting'[g] = kind
      /\ \A h \in Grantors : h # g => granting'[h] = granting[h]
  BY DEF Fields
<1>2. \A c \in Calls : c \in Grantors
  BY DEF Grantors
<1> QED
  BY <1>1, <1>2 DEF RoleInv, Owns, Rides, GrantIn

\* An attempt that is over: nothing of it is on its way.
LEMMA DropKeeps ==
    ASSUME Fields, RoleInv, NEW g \in Grantors, NEW x \in {"no", "mark"},
           granting' = [granting EXCEPT ![g] = x], UNCHANGED <<user, crossed>>,
           \A c \in Calls : calls'[c].pc = "grant" => calls[c].pc = "grant" /\ c # g
    PROVE  RoleInv'
<1>1. /\ granting'[g] = x
      /\ \A h \in Grantors : h # g => granting'[h] = granting[h]
  BY DEF Fields
<1>2. \A c \in Calls : c \in Grantors
  BY DEF Grantors
<1> QED
  BY <1>1, <1>2 DEF RoleInv, Owns, Rides

LEMMA RiderKeeps == ASSUME Fields, RoleInv, NEW g \in Riders, RiderRequest(g) PROVE RoleInv'
<1>1. g \in Grantors /\ (\A c \in Calls : c # g) /\ UNCHANGED calls
  BY IdentityConstants DEF Grantors, RiderRequest
<1>2. CASE granting[g] = "no" /\ GrantIn("rider")
           /\ granting' = [granting EXCEPT ![g] = "rider"] /\ UNCHANGED <<user, crossed>>
  BY <1>1, <1>2, CheckKeeps
<1>3. CASE granting[g] = "rider" /\ user' = Write(g) /\ crossed' = (crossed \/ Crosses(g))
           /\ granting' = [granting EXCEPT ![g] = "no"]
  BY <1>1, <1>3, WriteKeeps
<1> QED
  BY <1>2, <1>3 DEF RiderRequest, RiderGrant

LEMMA ConsumerKeeps == ASSUME Fields, RoleInv, ConvergeGrant \/ ConsumerDies PROVE RoleInv'
<1>1. Consumer \in Grantors /\ (\A c \in Calls : c # Consumer) /\ UNCHANGED calls
  BY IdentityConstants DEF Grantors, ConvergeGrant, ConsumerDies
<1>2. CASE ConvergeGrant
  <2>1. CASE GrantIn("admin") /\ granting' = [granting EXCEPT ![Consumer] = "admin"]
             /\ UNCHANGED <<user, crossed>>
    BY <1>1, <2>1, CheckKeeps
  <2>2. CASE \E x \in {"no", "mark"} : granting' = [granting EXCEPT ![Consumer] = x]
             /\ UNCHANGED <<user, crossed>>
    BY <1>1, <2>2, DropKeeps
  <2>3. CASE granting[Consumer] = "admin" /\ user' = Write(Consumer)
             /\ crossed' = (crossed \/ Crosses(Consumer))
             /\ granting' = [granting EXCEPT ![Consumer] = "mark"]
    BY <1>1, <2>3, WriteKeeps
  <2> QED
    BY <1>2, <2>1, <2>2, <2>3 DEF ConvergeGrant
<1>3. CASE ConsumerDies
  BY <1>1, <1>3, DropKeeps DEF ConsumerDies
<1> QED
  BY <1>2, <1>3

-----------------------------------------------------------------------------
(* What tokens say.  Claims are the rows of the moment they were issued,    *)
(* and grants only add to the rows, so they stay true.                      *)

Vouched(k) ==
    /\ k = Claims(Sub, k.roles, k.restaurant_id, k.rider_id)
    /\ k.roles # {} /\ k.roles \subseteq user.roles
    /\ k.restaurant_id \in {None, user.brand}
    /\ k.rider_id \in {None, Sub} /\ (k.rider_id = Sub => user.rider)
Genuine(p) == p = NoPair \/ (p.id # 0 /\ Vouched(p.claims))
CtxOk(q) ==
    q.pc \in {"serve", "grant"} => (q.ctx = Anonymous /\ q.route \notin Protected) \/ Vouched(q.ctx)

ClaimInv ==
    /\ \A t \in Tabs : /\ Genuine(mem[t]) /\ Genuine(flight[t].pair)
                       /\ flight[t].pc \in {"sent", "read"} => user.there
    /\ Genuine(stored)
    /\ \A c \in Calls : Genuine(calls[c].pair) /\ CtxOk(calls[c])

LEMMA ClaimsBegin == ASSUME IdentityInit PROVE ClaimInv
BY DEF IdentityInit, ClaimInv, Genuine, CtxOk, Idle, Absent, Request, NoFlight, Flight

\* Rows grow.
UserGrows ==
    /\ user.roles \subseteq user'.roles /\ (user.brand # None => user'.brand = user.brand)
    /\ user.rider => user'.rider
    /\ user.there => user'.there
LEMMA VouchedStays == ASSUME UserGrows, NEW k, Vouched(k) PROVE Vouched(k)'
BY DEF UserGrows, Vouched
LEMMA GenuineStays == ASSUME UserGrows, NEW p, Genuine(p) PROVE Genuine(p)'
BY VouchedStays DEF Genuine
LEMMA CtxStays == ASSUME UserGrows, NEW q, CtxOk(q) PROVE CtxOk(q)'
BY VouchedStays DEF CtxOk

LEMMA WriteGrows == ASSUME RoleInv, NEW g \in Grantors, user' = Write(g) PROVE UserGrows
BY DEF RoleInv, UserGrows, Write, grant_restaurant_admin, grant_rider, add_role, User, None
LEMMA RegisterGrows == ASSUME RoleInv, register PROVE UserGrows
BY DEF RoleInv, UserGrows, register, User, None

\* A fresh pair.
LEMMA FreshToken ==
    ASSUME Toks \ InUse # {}
    PROVE  new_refresh_token \in Toks /\ new_refresh_token \notin InUse /\ new_refresh_token # 0
<1>1. new_refresh_token \in Toks /\ new_refresh_token \notin InUse
  BY DEF new_refresh_token
<1> QED
  BY <1>1, IdentityConstants

LEMMA IssuedIsGenuine ==
    ASSUME Fields, RoleInv, user.there, NEW i, i # 0
    PROVE  Genuine(issue_pair(i)) /\ issue_pair(i).id = i
BY DEF Fields, RoleInv, Genuine, Vouched, issue_pair, Pair, Claims, Rides, Sub, None

\* What a service makes of the headers it is sent.
LEMMA SeenAnonymous ==
    get_auth_context(Forwarded([sub |-> "someone", roles |-> {"system"}], Anonymous)) = Anonymous
<1>1. PICK hs : hs = Forwarded([sub |-> "someone", roles |-> {"system"}], Anonymous)
  OBVIOUS
<1>2. DOMAIN hs = {}
  BY <1>1 DEF Forwarded, STRIP_HEADERS
<1>3. Header(hs, "sub", "none") = "none"
  BY <1>2 DEF Header
<1> QED
  BY <1>1, <1>3 DEF get_auth_context, Claims

LEMMA SeenVouched ==
    ASSUME RoleInv, NEW k, Vouched(k)
    PROVE  get_auth_context(Forwarded([sub |-> "someone", roles |-> {"system"}], k)) = k
<1>1. PICK hs : hs = Forwarded([sub |-> "someone", roles |-> {"system"}], k)
  OBVIOUS
<1>2. k # Anonymous
  BY DEF Vouched, Anonymous, Claims, Sub
<1>3. PICK D : D = {"sub", "roles"} \cup {h \in {"restaurant_id", "rider_id"} : k[h] # "none"}
  OBVIOUS
<1>4. headers_for(k) = [h \in D |-> k[h]]
  BY <1>3 DEF headers_for
<1>5. hs = [h \in D |-> k[h]]
  <2>1. DOMAIN [sub |-> "someone", roles |-> {"system"}] \ STRIP_HEADERS = {}
    BY DEF STRIP_HEADERS
  <2>2. hs = [h \in DOMAIN headers_for(k) |-> headers_for(k)[h]]
    BY <1>1, <1>2, <1>4, <2>1 DEF Forwarded
  <2> QED
    BY <1>4, <2>2
<1>6. /\ Header(hs, "sub", "none") = k.sub /\ Header(hs, "roles", {}) = k.roles
      /\ Header(hs, "restaurant_id", "none") = k.restaurant_id
      /\ Header(hs, "rider_id", "none") = k.rider_id
  BY <1>3, <1>5 DEF Header
<1>7. k.sub = Sub /\ k.roles # {} /\ k.roles \subseteq ROLES
  BY DEF Vouched, RoleInv, Grantable, ROLES, Claims
<1>8. k = Claims(k.sub, k.roles, k.restaurant_id, k.rider_id)
  BY DEF Vouched, Claims
<1> QED
  BY <1>1, <1>6, <1>7, <1>8 DEF get_auth_context, Sub

\* A step of one call that asks nothing of the account.
EdgeMove(c) ==
    /\ UNCHANGED <<account, tokens, browser>>
    /\ \E q : /\ calls' = [calls EXCEPT ![c] = q] /\ IsCall(q)
              /\ q.pc \notin {"grant", "settle", "back"}
              /\ q.pair \in {NoPair, calls[c].pair, mem[TabOf[c]]}
              /\ CtxOk(q)

LEMMA Tagged ==
    ASSUME NEW q, IsCall(q), NEW x, NEW r, r = [q EXCEPT !.pc = x]
    PROVE  /\ IsCall(r) /\ r.pc = x /\ r.pair = q.pair /\ r.route = q.route
           /\ r.ctx = q.ctx /\ r.joined = q.joined
BY DEF IsCall

LEMMA TagMoves ==
    ASSUME Fields, NEW c \in Calls, NEW x, x \notin {"serve", "grant", "settle", "back"},
           UNCHANGED <<account, tokens, browser>>, calls' = [calls EXCEPT ![c].pc = x]
    PROVE  EdgeMove(c)
<1>0. PICK p : p = calls[c]
  OBVIOUS
<1>1. PICK q : q = [p EXCEPT !.pc = x]
  OBVIOUS
<1>2. IsCall(p)
  BY <1>0 DEF Fields
<1>3. IsCall(q) /\ q.pc = x /\ q.pair = p.pair
  BY <1>1, <1>2, Tagged
<1>4. calls' = [calls EXCEPT ![c] = q]
  BY <1>0, <1>1
<1> QED
  BY <1>0, <1>3, <1>4 DEF EdgeMove, CtxOk

LEMMA IdleMoves ==
    ASSUME NEW c, UNCHANGED <<account, tokens, browser>>, calls' = [calls EXCEPT ![c] = Idle]
    PROVE  EdgeMove(c)
<1>1. IsCall(Idle) /\ Idle.pc = "idle" /\ Idle.pair = NoPair
  BY DEF Idle, Request, IsCall
<1> QED
  BY <1>1 DEF EdgeMove, CtxOk

LEMMA VerdictMoves ==
    ASSUME Fields, RoleInv, ClaimInv, NEW c \in Calls, UNCHANGED <<account, tokens, browser>>,
           NEW worth, worth = "valid" => calls[c].pair # NoPair, Verdict(c, worth)
    PROVE  EdgeMove(c)
<1>1. CASE \E x \in {"expired", "refused", "limited"} : calls' = [calls EXCEPT ![c].pc = x]
  BY <1>1, TagMoves
<1>2. CASE /\ worth = "valid" \/ ~NeedsAuth(c)
           /\ LET ctx == IF worth = "valid" THEN calls[c].pair.claims ELSE Anonymous
                  seen == get_auth_context(Forwarded([sub |-> "someone", roles |-> {"system"}], ctx))
              IN  calls' = [calls EXCEPT ![c] = Request("serve", @.route, @.pair, @.retry, 0, seen, FALSE)]
  <2>1. PICK ctx : ctx = IF worth = "valid" THEN calls[c].pair.claims ELSE Anonymous
    OBVIOUS
  <2>2. PICK seen : seen = get_auth_context(Forwarded([sub |-> "someone", roles |-> {"system"}], ctx))
    OBVIOUS
  <2>3. worth = "valid" => Vouched(ctx)
    BY <2>1 DEF ClaimInv, Genuine
  <2>4. seen = ctx
    BY <2>1, <2>2, <2>3, SeenAnonymous, SeenVouched
  <2>5. PICK q : q = Request("serve", calls[c].route, calls[c].pair, calls[c].retry, 0, seen, FALSE)
    OBVIOUS
  <2>6. calls' = [calls EXCEPT ![c] = q]
    BY <1>2, <2>1, <2>2, <2>5 DEF Fields
  <2>7. IsCall(q) /\ q.pc = "serve" /\ q.pair = calls[c].pair /\ q.route = calls[c].route /\ q.ctx = ctx
    BY <2>4, <2>5 DEF Request, IsCall
  <2>8. CtxOk(q)
    BY <1>2, <2>1, <2>3, <2>7 DEF CtxOk, NeedsAuth
  <2> QED
    BY <2>6, <2>7, <2>8 DEF EdgeMove
<1> QED
  BY <1>1, <1>2 DEF Verdict

Edging(c) ==
    \/ AskForKeys(c) \/ jwks_doc(c) \/ Decide(c) \/ DecideFetched(c) \/ KeysUnreachable(c)
    \/ Onboarded(c) \/ \E r \in Routes : request(c, r)
LEMMA EdgingMoves ==
    ASSUME Fields, RoleInv, ClaimInv, NEW c \in Calls, Edging(c) PROVE EdgeMove(c)
<1>1. CASE AskForKeys(c)
  <2>1. PICK x : x = "fetch"
    OBVIOUS
  <2>2. calls' = [calls EXCEPT ![c].pc = x] /\ UNCHANGED <<account, tokens, browser>>
    BY <1>1, <2>1 DEF AskForKeys
  <2>3. x \notin {"serve", "grant", "settle", "back"}
    BY <2>1
  <2> QED
    BY <2>2, <2>3, TagMoves, Zenon
<1>2. CASE jwks_doc(c)
  <2>0. PICK p : p = calls[c]
    OBVIOUS
  <2>1. PICK n : n = [p EXCEPT !.pc = "fetched"]
    OBVIOUS
  <2>2. IsCall(p)
    BY <2>0 DEF Fields
  <2>3. IsCall(n) /\ n.pc = "fetched" /\ n.pair = p.pair
    BY <2>1, <2>2, Tagged
  <2>4. PICK q : q = [n EXCEPT !.doc = key]
    OBVIOUS
  <2>5. IsCall(q) /\ q.pc = n.pc /\ q.pair = n.pair
    BY <2>3, <2>4 DEF IsCall
  <2>6. calls' = [calls EXCEPT ![c] = q] /\ UNCHANGED <<account, tokens, browser>>
    BY <1>2, <2>0, <2>1, <2>4 DEF jwks_doc
  <2> QED
    BY <2>0, <2>3, <2>5, <2>6 DEF EdgeMove, CtxOk
<1>3. CASE Decide(c)
  <2>1. verify(calls[c].pair, jwks.keys) = "valid" => calls[c].pair # NoPair
    BY DEF verify
  <2> QED
    BY <1>3, <2>1, VerdictMoves DEF Decide
<1>4. CASE DecideFetched(c)
  <2>1. verify(calls[c].pair, {calls[c].doc}) = "valid" => calls[c].pair # NoPair
    BY DEF verify
  <2> QED
    BY <1>4, <2>1, VerdictMoves DEF DecideFetched
<1>5. CASE KeysUnreachable(c)
  <2>1. CASE calls' = [calls EXCEPT ![c] = Idle]
    BY <1>5, <2>1, IdleMoves DEF KeysUnreachable
  <2>2. CASE Verdict(c, "missing")
    BY <1>5, <2>2, VerdictMoves DEF KeysUnreachable
  <2> QED
    BY <1>5, <2>1, <2>2 DEF KeysUnreachable
<1>6. CASE Onboarded(c)
  BY <1>6, IdleMoves DEF Onboarded
<1>7. ASSUME NEW r \in Routes, request(c, r) PROVE EdgeMove(c)
  <2>1. PICK q : q = Request("edge", r, mem[TabOf[c]], TRUE, 0, Anonymous, FALSE)
    OBVIOUS
  <2>2. IsCall(q) /\ q.pc = "edge" /\ q.pair = mem[TabOf[c]]
    BY <2>1 DEF Request, IsCall
  <2>3. calls' = [calls EXCEPT ![c] = q] /\ UNCHANGED <<account, tokens, browser>>
    BY <1>7, <2>1 DEF request
  <2> QED
    BY <2>2, <2>3 DEF EdgeMove, CtxOk
<1> QED
  BY <1>1, <1>2, <1>3, <1>4, <1>5, <1>6, <1>7 DEF Edging

-----------------------------------------------------------------------------
(* How each step writes.                                                    *)

Written(c, q) == calls' = [calls EXCEPT ![c] = q] /\ IsCall(q)

LEMMA RefusedWrites ==
    ASSUME Fields, NEW c \in Calls, Refused(c)
    PROVE  \E q : /\ Written(c, q) /\ q.pc \in {"await", "idle"} /\ q.pair \in {NoPair, calls[c].pair}
<1>1. CASE calls' = [calls EXCEPT ![c].pc = "await"]
  <2>1. PICK p : p = calls[c]
    OBVIOUS
  <2>2. PICK q : q = [p EXCEPT !.pc = "await"]
    OBVIOUS
  <2>3. IsCall(q) /\ q.pc = "await" /\ q.pair = p.pair
    <3>1. IsCall(p)
      BY <2>1 DEF Fields
    <3> QED
      BY <2>2, <3>1, Tagged
  <2>4. calls' = [calls EXCEPT ![c] = q]
    BY <1>1, <2>1, <2>2
  <2> QED
    BY <2>1, <2>3, <2>4 DEF Written
<1>2. CASE calls' = [calls EXCEPT ![c] = Idle]
  <2>1. IsCall(Idle) /\ Idle.pc = "idle" /\ Idle.pair = NoPair
    BY DEF IsCall, Idle, Request
  <2> QED
    BY <1>2, <2>1 DEF Written
<1> QED
  BY <1>1, <1>2 DEF Refused

LEMMA ServeWrites ==
    ASSUME Fields, NEW c \in Calls, Serve(c)
    PROVE  \/ \E q : Written(c, q) /\ q = Idle /\ UNCHANGED granting
           \/ /\ GrantIn("admin") /\ granting' = [granting EXCEPT ![c] = "admin"]
              /\ \E q : /\ Written(c, q) /\ q.pc = "grant" /\ q.pair = calls[c].pair
                        /\ q.ctx = calls[c].ctx /\ q.route = calls[c].route
<1>1. CASE calls' = [calls EXCEPT ![c].pc = "grant"] /\ GrantIn("admin")
           /\ granting' = [granting EXCEPT ![c] = "admin"]
  <2>1. PICK p : p = calls[c]
    OBVIOUS
  <2>2. PICK q : q = [p EXCEPT !.pc = "grant"]
    OBVIOUS
  <2>3. IsCall(q) /\ q.pc = "grant" /\ q.pair = p.pair /\ q.ctx = p.ctx /\ q.route = p.route
    <3>1. IsCall(p)
      BY <2>1 DEF Fields
    <3> QED
      BY <2>2, <3>1, Tagged
  <2>4. calls' = [calls EXCEPT ![c] = q]
    BY <1>1, <2>1, <2>2
  <2> QED
    BY <1>1, <2>1, <2>3, <2>4 DEF Written
<1>2. CASE calls' = [calls EXCEPT ![c] = Idle] /\ UNCHANGED granting
  <2>1. IsCall(Idle)
    BY DEF IsCall, Idle, Request
  <2> QED
    BY <1>2, <2>1 DEF Written
<1> QED
  BY <1>1, <1>2 DEF Serve

LEMMA GrantedWrites ==
    ASSUME Fields, NEW c \in Calls, Granted(c)
    PROVE  \E q : /\ Written(c, q) /\ q.pc = "settle" /\ q.pair = calls[c].pair
                  /\ q.joined = (flight[TabOf[c]].pc # "none")
<1>1. PICK p : p = calls[c]
  OBVIOUS
<1>2. PICK n : n = [p EXCEPT !.pc = "settle"]
  OBVIOUS
<1>3. IsCall(n) /\ n.pc = "settle" /\ n.pair = p.pair
  <2>1. IsCall(p)
    BY <1>1 DEF Fields
  <2> QED
    BY <1>2, <2>1, Tagged
<1>4. PICK j : j = (flight[TabOf[c]].pc # "none")
  OBVIOUS
<1>5. PICK q : q = [n EXCEPT !.joined = j]
  OBVIOUS
<1>6. IsCall(q) /\ q.pc = n.pc /\ q.pair = n.pair /\ q.joined = j
  BY <1>3, <1>5 DEF IsCall
<1>7. calls' = [calls EXCEPT ![c] = q]
  BY <1>1, <1>2, <1>4, <1>5, Zenon DEF Granted
<1> QED
  BY <1>1, <1>3, <1>4, <1>6, <1>7 DEF Written

\* A refresh is joined or begun; other tabs have their own.
Joined(t) ==
    /\ flight' = [u \in Tabs |-> flight'[u]]
    /\ \A u \in Tabs : u # t => flight'[u] = flight[u]
    /\ \/ flight'[t] = flight[t] /\ flight[t].pc # "none"
       \/ /\ flight[t].pc = "none"
          /\ flight'[t] = Flight(IF SignedIn(t) THEN "sent" ELSE "refused", mem[t].id, 0, NoPair)
LEMMA JoinJoins == ASSUME Fields, NEW t \in Tabs, JoinRefresh(t) PROVE Joined(t)
BY DEF Fields, JoinRefresh, Joined

\* What a settled refresh leaves behind.
Settled(t, new) ==
    /\ flight[t].pc \in {"done", "refused", "turned_away", "lost"}
    /\ new = IF flight[t].pc = "done" THEN flight[t].pair
             ELSE IF flight[t].pc = "lost" THEN mem[t] ELSE NoPair
    /\ mem' = [mem EXCEPT ![t] = new] /\ flight' = [flight EXCEPT ![t] = NoFlight]
    /\ stored' = IF flight[t].pc = "lost" THEN stored ELSE new
    /\ calls' = [c \in Calls |-> calls'[c]]
    /\ \A c \in Calls :
          \/ calls'[c] = calls[c] /\ (TabOf[c] = t => calls[c].pc # "settle")
          \/ calls'[c] = Idle
          \/ /\ IsCall(calls'[c]) /\ calls'[c].pair = new
             /\ \/ calls'[c].pc = "edge"
                \/ /\ calls'[c].pc = "back" /\ calls[c].pc = "settle" /\ TabOf[c] = t
                   /\ calls'[c].joined = calls[c].joined /\ flight[t].pc = "done"
LEMMA RefreshSettles ==
    ASSUME Fields, NEW t \in Tabs, SettleRefresh(t) PROVE \E new : Settled(t, new)
<1>1. PICK new : new = IF flight[t].pc = "done" THEN flight[t].pair
                       ELSE IF flight[t].pc = "lost" THEN mem[t] ELSE NoPair
  OBVIOUS
<1>2. PICK ok \in BOOLEAN : ok = (flight[t].pc = "done")
  OBVIOUS
<1>3. calls' = [c \in Calls |-> IF TabOf[c] = t THEN Resumed(c, ok, new) ELSE calls[c]]
  BY <1>1, <1>2 DEF SettleRefresh
<1>4. ASSUME NEW c \in Calls
      PROVE  \/ calls'[c] = calls[c] /\ (TabOf[c] = t => calls[c].pc # "settle")
             \/ calls'[c] = Idle
             \/ /\ IsCall(calls'[c]) /\ calls'[c].pair = new
                /\ \/ calls'[c].pc = "edge"
                   \/ /\ calls'[c].pc = "back" /\ calls[c].pc = "settle" /\ TabOf[c] = t
                      /\ calls'[c].joined = calls[c].joined /\ flight[t].pc = "done"
  BY <1>2, <1>3 DEF Resumed, Request, IsCall
<1>5. mem' = [mem EXCEPT ![t] = new] /\ stored' = IF flight[t].pc = "lost" THEN stored ELSE new
  BY <1>1 DEF SettleRefresh
<1>6. calls' = [c \in Calls |-> calls'[c]]
  BY <1>3
<1>7. /\ flight[t].pc \in {"done", "refused", "turned_away", "lost"}
      /\ flight' = [flight EXCEPT ![t] = NoFlight]
  BY DEF SettleRefresh
<1>8. Settled(t, new)
  BY <1>1, <1>4, <1>5, <1>6, <1>7 DEF Settled
<1> QED
  BY <1>8

-----------------------------------------------------------------------------
(* Each step keeps the account's rows and what tokens and services say.     *)

Right == Fields /\ RoleInv /\ ClaimInv

ClaimMove ==
    /\ UserGrows
    /\ \A t \in Tabs : /\ Genuine(mem'[t]) /\ Genuine(flight'[t].pair)
                       /\ flight'[t].pc \in {"sent", "read"} => user.there
    /\ Genuine(stored')
    /\ \A c \in Calls : Genuine(calls'[c].pair) /\ CtxOk(calls'[c])
LEMMA ClaimsMove == ASSUME ClaimMove PROVE ClaimInv'
<1>1. ASSUME NEW t \in Tabs
      PROVE  Genuine(mem[t])' /\ Genuine(flight[t].pair)' /\ (flight'[t].pc \in {"sent", "read"} => user'.there)
  <2>1. PICK p, r : p = mem'[t] /\ r = flight'[t].pair
    OBVIOUS
  <2>2. Genuine(p)' /\ Genuine(r)'
    BY <2>1, GenuineStays DEF ClaimMove
  <2> QED
    BY <2>1, <2>2 DEF ClaimMove, UserGrows, Genuine, Vouched
<1>2. Genuine(stored)'
  <2>1. PICK p : p = stored'
    OBVIOUS
  <2>2. Genuine(p)'
    BY <2>1, GenuineStays DEF ClaimMove
  <2> QED
    BY <2>1, <2>2 DEF Genuine, Vouched
<1>3. ASSUME NEW c \in Calls PROVE Genuine(calls[c].pair)' /\ CtxOk(calls[c])'
  <2>1. PICK p, q : p = calls'[c].pair /\ q = calls'[c]
    OBVIOUS
  <2>2. Genuine(p)' /\ CtxOk(q)'
    BY <2>1, GenuineStays, CtxStays DEF ClaimMove
  <2> QED
    BY <2>1, <2>2 DEF Genuine, CtxOk, Vouched
<1> QED
  BY <1>1, <1>2, <1>3 DEF ClaimInv

LEMMA SameUser == ASSUME UNCHANGED user PROVE UserGrows
BY DEF UserGrows
LEMMA NothingSaid == Genuine(NoPair)
BY DEF Genuine
LEMMA PairsMeanUser == ASSUME RoleInv, NEW p, Genuine(p), p.id # 0 PROVE user.there
BY DEF RoleInv, Genuine, Vouched, NoPair, Pair

LEMMA EdgeRight == ASSUME Right, NEW c \in Calls, EdgeMove(c) PROVE Right'
<1>1. PICK q : /\ calls' = [calls EXCEPT ![c] = q] /\ IsCall(q)
               /\ q.pc \notin {"grant", "settle", "back"}
               /\ q.pair \in {NoPair, calls[c].pair, mem[TabOf[c]]} /\ CtxOk(q)
  BY DEF EdgeMove
<1>2. /\ UNCHANGED <<user, granting, crossed, mem, stored, flight, sess>>
      /\ calls'[c] = q /\ \A d \in Calls : d # c => calls'[d] = calls[d]
  BY <1>1 DEF EdgeMove, account, browser, tokens, Right, Fields
<1>3. Genuine(q.pair)
  BY <1>1, NothingSaid, IdentityConstants DEF Right, ClaimInv
<1>4. ClaimMove
  BY <1>1, <1>2, <1>3, SameUser DEF ClaimMove, Right, ClaimInv
<1>5. Fields'
  BY <1>1, <1>2 DEF Right, Fields
<1>6. RoleInv'
  BY <1>1, <1>2, AsideKeeps DEF Right, Aside
<1> QED
  BY <1>4, <1>5, <1>6, ClaimsMove DEF Right

LEMMA JoinedPairs ==
    ASSUME Right, NEW t \in Tabs, Joined(t)
    PROVE  \A u \in Tabs : /\ Genuine(flight'[u].pair)
                           /\ flight'[u].pc \in {"sent", "read"} => user.there
<1>1. SignedIn(t) => user.there
  BY PairsMeanUser DEF SignedIn, Right, ClaimInv
<1> QED
  BY <1>1, NothingSaid DEF Joined, Right, ClaimInv, Flight

LEMMA RefusedRight == ASSUME Right, NEW c \in Calls, Refused(c) PROVE Right'
<1>1. PICK q : Written(c, q) /\ q.pc \in {"await", "idle"} /\ q.pair \in {NoPair, calls[c].pair}
  BY RefusedWrites DEF Right
<1>2. /\ UNCHANGED <<user, granting, crossed, mem, stored, sess>>
      /\ calls'[c] = q /\ (\A d \in Calls : d # c => calls'[d] = calls[d])
      /\ calls' = [d \in Calls |-> calls'[d]] /\ IsCall(q)
  BY <1>1 DEF Refused, Written, account, tokens, Right, Fields
<1>3. flight' = flight \/ Joined(TabOf[c])
  BY JoinJoins, IdentityConstants DEF Refused, Right
<1>4. \A u \in Tabs : /\ Genuine(flight'[u].pair)
                      /\ flight'[u].pc \in {"sent", "read"} => user.there
  BY <1>3, JoinedPairs, IdentityConstants DEF Right, ClaimInv
<1>5. Genuine(q.pair) /\ CtxOk(q)
  BY <1>1, NothingSaid DEF Right, ClaimInv, CtxOk
<1>6. ClaimMove
  BY <1>2, <1>4, <1>5, SameUser DEF ClaimMove, Right, ClaimInv
<1>7. Fields'
  BY <1>2, <1>3 DEF Right, Fields, Joined
<1>8. RoleInv'
  BY <1>1, <1>2, AsideKeeps DEF Right, Aside
<1> QED
  BY <1>6, <1>7, <1>8, ClaimsMove DEF Right

LEMMA ServeRight == ASSUME Right, NEW c \in Calls, calls[c].pc = "serve", Serve(c) PROVE Right'
<1>1. PICK q : /\ Written(c, q)
               /\ \/ q = Idle /\ UNCHANGED granting
                  \/ /\ GrantIn("admin") /\ granting' = [granting EXCEPT ![c] = "admin"]
                     /\ q.pc = "grant" /\ q.pair = calls[c].pair
                     /\ q.ctx = calls[c].ctx /\ q.route = calls[c].route
  BY ServeWrites DEF Right
<1>2. /\ UNCHANGED <<user, crossed, mem, stored, flight, sess>>
      /\ calls'[c] = q /\ (\A d \in Calls : d # c => calls'[d] = calls[d])
      /\ calls' = [d \in Calls |-> calls'[d]] /\ IsCall(q)
  BY <1>1 DEF Serve, Written, browser, tokens, Right, Fields
<1>3. Idle.pc = "idle" /\ Idle.pair = NoPair
  BY DEF Idle, Request
<1>4. Genuine(q.pair) /\ CtxOk(q)
  BY <1>1, <1>3, NothingSaid DEF Right, ClaimInv, CtxOk
<1>5. ClaimMove
  BY <1>2, <1>4, SameUser DEF ClaimMove, Right, ClaimInv
<1>6. Fields'
  BY <1>1, <1>2 DEF Right, Fields
<1>7. RoleInv'
  <2>1. CASE q = Idle /\ UNCHANGED granting
    BY <1>2, <1>3, <2>1, AsideKeeps DEF Right, Aside
  <2>2. CASE GrantIn("admin") /\ granting' = [granting EXCEPT ![c] = "admin"]
    <3>1. c \in Grantors /\ Fields /\ RoleInv /\ UNCHANGED <<user, crossed>>
      BY <1>2 DEF Right, Grantors
    <3>2. \A d \in Calls : calls'[d].pc = "grant" => (calls[d].pc = "grant" /\ d # c) \/ d = c
      BY <1>2
    <3> QED
      BY <2>2, <3>1, <3>2, CheckKeeps
  <2> QED
    BY <1>1, <2>1, <2>2
<1> QED
  BY <1>5, <1>6, <1>7, ClaimsMove DEF Right

LEMMA GrantedRight == ASSUME Right, NEW c \in Calls, Granted(c) PROVE Right'
<1>1. PICK q : Written(c, q) /\ q.pc = "settle" /\ q.pair = calls[c].pair
  BY GrantedWrites DEF Right
<1>2. /\ UNCHANGED <<mem, stored, sess>> /\ user' = Write(c) /\ crossed' = (crossed \/ Crosses(c))
      /\ granting' = [granting EXCEPT ![c] = "no"]
      /\ calls'[c] = q /\ (\A d \in Calls : d # c => calls'[d] = calls[d])
      /\ calls' = [d \in Calls |-> calls'[d]] /\ IsCall(q)
  BY <1>1 DEF Granted, Written, tokens, Right, Fields
<1>3. Joined(TabOf[c])
  BY JoinJoins, IdentityConstants DEF Granted, Right
<1>4. \A u \in Tabs : /\ Genuine(flight'[u].pair)
                      /\ flight'[u].pc \in {"sent", "read"} => user.there
  BY <1>3, JoinedPairs, IdentityConstants
<1>5. Genuine(q.pair) /\ CtxOk(q)
  BY <1>1 DEF Right, ClaimInv, CtxOk
<1>6. c \in Grantors /\ granting[c] = "admin"
  BY DEF Granted, Right, RoleInv, Grantors
<1>7. ClaimMove
  BY <1>2, <1>4, <1>5, <1>6, WriteGrows DEF ClaimMove, Right, ClaimInv
<1>8. Fields'
  BY <1>2, <1>3 DEF Right, Fields, Joined, Write, grant_restaurant_admin, grant_rider, User
<1>9. RoleInv'
  BY <1>1, <1>2, <1>6, WriteKeeps DEF Right
<1> QED
  BY <1>7, <1>8, <1>9, ClaimsMove DEF Right

-----------------------------------------------------------------------------
(* Tabs.  Until something is recorded as trouble, a tab's refresh token is  *)
(* the current one of its session, or its own refresh has just replaced it. *)

Current(x) == x = 0 \/ \E s \in 1 .. MaxSessions : sess[s].tok = x /\ ~sess[s].expired
Replaced(t, x) == flight[t].pc = "done" /\ flight[t].tok = x

FlightOk(t) ==
    /\ flight[t].pc \in {"sent", "read"} => mem[t].id \in {0, flight[t].tok}
    /\ flight[t].pc = "read" =>
          /\ flight[t].sid \in 1 .. MaxSessions
          /\ mem[t].id # 0 => /\ sess[flight[t].sid].tok = flight[t].tok
                              /\ ~sess[flight[t].sid].expired
    /\ flight[t].pc = "refused" => mem[t].id = 0
    /\ flight[t].pc = "done" =>
          /\ flight[t].pair.id # 0 /\ Current(flight[t].pair.id)
          /\ mem[t].id \in {0, flight[t].tok} /\ stored.id # flight[t].pair.id
          /\ \A u \in Tabs : /\ mem[u].id # flight[t].pair.id /\ flight[u].tok # flight[t].pair.id
                             /\ u # t => flight[u].pair.id # flight[t].pair.id

TokenInv ==
    ~trouble =>
      /\ \A t \in Tabs : (Current(mem[t].id) \/ Replaced(t, mem[t].id)) /\ FlightOk(t)
      /\ Current(stored.id) \/ \E t \in Tabs : Replaced(t, stored.id)

LEMMA TokensBegin == ASSUME IdentityInit PROVE TokenInv
BY DEF IdentityInit, TokenInv, FlightOk, Current, NoPair, Pair, NoFlight, Flight

LEMMA TokensStay ==
    ASSUME TokenInv, UNCHANGED <<mem, stored, flight, sess>>, trouble => trouble'
    PROVE  TokenInv'
BY DEF TokenInv, FlightOk, Current, Replaced

LEMMA JoinTokens ==
    ASSUME TokenInv, NEW t \in Tabs, Joined(t), UNCHANGED <<mem, stored, sess, trouble>>
    PROVE  TokenInv'
<1> SUFFICES ASSUME ~trouble PROVE TokenInv'
  BY DEF TokenInv
<1>1. CASE flight'[t] = flight[t]
  <2>1. \A u \in Tabs : flight'[u] = flight[u]
    BY <1>1 DEF Joined
  <2> QED
    BY <2>1 DEF TokenInv, FlightOk, Current, Replaced
<1>2. CASE flight[t].pc = "none" /\
           flight'[t] = Flight(IF SignedIn(t) THEN "sent" ELSE "refused", mem[t].id, 0, NoPair)
  <2>1. /\ flight'[t].pc = IF mem[t].id # 0 THEN "sent" ELSE "refused"
        /\ flight'[t].tok = mem[t].id /\ flight'[t].pair.id = 0
    BY <1>2 DEF Flight, SignedIn, NoPair, Pair
  <2>2. \A u \in Tabs : u # t => flight'[u] = flight[u]
    BY DEF Joined
  <2>3. \A x : Current(x)' <=> Current(x)
    BY DEF Current
  <2>4. FlightOk(t)'
    BY <2>1 DEF FlightOk
  <2>5. ASSUME NEW u \in Tabs, u # t PROVE FlightOk(u)'
    <3>1. FlightOk(u) /\ flight'[u] = flight[u]
      BY <2>2, <2>5 DEF TokenInv
    <3> QED
      BY <2>1, <2>2, <3>1 DEF FlightOk, Current
  <2>6. \A u \in Tabs : (Current(mem[u].id) \/ Replaced(u, mem[u].id))'
    BY <1>2, <2>2 DEF TokenInv, Current, Replaced
  <2>7. (Current(stored.id) \/ \E u \in Tabs : Replaced(u, stored.id))'
    BY <1>2, <2>2 DEF TokenInv, Current, Replaced
  <2> QED
    BY <2>4, <2>5, <2>6, <2>7 DEF TokenInv
<1> QED
  BY <1>1, <1>2 DEF Joined

\* A login takes a row that no tab has a use for.
LEMMA LoginRight == ASSUME Right, NEW t \in Tabs, login(t) PROVE Right'
<1>1. PICK p : p = issue_pair(new_refresh_token)
  OBVIOUS
<1>2. Genuine(p)
  BY <1>1, FreshToken, IssuedIsGenuine DEF login, Right
<1>3. /\ mem' = [mem EXCEPT ![t] = p] /\ stored' = p /\ UNCHANGED <<flight, calls, user, granting, crossed>>
      /\ sess' = [s \in 1 .. MaxSessions |-> sess'[s]]
  BY <1>1 DEF login, account, Right, Fields
<1>4. ClaimMove
  BY <1>2, <1>3, SameUser DEF ClaimMove, Right, ClaimInv, Fields
<1>5. Fields'
  BY <1>3 DEF Right, Fields
<1>6. RoleInv'
  BY <1>3, AsideKeeps DEF Right, Aside
<1> QED
  BY <1>4, <1>5, <1>6, ClaimsMove DEF Right

LEMMA LoginTokens == ASSUME Right, TokenInv, NEW t \in Tabs, login(t) PROVE TokenInv'
<1> SUFFICES ASSUME ~trouble PROVE TokenInv'
  BY DEF login, TokenInv
<1>1. PICK s, i :
         /\ s \in FreeSession /\ i = new_refresh_token /\ sess' = [sess EXCEPT ![s] = Session(i, FALSE)]
         /\ mem' = [mem EXCEPT ![t] = issue_pair(i)] /\ stored' = issue_pair(i)
  <2>1. PICK s : s = CHOOSE x \in FreeSession : TRUE
    OBVIOUS
  <2>2. s \in FreeSession
    BY <2>1 DEF login
  <2> QED
    BY <2>1, <2>2 DEF login
<1>2. i # 0 /\ i \notin InUse
  BY <1>1, FreshToken DEF login
<1>3. issue_pair(i).id = i
  BY DEF issue_pair, Pair
<1>4. /\ UNCHANGED <<flight, trouble>> /\ flight[t] = NoFlight
      /\ mem'[t].id = i /\ stored'.id = i /\ (\A u \in Tabs : u # t => mem'[u] = mem[u])
  BY <1>1, <1>3 DEF login, Right, Fields
<1>5. /\ s \in 1 .. MaxSessions
      /\ sess[s].tok = 0 \/ (sess[s].tok \notin Held /\ \A u \in Tabs : flight[u].sid # s)
      /\ sess'[s].tok = i /\ ~sess'[s].expired /\ (\A r \in 1 .. MaxSessions : r # s => sess'[r] = sess[r])
  BY <1>1 DEF FreeSession, Right, Fields, Session
<1>6. \A x \in Held : Current(x) => Current(x)'
  BY <1>5 DEF Current
<1>7. \A u \in Tabs : {mem[u].id, flight[u].tok, flight[u].pair.id, stored.id} \subseteq Held
  BY DEF Held
<1>8. Held \subseteq InUse
  BY DEF InUse
<1>9. ASSUME NEW u \in Tabs PROVE (Current(mem[u].id) \/ Replaced(u, mem[u].id))' /\ FlightOk(u)'
  <2>1. flight[u].pc = "none" => FlightOk(u)'
    BY <1>4 DEF FlightOk
  <2>2. CASE u = t
    BY <1>4, <1>5, <2>1, <2>2 DEF Current, NoFlight, Flight
  <2>3. CASE u # t
    <3>1. (Current(mem[u].id) \/ Replaced(u, mem[u].id)) /\ FlightOk(u) /\ mem'[u] = mem[u]
      BY <1>4, <2>3 DEF TokenInv
    <3>2. Current(mem[u].id)' \/ Replaced(u, mem[u].id)'
      BY <1>4, <1>6, <1>7, <3>1 DEF Replaced, Current
    <3>3. flight[u].pc = "done" => Current(flight[u].pair.id)'
      BY <1>4, <1>6, <1>7, <3>1 DEF FlightOk, Current
    <3>4. flight[u].pc = "done" => flight[u].pair.id # i
      BY <1>2, <1>7, <1>8
    <3> QED
      BY <1>4, <1>5, <3>1, <3>2, <3>3, <3>4 DEF FlightOk
  <2> QED
    BY <2>2, <2>3
<1>10. Current(stored.id)'
  BY <1>4, <1>5 DEF Current
<1> QED
  BY <1>9, <1>10 DEF TokenInv

\* The Sign out button and a page load.
LEMMA PageRight ==
    ASSUME Right, NEW t \in Tabs, logout(t) \/ Reload(t)
    PROVE  Right'
<1>1. PICK p, r : p = mem'[t] /\ r = stored'
  OBVIOUS
<1>2. /\ UNCHANGED <<flight, calls, user, granting, crossed, sess>>
      /\ mem' = [mem EXCEPT ![t] = p] /\ stored' = r /\ p \in {NoPair, stored} /\ r \in {NoPair, stored}
  BY <1>1 DEF logout, Reload, account, tokens, Right, Fields
<1>3. Genuine(p) /\ Genuine(r)
  BY <1>2, NothingSaid DEF Right, ClaimInv
<1>4. ClaimMove
  BY <1>2, <1>3, SameUser DEF ClaimMove, Right, ClaimInv, Fields
<1>5. Fields'
  BY <1>2 DEF Right, Fields
<1>6. RoleInv'
  BY <1>2, AsideKeeps DEF Right, Aside
<1> QED
  BY <1>4, <1>5, <1>6, ClaimsMove DEF Right

LEMMA LogoutTokens == ASSUME Right, TokenInv, NEW t \in Tabs, logout(t) PROVE TokenInv'
<1> SUFFICES ASSUME ~trouble PROVE TokenInv'
  BY DEF logout, tokens, TokenInv
<1>1. /\ UNCHANGED <<flight, sess, trouble>> /\ mem'[t].id = 0 /\ stored'.id = 0
      /\ \A u \in Tabs : u # t => mem'[u] = mem[u]
  BY DEF logout, tokens, Right, Fields, NoPair, Pair
<1>2. \A x : Current(x)' <=> Current(x)
  BY <1>1 DEF Current
<1>3. Current(0)
  BY DEF Current
<1>4. ASSUME NEW u \in Tabs PROVE (Current(mem[u].id) \/ Replaced(u, mem[u].id))' /\ FlightOk(u)'
  <2>1. (Current(mem[u].id) \/ Replaced(u, mem[u].id)) /\ FlightOk(u)
    BY DEF TokenInv
  <2>2. mem'[u].id \in {0, mem[u].id}
    BY <1>1
  <2>3. FlightOk(u)'
    BY <1>1, <2>1, <2>2 DEF FlightOk, Current
  <2>4. (Current(mem[u].id) \/ Replaced(u, mem[u].id))'
    BY <1>1, <2>1, <2>2 DEF Current, Replaced
  <2> QED
    BY <2>3, <2>4
<1>5. Current(stored.id)'
  BY <1>1 DEF Current
<1> QED
  BY <1>4, <1>5 DEF TokenInv

\* A page reads the storage: unless another tab is replacing what is there,
\* what it reads is current.
LEMMA ReloadTokens == ASSUME Right, TokenInv, NEW t \in Tabs, Reload(t) PROVE TokenInv'
<1> SUFFICES ASSUME ~trouble' PROVE TokenInv'
  BY DEF TokenInv
<1>1. /\ UNCHANGED <<flight, sess, stored>> /\ ~trouble /\ flight[t] = NoFlight
      /\ \A u \in Tabs \ {t} : ~(stored # NoPair /\ flight[u].tok = stored.id)
      /\ mem'[t] = stored /\ \A u \in Tabs : u # t => mem'[u] = mem[u]
  BY DEF Reload, Right, Fields
<1>2. flight[t].pc = "none"
  BY <1>1 DEF NoFlight, Flight
<1>3. Current(stored.id)
  <2>1. SUFFICES ASSUME NEW u \in Tabs, Replaced(u, stored.id), stored.id # 0 PROVE FALSE
    BY <1>1 DEF TokenInv, Current
  <2>2. u # t /\ stored # NoPair
    BY <1>2, <2>1 DEF Replaced, NoPair, Pair
  <2> QED
    BY <1>1, <2>1, <2>2 DEF Replaced
<1>4. ASSUME NEW u \in Tabs PROVE (Current(mem[u].id) \/ Replaced(u, mem[u].id))' /\ FlightOk(u)'
  <2>1. (Current(mem[u].id) \/ Replaced(u, mem[u].id)) /\ FlightOk(u)
    BY <1>1 DEF TokenInv
  <2>2. CASE u = t
    BY <1>1, <1>2, <1>3, <2>2 DEF FlightOk, Current
  <2>3. CASE u # t
    <3>1. FlightOk(u)'
      BY <1>1, <2>1, <2>3 DEF FlightOk, Current
    <3>2. (Current(mem[u].id) \/ Replaced(u, mem[u].id))'
      BY <1>1, <2>1, <2>3 DEF Current, Replaced
    <3> QED
      BY <3>1, <3>2
  <2> QED
    BY <2>2, <2>3
<1>5. Current(stored.id)'
  BY <1>1, <1>3 DEF Current
<1> QED
  BY <1>4, <1>5 DEF TokenInv

\* A tab's own refresh moves.
LEMMA FlightRight ==
    ASSUME Right, NEW t \in Tabs, NEW f, flight' = [flight EXCEPT ![t] = f], Genuine(f.pair),
           f.pc \in {"sent", "read"} => user.there,
           UNCHANGED <<user, granting, crossed, mem, stored, calls>>,
           sess' = [s \in 1 .. MaxSessions |-> sess'[s]]
    PROVE  Right'
<1>1. ClaimMove
  BY SameUser DEF ClaimMove, Right, ClaimInv, Fields
<1>2. Fields'
  BY DEF Right, Fields
<1>3. RoleInv'
  BY AsideKeeps DEF Right, Aside
<1> QED
  BY <1>1, <1>2, <1>3, ClaimsMove DEF Right

\* What an answer to a refresh, or its absence, makes of it.
Answered(t, f) ==
    /\ flight' = [flight EXCEPT ![t] = f]
    /\ UNCHANGED <<user, granting, crossed, mem, stored, calls, sess>>
    /\ f = Flight(f.pc, flight[t].tok, f.sid, NoPair)
    /\ \/ f.pc \in {"turned_away", "lost"} /\ (trouble' \/ flight[t].pc # "done")
       \/ /\ f.pc = "refused" /\ flight[t].pc = "sent"
          /\ ~\E s \in 1 .. MaxSessions : sess[s].tok = flight[t].tok /\ ~sess[s].expired
       \/ /\ f.pc = "read" /\ flight[t].pc = "sent" /\ f.sid \in 1 .. MaxSessions
          /\ sess[f.sid].tok = flight[t].tok /\ ~sess[f.sid].expired
    /\ trouble => trouble'
LEMMA RefreshAnswers ==
    ASSUME Fields, NEW t \in Tabs, RefreshTurnedAway(t) \/ refresh(t) \/ AnswerLost(t)
    PROVE  \E f : Answered(t, f)
<1>1. CASE RefreshTurnedAway(t)
  <2>1. PICK f : f = Flight("turned_away", flight[t].tok, 0, NoPair)
    OBVIOUS
  <2>2. flight' = [flight EXCEPT ![t] = f]
    BY <1>1, <2>1 DEF RefreshTurnedAway, Fields
  <2>3. Answered(t, f)
    BY <1>1, <2>1, <2>2 DEF RefreshTurnedAway, Answered, Flight, account, tokens
  <2> QED
    BY <2>3
<1>2. CASE AnswerLost(t)
  <2>1. PICK f : f = Flight("lost", flight[t].tok, 0, NoPair)
    OBVIOUS
  <2>2. flight' = [flight EXCEPT ![t] = f]
    BY <1>2, <2>1 DEF AnswerLost, Fields
  <2>3. Answered(t, f)
    BY <1>2, <2>1, <2>2 DEF AnswerLost, Answered, Flight, account
  <2> QED
    BY <2>3
<1>3. CASE refresh(t)
  <2>1. PICK found : found = {s \in get_refresh_by_hash(flight[t].tok) : ~sess[s].expired}
    OBVIOUS
  <2>2. PICK f : f = IF found = {} THEN Flight("refused", flight[t].tok, 0, NoPair)
                     ELSE Flight("read", flight[t].tok, CHOOSE s \in found : TRUE, NoPair)
    OBVIOUS
  <2>3. flight' = [flight EXCEPT ![t] = f]
    BY <1>3, <2>1, <2>2 DEF refresh, Fields
  <2>4. found = {s \in 1 .. MaxSessions : sess[s].tok = flight[t].tok /\ ~sess[s].expired}
    BY <2>1 DEF get_refresh_by_hash, Fields
  <2>5. flight[t].pc = "sent" /\ UNCHANGED <<user, granting, crossed, mem, stored, calls, sess, trouble>>
    BY <1>3 DEF refresh, account, tokens
  <2>6. CASE found = {}
    <3>1. Answered(t, f)
      BY <2>2, <2>3, <2>4, <2>5, <2>6 DEF Answered, Flight
    <3> QED
      BY <3>1
  <2>7. CASE found # {}
    <3>1. PICK s \in found : f = Flight("read", flight[t].tok, s, NoPair)
      BY <2>2, <2>7
    <3>2. Answered(t, f)
      BY <2>3, <2>4, <2>5, <3>1 DEF Answered, Flight
    <3> QED
      BY <3>2
  <2> QED
    BY <2>6, <2>7
<1> QED
  BY <1>1, <1>2, <1>3

LEMMA RefreshRight ==
    ASSUME Right, NEW t \in Tabs, RefreshTurnedAway(t) \/ refresh(t) \/ AnswerLost(t)
    PROVE  Right'
<1>1. PICK f : Answered(t, f)
  BY RefreshAnswers DEF Right
<1>2. f.pair = NoPair /\ (f.pc \in {"sent", "read"} => user.there)
  BY <1>1 DEF Answered, Flight, Right, ClaimInv
<1> QED
  BY <1>1, <1>2, NothingSaid, FlightRight DEF Answered, Right, Fields

LEMMA RotateRight == ASSUME Right, NEW t \in Tabs, rotate_session(t) PROVE Right'
<1>1. PICK f : f = Flight("done", flight[t].tok, 0, issue_pair(new_refresh_token))
  OBVIOUS
<1>2. user.there
  BY DEF rotate_session, Right, ClaimInv
<1>3. Genuine(f.pair) /\ f.pc = "done"
  BY <1>1, <1>2, FreshToken, IssuedIsGenuine DEF rotate_session, Right, Flight
<1>4. flight' = [flight EXCEPT ![t] = f]
  BY <1>1 DEF rotate_session, Right, Fields
<1>5. /\ UNCHANGED <<user, granting, crossed, mem, stored, calls>>
      /\ sess' = [s \in 1 .. MaxSessions |-> sess'[s]]
  BY DEF rotate_session, account, Right, Fields
<1> QED
  BY <1>3, <1>4, <1>5, FlightRight

LEMMA SettleRight == ASSUME Right, NEW t \in Tabs, SettleRefresh(t) PROVE Right'
<1>1. PICK new : Settled(t, new)
  BY RefreshSettles DEF Right
<1>2. UNCHANGED <<user, granting, crossed, sess>>
  BY DEF SettleRefresh, account, tokens
<1>3. Genuine(new)
  BY <1>1, NothingSaid DEF Settled, Right, ClaimInv
<1>4. Genuine(stored')
  BY <1>1, <1>3 DEF Settled, Right, ClaimInv
<1>5. \A u \in Tabs : /\ Genuine(mem'[u]) /\ Genuine(flight'[u].pair)
                      /\ flight'[u].pc \in {"sent", "read"} => user.there
  BY <1>1, <1>3, NothingSaid DEF Settled, Right, ClaimInv, Fields, NoFlight, Flight
<1>6. IsCall(Idle) /\ Idle.pc = "idle" /\ Idle.pair = NoPair
  BY DEF IsCall, Idle, Request
<1>7. \A c \in Calls : Genuine(calls'[c].pair) /\ CtxOk(calls'[c]) /\ IsCall(calls'[c])
                       /\ (calls'[c].pc = "grant" => calls[c].pc = "grant")
  BY <1>1, <1>3, <1>6, NothingSaid DEF Settled, Right, ClaimInv, CtxOk, Fields
<1>8. ClaimMove
  BY <1>2, <1>4, <1>5, <1>7, SameUser DEF ClaimMove
<1>9. Fields'
  BY <1>1, <1>2, <1>7 DEF Settled, Right, Fields
<1>10. RoleInv'
  BY <1>2, <1>7, AsideKeeps DEF Right, Aside
<1> QED
  BY <1>8, <1>9, <1>10, ClaimsMove DEF Right

LEMMA AnsweredTokens == ASSUME Right, TokenInv, NEW t \in Tabs, NEW f, Answered(t, f) PROVE TokenInv'
<1> SUFFICES ASSUME ~trouble' PROVE TokenInv'
  BY DEF TokenInv
<1>1. /\ UNCHANGED <<mem, stored, sess>> /\ ~trouble /\ flight'[t] = f
      /\ \A u \in Tabs : u # t => flight'[u] = flight[u]
      /\ f.tok = flight[t].tok /\ f.pair.id = 0 /\ f.pc # "done" /\ flight[t].pc # "done"
      /\ f.pc \in {"turned_away", "lost", "refused", "read"}
  BY DEF Answered, Flight, NoPair, Pair, Right, Fields
<1>2. FlightOk(t) /\ Current(mem[t].id)
  BY <1>1 DEF TokenInv, Replaced
<1>3. FlightOk(t)'
  <2>1. CASE f.pc = "refused"
    <3>1. mem[t].id # flight[t].tok \/ mem[t].id = 0
      BY <1>2, <2>1 DEF Answered, Current
    <3> QED
      BY <1>1, <1>2, <2>1, <3>1 DEF FlightOk, Answered
  <2>2. CASE f.pc # "refused"
    BY <1>1, <1>2, <2>2 DEF FlightOk, Answered
  <2> QED
    BY <2>1, <2>2
<1>4. ASSUME NEW u \in Tabs PROVE (Current(mem[u].id) \/ Replaced(u, mem[u].id))' /\ FlightOk(u)'
  <2>1. (Current(mem[u].id) \/ Replaced(u, mem[u].id)) /\ FlightOk(u)
    BY <1>1 DEF TokenInv
  <2>2. CASE u = t
    BY <1>1, <1>2, <1>3, <2>2 DEF Current
  <2>3. CASE u # t
    <3>1. FlightOk(u)'
      BY <1>1, <2>1, <2>3 DEF FlightOk, Current
    <3> QED
      BY <1>1, <2>1, <2>3, <3>1 DEF Current, Replaced
  <2> QED
    BY <2>2, <2>3
<1>5. (Current(stored.id) \/ \E u \in Tabs : Replaced(u, stored.id))'
  BY <1>1 DEF TokenInv, Current, Replaced
<1> QED
  BY <1>4, <1>5 DEF TokenInv

\* A rotation: nobody else holds the token it replaces, or there is trouble.
LEMMA RotateTokens == ASSUME Right, TokenInv, NEW t \in Tabs, rotate_session(t) PROVE TokenInv'
<1> SUFFICES ASSUME ~trouble' PROVE TokenInv'
  BY DEF TokenInv
<1>1. PICK i : i = new_refresh_token
  OBVIOUS
<1>2. i # 0 /\ i \notin InUse
  BY <1>1, FreshToken DEF rotate_session
<1>3. PICK s, x : s = flight[t].sid /\ x = flight[t].tok
  OBVIOUS
<1>4. ~trouble /\ sess[s].tok = x /\ (\A u \in Tabs : u # t => mem[u].id # x) /\ flight[t].pc = "read"
  BY <1>3 DEF rotate_session
<1>5. FlightOk(t) /\ s \in 1 .. MaxSessions /\ mem[t].id \in {0, x}
  BY <1>3, <1>4 DEF TokenInv, FlightOk
<1>6. /\ sess' = [sess EXCEPT ![s] = Session(i, FALSE)] /\ UNCHANGED <<mem, stored>>
      /\ flight' = [flight EXCEPT ![t] = Flight("done", x, 0, issue_pair(i))]
  BY <1>1, <1>3 DEF rotate_session, Right, Fields
<1>7. /\ sess'[s].tok = i /\ ~sess'[s].expired
      /\ \A r \in 1 .. MaxSessions : r # s => sess'[r] = sess[r]
  BY <1>5, <1>6 DEF Right, Fields, Session
<1>8. /\ flight'[t].pc = "done" /\ flight'[t].tok = x /\ flight'[t].pair.id = i
      /\ \A u \in Tabs : u # t => flight'[u] = flight[u]
  BY <1>6 DEF Right, Fields, Flight, issue_pair, Pair
<1>9. \A y : Current(y) /\ y # x => Current(y)'
  BY <1>4, <1>7 DEF Current
<1>10. \A u \in Tabs : {mem[u].id, flight[u].tok, flight[u].pair.id, stored.id} \subseteq InUse
  BY DEF InUse, Held
<1>11. ASSUME NEW u \in Tabs PROVE (Current(mem[u].id) \/ Replaced(u, mem[u].id))' /\ FlightOk(u)'
  <2>1. (Current(mem[u].id) \/ Replaced(u, mem[u].id)) /\ FlightOk(u)
    BY <1>4 DEF TokenInv
  <2>2. CASE u = t
    <3>1. Current(mem[t].id)' \/ Replaced(t, mem[t].id)'
      BY <1>5, <1>6, <1>8 DEF Current, Replaced
    <3>2. Current(i)'
      BY <1>5, <1>7 DEF Current
    <3>3. FlightOk(t)'
      <4>1. stored'.id # i /\ \A v \in Tabs : /\ mem'[v].id # i /\ flight'[v].tok # i
                                              /\ v # t => flight'[v].pair.id # i
        BY <1>2, <1>3, <1>6, <1>8, <1>10
      <4>2. mem'[t].id \in {0, x}
        BY <1>5, <1>6
      <4> QED
        BY <1>2, <1>8, <3>2, <4>1, <4>2 DEF FlightOk, Current
    <3> QED
      BY <2>2, <3>1, <3>3
  <2>3. CASE u # t
    <3>1. (Current(mem[u].id) \/ Replaced(u, mem[u].id))'
      BY <1>4, <1>6, <1>8, <1>9, <2>1, <2>3 DEF Replaced, Current
    <3>2. flight[u].pc = "read" /\ mem[u].id # 0 =>
             flight[u].sid # s /\ sess'[flight[u].sid] = sess[flight[u].sid]
      BY <1>4, <1>7, <2>1, <2>3 DEF FlightOk
    <3>3. flight[u].pc = "done" => Current(flight[u].pair.id)' /\ flight[u].pair.id # i
      <4>1. PICK y : y = flight[u].pair.id
        OBVIOUS
      <4>2. flight[u].pc = "done" => Current(y) /\ y # x
        BY <1>3, <2>1, <4>1 DEF FlightOk
      <4>3. flight[u].pc = "done" => Current(y)'
        BY <1>9, <4>2
      <4>4. flight'[u] = flight[u] /\ y # i
        BY <1>2, <1>8, <1>10, <2>3, <4>1
      <4> QED
        BY <4>1, <4>3, <4>4 DEF Current
    <3>4. FlightOk(u)'
      <4>1. /\ flight'[u] = flight[u] /\ UNCHANGED <<mem, stored>>
            /\ flight'[t].tok = flight[t].tok /\ flight'[t].pair.id = i
            /\ \A v \in Tabs : v # t => flight'[v] = flight[v]
        BY <1>3, <1>6, <1>8, <2>3
      <4>2. CASE flight[u].pc = "done"
        <5>1. Current(flight[u].pair.id)' /\ flight[u].pair.id # i
          BY <3>3, <4>2
        <5>2. \A v \in Tabs : /\ mem'[v].id # flight[u].pair.id /\ flight'[v].tok # flight[u].pair.id
                              /\ v # u => flight'[v].pair.id # flight[u].pair.id
          BY <2>1, <4>1, <4>2, <5>1 DEF FlightOk
        <5> QED
          BY <2>1, <4>1, <4>2, <5>1, <5>2 DEF FlightOk
      <4>3. CASE flight[u].pc # "done"
        BY <2>1, <3>2, <4>1, <4>3 DEF FlightOk
      <4> QED
        BY <4>2, <4>3
    <3> QED
      BY <3>1, <3>4
  <2> QED
    BY <2>2, <2>3
<1>12. (Current(stored.id) \/ \E u \in Tabs : Replaced(u, stored.id))'
  <2>1. CASE stored.id = x
    BY <1>6, <1>8, <2>1 DEF Replaced
  <2>2. CASE Current(stored.id) /\ stored.id # x
    BY <1>6, <1>9, <2>2 DEF Current
  <2>3. CASE \E u \in Tabs : Replaced(u, stored.id)
    BY <1>4, <1>6, <1>8, <2>3 DEF Replaced
  <2> QED
    BY <1>4, <2>1, <2>2, <2>3 DEF TokenInv
<1> QED
  BY <1>11, <1>12 DEF TokenInv

LEMMA SettleTokens == ASSUME Right, TokenInv, NEW t \in Tabs, SettleRefresh(t) PROVE TokenInv'
<1> SUFFICES ASSUME ~trouble PROVE TokenInv'
  BY DEF SettleRefresh, tokens, TokenInv
<1>1. PICK new : Settled(t, new)
  BY RefreshSettles DEF Right
<1>2. /\ UNCHANGED <<sess, trouble>> /\ mem'[t] = new /\ flight'[t].pc = "none"
      /\ flight'[t].tok = 0 /\ flight'[t].pair.id = 0
      /\ \A u \in Tabs : u # t => mem'[u] = mem[u] /\ flight'[u] = flight[u]
  BY <1>1 DEF SettleRefresh, tokens, Settled, Right, Fields, NoFlight, Flight, NoPair, Pair
<1>3. FlightOk(t) /\ (Current(mem[t].id) \/ Replaced(t, mem[t].id))
  BY DEF TokenInv
<1>4. Current(new.id) /\ (flight[t].pc # "lost" => stored' = new) /\ (flight[t].pc = "lost" => stored' = stored)
  BY <1>1, <1>3 DEF Settled, FlightOk, Replaced, Current, NoPair, Pair
<1>5. \A u \in Tabs : u # t /\ flight[u].pc = "done" =>
          new.id # flight[u].pair.id /\ stored'.id # flight[u].pair.id /\ flight[u].pair.id # 0
  BY <1>1, <1>4 DEF TokenInv, FlightOk, Settled, NoPair, Pair
<1>6. ASSUME NEW u \in Tabs PROVE (Current(mem[u].id) \/ Replaced(u, mem[u].id))' /\ FlightOk(u)'
  <2>1. (Current(mem[u].id) \/ Replaced(u, mem[u].id)) /\ FlightOk(u)
    BY DEF TokenInv
  <2>2. CASE u = t
    BY <1>2, <1>4, <2>2 DEF FlightOk, Current
  <2>3. CASE u # t
    <3>1. FlightOk(u)'
      BY <1>2, <1>5, <2>1, <2>3 DEF FlightOk, Current
    <3> QED
      BY <1>2, <2>1, <2>3, <3>1 DEF Current, Replaced
  <2> QED
    BY <2>2, <2>3
<1>7. (Current(stored.id) \/ \E u \in Tabs : Replaced(u, stored.id))'
  <2>1. CASE flight[t].pc = "lost"
    BY <1>2, <1>4, <2>1 DEF TokenInv, Current, Replaced
  <2>2. CASE flight[t].pc # "lost"
    BY <1>2, <1>4, <2>2 DEF Current
  <2> QED
    BY <2>1, <2>2
<1> QED
  BY <1>6, <1>7 DEF TokenInv

-----------------------------------------------------------------------------
(* The whole system.                                                        *)

SignInv == Right /\ TokenInv

LEMMA BrowserKeeps ==
    ASSUME SignInv, NEW t \in Tabs,
           \/ login(t) \/ logout(t) \/ Reload(t) \/ RefreshStep(t) \/ RefreshTurnedAway(t)
           \/ AnswerLost(t)
    PROVE  SignInv'
<1>1. CASE login(t)
  BY <1>1, LoginRight, LoginTokens DEF SignInv
<1>2. CASE logout(t)
  BY <1>2, PageRight, LogoutTokens DEF SignInv
<1>3. CASE Reload(t)
  BY <1>3, PageRight, ReloadTokens DEF SignInv
<1>4. CASE RefreshTurnedAway(t) \/ refresh(t) \/ AnswerLost(t)
  <2>1. Fields /\ \E f : Answered(t, f)
    BY <1>4, RefreshAnswers DEF SignInv, Right
  <2> QED
    BY <1>4, <2>1, RefreshRight, AnsweredTokens DEF SignInv
<1>5. CASE rotate_session(t)
  BY <1>5, RotateRight, RotateTokens DEF SignInv
<1>6. CASE SettleRefresh(t)
  BY <1>6, SettleRight, SettleTokens DEF SignInv
<1> QED
  BY <1>1, <1>2, <1>3, <1>4, <1>5, <1>6 DEF RefreshStep

LEMMA CallKeeps ==
    ASSUME SignInv, NEW c \in Calls,
           CallStep(c) \/ KeysUnreachable(c) \/ \E r \in Routes : request(c, r)
    PROVE  SignInv'
<1>1. CASE Edging(c)
  <2>1. EdgeMove(c)
    BY <1>1, EdgingMoves DEF SignInv, Right
  <2>2. UNCHANGED <<mem, stored, flight, sess, trouble>>
    BY <2>1 DEF EdgeMove, browser, tokens
  <2> QED
    BY <2>1, <2>2, EdgeRight, TokensStay DEF SignInv
<1>2. CASE Refused(c)
  <2>1. Right'
    BY <1>2, RefusedRight DEF SignInv
  <2>2. UNCHANGED <<mem, stored, sess, trouble>> /\ (UNCHANGED flight \/ Joined(TabOf[c]))
    BY <1>2, JoinJoins, IdentityConstants DEF Refused, tokens, SignInv, Right
  <2> QED
    BY <2>1, <2>2, JoinTokens, TokensStay, IdentityConstants DEF SignInv
<1>3. CASE Serve(c)
  <2>1. calls[c].pc = "serve" /\ UNCHANGED <<mem, stored, flight, sess, trouble>>
    BY <1>3 DEF Serve, browser, tokens
  <2> QED
    BY <1>3, <2>1, ServeRight, TokensStay DEF SignInv
<1>4. CASE Granted(c)
  <2>1. Right'
    BY <1>4, GrantedRight DEF SignInv
  <2>2. UNCHANGED <<mem, stored, sess, trouble>> /\ Joined(TabOf[c])
    BY <1>4, JoinJoins, IdentityConstants DEF Granted, tokens, SignInv, Right
  <2> QED
    BY <2>1, <2>2, JoinTokens, IdentityConstants DEF SignInv
<1> QED
  BY <1>1, <1>2, <1>3, <1>4 DEF CallStep, Edging

\* The account's own steps.
LEMMA AccountKeeps ==
    ASSUME SignInv, register \/ (\E g \in Riders : RiderRequest(g)) \/ ConvergeGrant \/ ConsumerDies
    PROVE  SignInv'
<1>1. UNCHANGED <<mem, stored, flight, sess, trouble, calls>>
  BY DEF register, RiderRequest, ConvergeGrant, ConsumerDies, browser, tokens
<1>2. RoleInv'
  BY RegisterKeeps, RiderKeeps, ConsumerKeeps DEF SignInv, Right
<1>3. UNCHANGED user \/ register \/ \E g \in Grantors : user' = Write(g)
  BY DEF RiderRequest, RiderGrant, ConvergeGrant, ConsumerDies, Grantors
<1>4. UserGrows
  BY <1>3, SameUser, RegisterGrows, WriteGrows DEF SignInv, Right
<1>5. ClaimMove
  BY <1>1, <1>4 DEF ClaimMove, SignInv, Right, ClaimInv
<1>6. user' = User(user'.there, user'.roles, user'.brand, user'.rider)
  BY <1>3 DEF SignInv, Right, Fields, register, Write, grant_restaurant_admin, grant_rider, User
<1>7. granting' = [g \in Grantors |-> granting'[g]]
  BY DEF SignInv, Right, Fields, register, RiderRequest, RiderGrant, ConvergeGrant, ConsumerDies
<1> QED
  BY <1>1, <1>2, <1>5, <1>6, <1>7, ClaimsMove, TokensStay DEF SignInv, Right, Fields

LEMMA TimeKeeps ==
    ASSUME SignInv,
           \/ \E a \in Adders : AddressRequest(a)
           \/ TokenExpires \/ SessionExpires \/ CacheAges \/ WindowRolls \/ load_or_generate
           \/ UNCHANGED identity
    PROVE  SignInv'
<1>1. UNCHANGED <<user, granting, crossed, mem, stored, flight, calls>>
  BY DEF AddressRequest, TokenExpires, SessionExpires, CacheAges, WindowRolls, load_or_generate,
         identity, account, browser
<1>2. trouble' \/ UNCHANGED <<sess, trouble>>
  BY DEF AddressRequest, TokenExpires, SessionExpires, CacheAges, WindowRolls, load_or_generate,
         identity, tokens
<1>3. sess' = [s \in 1 .. MaxSessions |-> sess'[s]]
  <2>1. CASE UNCHANGED sess
    BY <2>1 DEF SignInv, Right, Fields
  <2>2. CASE SessionExpires
    BY <2>2 DEF SignInv, Right, Fields, SessionExpires
  <2> QED
    BY <2>1, <2>2 DEF AddressRequest, TokenExpires, CacheAges, WindowRolls, load_or_generate,
         identity, tokens
<1>4. ClaimMove
  BY <1>1, SameUser DEF ClaimMove, SignInv, Right, ClaimInv
<1>5. Fields'
  BY <1>1, <1>3 DEF SignInv, Right, Fields
<1>6. RoleInv'
  BY <1>1, AsideKeeps DEF Aside, SignInv, Right
<1>7. TokenInv'
  BY <1>1, <1>2, TokensStay DEF TokenInv, SignInv
<1> QED
  BY <1>4, <1>5, <1>6, <1>7, ClaimsMove DEF SignInv, Right

LEMMA SignInKeeps == ASSUME SignInv, [IdentityNext]_identity PROVE SignInv'
BY BrowserKeeps, CallKeeps, AccountKeeps, TimeKeeps DEF IdentityNext
LEMMA SignInHolds == IdentitySpec => []SignInv
<1>1. IdentityInit => SignInv
  BY SignInBegins, ClaimsBegin, TokensBegin DEF SignInv, Right
<1> QED
  BY <1>1, SignInKeeps, PTL DEF IdentitySpec

\* An owner's role comes with a brand and a rider's with a riders row, and
\* nobody is both, unless the two grants ran at once: each passed its check
\* before the other wrote (grant_restaurant_admin, grant_rider, the consumer).
THEOREM RolesCorrect == IdentitySpec => []RoleClasses
<1>1. SignInv => RoleClasses
  BY DEF SignInv, Right, RoleInv, RoleClasses, Owns, Rides
<1> QED
  BY <1>1, SignInHolds, PTL

\* A service acts on an identity whose roles and scopes are in the account's
\* rows, and on a protected route there is one; what the client put into the
\* headers is never part of it (proxy, headers_for, get_auth_context).
THEOREM ServiceCorrect == IdentitySpec => []ServiceSeesVerified
<1>1. SignInv => ServiceSeesVerified
  <2> SUFFICES ASSUME SignInv, NEW c \in Calls, calls[c].pc \in {"serve", "grant"}
               PROVE  /\ calls[c].ctx = Anonymous => ~NeedsAuth(c)
                      /\ calls[c].ctx.roles \subseteq user.roles
                      /\ calls[c].ctx.restaurant_id \in {None, user.brand}
                      /\ calls[c].ctx.rider_id = Sub => user.rider
    BY DEF ServiceSeesVerified
  <2>1. (calls[c].ctx = Anonymous /\ calls[c].route \notin Protected) \/ Vouched(calls[c].ctx)
    BY DEF SignInv, Right, ClaimInv, CtxOk
  <2>2. Vouched(Anonymous) => FALSE
    BY DEF Vouched, Anonymous, Claims
  <2> QED
    BY <2>1, <2>2 DEF Vouched, NeedsAuth, Anonymous, Claims, None, Sub
<1> QED
  BY <1>1, SignInHolds, PTL

\* Nobody is signed out by accident (refreshTokens): apart from the button, a
\* page load and an answer that turned the refresh away, a tab loses its pair
\* only when something recorded as trouble has taken its refresh token.
THEOREM KeptCorrect == IdentitySpec => KeptSignedIn
<1>1. ASSUME SignInv, IdentityNext, NEW t \in Tabs, mem[t].id # 0, mem'[t].id = 0
      PROVE  trouble \/ flight[t].pc = "turned_away" \/ logout(t) \/ Reload(t)
  <2> SUFFICES ASSUME ~trouble PROVE flight[t].pc = "turned_away" \/ logout(t) \/ Reload(t)
    OBVIOUS
  <2>1. Fields /\ FlightOk(t)
    BY <1>1 DEF SignInv, Right, TokenInv
  <2>2. CASE \E u \in Tabs : login(u)
    <3>1. PICK u, p : u \in Tabs /\ mem' = [mem EXCEPT ![u] = p] /\ mem[u].id = 0
      BY <2>2 DEF login
    <3> QED
      BY <1>1, <2>1, <3>1 DEF Fields
  <2>3. CASE \E u \in Tabs : logout(u) \/ Reload(u)
    BY <1>1, <2>1, <2>3 DEF logout, Reload, Fields
  <2>4. CASE \E u \in Tabs : SettleRefresh(u)
    <3>1. PICK u, new : u \in Tabs /\ Settled(u, new)
      BY <2>1, <2>4, RefreshSettles
    <3>2. u = t /\ mem'[t] = new
      BY <1>1, <2>1, <3>1 DEF Settled, Fields
    <3> QED
      BY <1>1, <2>1, <3>1, <3>2 DEF Settled, FlightOk
  <2>5. CASE UNCHANGED mem
    BY <1>1, <2>5
  <2>6. (\E u \in Tabs : rotate_session(u) \/ refresh(u) \/ RefreshTurnedAway(u) \/ AnswerLost(u)) => UNCHANGED mem
    BY DEF rotate_session, refresh, RefreshTurnedAway, AnswerLost
  <2>7. ASSUME NEW c \in Calls, CallStep(c) \/ KeysUnreachable(c) \/ \E r \in Routes : request(c, r)
        PROVE  UNCHANGED mem
    BY <2>7 DEF CallStep, AskForKeys, jwks_doc, Decide, DecideFetched, KeysUnreachable, Refused, Serve,
                Granted, Onboarded, request, browser
  <2>8. register \/ (\E g \in Riders : RiderRequest(g)) \/ ConvergeGrant \/ ConsumerDies => UNCHANGED mem
    BY DEF register, RiderRequest, ConvergeGrant, ConsumerDies, browser
  <2>9. (\E a \in Adders : AddressRequest(a)) \/ TokenExpires \/ SessionExpires \/ CacheAges
          \/ WindowRolls \/ load_or_generate => UNCHANGED mem
    BY DEF AddressRequest, TokenExpires, SessionExpires, CacheAges, WindowRolls, load_or_generate, browser
  <2> QED
    BY <1>1, <2>2, <2>3, <2>4, <2>5, <2>6, <2>7, <2>8, <2>9 DEF IdentityNext, RefreshStep
<1>2. SignInv /\ [IdentityNext]_identity =>
          [\A t \in Tabs : mem[t].id # 0 /\ mem'[t].id = 0 =>
              trouble \/ flight[t].pc = "turned_away" \/ logout(t) \/ Reload(t)]_identity
  BY <1>1
<1> QED
  BY <1>2, SignInHolds, PTL DEF IdentitySpec, KeptSignedIn

-----------------------------------------------------------------------------
(* Onboarding.  The refresh that follows the grant, unless it was already   *)
(* under way, reads the roles after it.                                     *)

Renewing(t) ==
    /\ flight[t].pc # "none"
    /\ flight[t].pc = "done" => "restaurant_admin" \in flight[t].pair.claims.roles
OwnerInv ==
    \A c \in Calls :
      /\ calls[c].pc = "settle" /\ ~calls[c].joined => Owns /\ Renewing(TabOf[c])
      /\ calls[c].pc = "back" => "restaurant_admin" \in calls[c].pair.claims.roles \/ calls[c].joined

\* Grants add, and nobody's refresh is forgotten: the calls are looked at apart.
Renews ==
    /\ Owns => Owns'
    /\ \A t \in Tabs : Owns /\ Renewing(t) => Renewing(t)'
LEMMA OthersStay ==
    ASSUME OwnerInv, Renews, NEW c \in Calls,
           calls'[c] = calls[c] \/ calls'[c].pc \notin {"settle", "back"}
    PROVE  /\ calls'[c].pc = "settle" /\ ~calls'[c].joined => Owns' /\ Renewing(TabOf[c])'
           /\ calls'[c].pc = "back" =>
                 "restaurant_admin" \in calls'[c].pair.claims.roles \/ calls'[c].joined
BY IdentityConstants DEF OwnerInv, Renews

LEMMA StillRenews == ASSUME UserGrows, UNCHANGED flight PROVE Renews
BY DEF UserGrows, Renews, Renewing, Owns
LEMMA JoinRenews == ASSUME UserGrows, NEW t \in Tabs, Joined(t) PROVE Renews
BY DEF UserGrows, Renews, Renewing, Owns, Joined

LEMMA OwnerCalls ==
    ASSUME SignInv, OwnerInv, NEW c \in Calls,
           CallStep(c) \/ KeysUnreachable(c) \/ \E r \in Routes : request(c, r)
    PROVE  OwnerInv'
<1>1. CASE Edging(c)
  <2>1. EdgeMove(c)
    BY <1>1, EdgingMoves DEF SignInv, Right
  <2>2. Renews
    BY <2>1, StillRenews, SameUser DEF EdgeMove, browser, account
  <2>3. \A d \in Calls : calls'[d] = calls[d] \/ calls'[d].pc \notin {"settle", "back"}
    BY <2>1 DEF EdgeMove, SignInv, Right, Fields
  <2> QED
    BY <2>2, <2>3, OthersStay DEF OwnerInv
<1>2. CASE Refused(c)
  <2>1. UNCHANGED user /\ (UNCHANGED flight \/ Joined(TabOf[c]))
    BY <1>2, JoinJoins, IdentityConstants DEF Refused, account, SignInv, Right
  <2>2. Renews
    BY <2>1, StillRenews, JoinRenews, SameUser, IdentityConstants
  <2>3. \A d \in Calls : calls'[d] = calls[d] \/ calls'[d].pc \notin {"settle", "back"}
    BY <1>2, RefusedWrites DEF Written, SignInv, Right, Fields
  <2> QED
    BY <2>2, <2>3, OthersStay DEF OwnerInv
<1>3. CASE Serve(c)
  <2>1. UNCHANGED <<user, flight>>
    BY <1>3 DEF Serve, browser
  <2>2. Renews
    BY <2>1, StillRenews, SameUser
  <2>3. PICK q : Written(c, q) /\ (q = Idle \/ q.pc = "grant")
    BY <1>3, ServeWrites DEF SignInv, Right
  <2>4. \A d \in Calls : calls'[d] = calls[d] \/ calls'[d].pc \notin {"settle", "back"}
    BY <2>3 DEF Written, SignInv, Right, Fields, Idle, Request
  <2> QED
    BY <2>2, <2>4, OthersStay DEF OwnerInv
<1>4. CASE Granted(c)
  <2>1. PICK q : Written(c, q) /\ q.pc = "settle" /\ q.joined = (flight[TabOf[c]].pc # "none")
    BY <1>4, GrantedWrites DEF SignInv, Right
  <2>2. /\ user' = Write(c) /\ granting[c] = "admin" /\ Joined(TabOf[c]) /\ c \in Grantors
        /\ TabOf[c] \in Tabs
    BY <1>4, JoinJoins, IdentityConstants DEF Granted, SignInv, Right, RoleInv, Grantors
  <2>3. Renews
    BY <2>2, WriteGrows, JoinRenews DEF SignInv, Right
  <2>4. Owns'
    BY <2>2 DEF Owns, Write, grant_restaurant_admin, add_role, User
  <2>5. calls'[c] = q /\ \A d \in Calls : d # c => calls'[d] = calls[d]
    BY <2>1 DEF Written, SignInv, Right, Fields
  <2>6. ~q.joined => Renewing(TabOf[c])'
    <3>1. CASE flight[TabOf[c]].pc # "none"
      BY <2>1, <3>1
    <3>2. CASE flight[TabOf[c]].pc = "none"
      <4>1. flight'[TabOf[c]].pc \in {"sent", "refused"}
        BY <2>2, <3>2 DEF Joined, Flight
      <4> QED
        BY <4>1 DEF Renewing
    <3> QED
      BY <3>1, <3>2
  <2>7. \A d \in Calls : d # c =>
           /\ calls'[d].pc = "settle" /\ ~calls'[d].joined => Owns' /\ Renewing(TabOf[d])'
           /\ calls'[d].pc = "back" =>
                 "restaurant_admin" \in calls'[d].pair.claims.roles \/ calls'[d].joined
    BY <2>3, <2>5, OthersStay
  <2> QED
    BY <2>1, <2>4, <2>5, <2>6, <2>7 DEF OwnerInv
<1> QED
  BY <1>1, <1>2, <1>3, <1>4 DEF CallStep, Edging

LEMMA OwnerBrowser ==
    ASSUME SignInv, OwnerInv, NEW t \in Tabs,
           \/ login(t) \/ logout(t) \/ Reload(t) \/ RefreshStep(t) \/ RefreshTurnedAway(t)
           \/ AnswerLost(t)
    PROVE  OwnerInv'
<1>1. CASE login(t) \/ logout(t) \/ Reload(t)
  <2>1. UNCHANGED <<user, flight, calls>>
    BY <1>1 DEF login, logout, Reload, account
  <2> QED
    BY <2>1, StillRenews, SameUser, OthersStay DEF OwnerInv
<1>2. CASE RefreshTurnedAway(t) \/ refresh(t) \/ AnswerLost(t)
  <2>1. PICK f : Answered(t, f)
    BY <1>2, RefreshAnswers DEF SignInv, Right
  <2>2. UNCHANGED <<user, calls>>
    BY <2>1 DEF Answered
  <2>3. Renews
    BY <2>1, <2>2 DEF Answered, Renews, Renewing, Owns, SignInv, Right, Fields
  <2> QED
    BY <2>2, <2>3, OthersStay DEF OwnerInv
<1>3. CASE rotate_session(t)
  <2>1. UNCHANGED <<user, calls>>
    BY <1>3 DEF rotate_session, account
  <2>2. PICK i : flight' = [flight EXCEPT ![t] = Flight("done", flight[t].tok, 0, issue_pair(i))]
    BY <1>3 DEF rotate_session
  <2>3. issue_pair(i).claims.roles = user.roles
    BY DEF issue_pair, Pair, Claims
  <2>4. Renews
    BY <2>1, <2>2, <2>3 DEF Renews, Renewing, Owns, SignInv, Right, Fields, Flight
  <2> QED
    BY <2>1, <2>4, OthersStay DEF OwnerInv
<1>4. CASE SettleRefresh(t)
  <2>1. PICK new : Settled(t, new)
    BY <1>4, RefreshSettles DEF SignInv, Right
  <2>2. UNCHANGED user /\ \A u \in Tabs : u # t => flight'[u] = flight[u]
    BY <1>4, <2>1 DEF SettleRefresh, account, Settled, SignInv, Right, Fields
  <2>3. Idle.pc = "idle"
    BY DEF Idle, Request
  <2> SUFFICES ASSUME NEW c \in Calls
               PROVE  /\ calls'[c].pc = "settle" /\ ~calls'[c].joined => Owns' /\ Renewing(TabOf[c])'
                      /\ calls'[c].pc = "back" =>
                            "restaurant_admin" \in calls'[c].pair.claims.roles \/ calls'[c].joined
    BY DEF OwnerInv
  <2>4. CASE calls'[c] = calls[c] /\ (TabOf[c] = t => calls[c].pc # "settle")
    BY <2>2, <2>4, IdentityConstants DEF OwnerInv, Owns, Renewing
  <2>5. CASE calls'[c] = Idle \/ calls'[c].pc = "edge"
    BY <2>3, <2>5
  <2>6. CASE /\ calls'[c].pair = new /\ calls'[c].pc = "back" /\ calls[c].pc = "settle" /\ TabOf[c] = t
             /\ calls'[c].joined = calls[c].joined /\ flight[t].pc = "done"
    BY <2>1, <2>6 DEF OwnerInv, Renewing, Settled
  <2> QED
    BY <2>1, <2>4, <2>5, <2>6 DEF Settled
<1> QED
  BY <1>1, <1>2, <1>3, <1>4 DEF RefreshStep

LEMMA OwnerRest ==
    ASSUME SignInv, OwnerInv,
           \/ register \/ (\E g \in Riders : RiderRequest(g)) \/ ConvergeGrant \/ ConsumerDies
           \/ \E a \in Adders : AddressRequest(a)
           \/ TokenExpires \/ SessionExpires \/ CacheAges \/ WindowRolls \/ load_or_generate
           \/ UNCHANGED identity
    PROVE  OwnerInv'
<1>1. UNCHANGED <<flight, calls>>
  BY DEF register, RiderRequest, ConvergeGrant, ConsumerDies, AddressRequest, TokenExpires,
         SessionExpires, CacheAges, WindowRolls, load_or_generate, identity, browser
<1>2. UNCHANGED user \/ register \/ \E g \in Grantors : user' = Write(g)
  BY DEF RiderRequest, RiderGrant, ConvergeGrant, ConsumerDies, Grantors, AddressRequest, TokenExpires,
         SessionExpires, CacheAges, WindowRolls, load_or_generate, identity, account
<1>3. UserGrows
  BY <1>2, SameUser, RegisterGrows, WriteGrows DEF SignInv, Right
<1> QED
  BY <1>1, <1>3, StillRenews, OthersStay DEF OwnerInv

\* Once onboarding has returned (onboardRestaurant), the token that the tab
\* goes on with carries the owner's role, unless it joined a refresh that was
\* under way when the grant landed.
THEOREM OwnerCorrect == IdentitySpec => []OnboardedIsOwner
<1>1. IdentityInit => OwnerInv
  BY DEF IdentityInit, OwnerInv, Idle, Absent, Request
<1>2. SignInv /\ OwnerInv /\ [IdentityNext]_identity => OwnerInv'
  BY OwnerCalls, OwnerBrowser, OwnerRest DEF IdentityNext
<1>3. OwnerInv => OnboardedIsOwner
  BY DEF OwnerInv, OnboardedIsOwner
<1> QED
  BY <1>1, <1>2, <1>3, SignInHolds, PTL DEF IdentitySpec

-----------------------------------------------------------------------------
(* Addresses.  Who has counted saw room for one more; the rows and the      *)
(* inserts under way are at most one short of the cap and everybody at once.*)

Counted == {a \in Adders : adding[a] = "counted"}
AddressInv ==
    /\ adding = [a \in Adders |-> adding[a]] /\ IsFiniteSet(addresses)
    /\ Cardinality(addresses) + Cardinality(Counted) < MaxAddresses + Cardinality(Adders)

LEMMA CountedFinite ==
    ASSUME NEW C, C \subseteq Adders
    PROVE  IsFiniteSet(C) /\ Cardinality(C) \in Nat /\ Cardinality(Adders) \in Nat
           /\ Cardinality(C) <= Cardinality(Adders)
BY FS_Subset, FS_CardinalityType, IdentityConstants

LEMMA AddressKeeps == ASSUME AddressInv, NEW a \in Adders, AddressRequest(a) PROVE AddressInv'
<1>1. PICK C, D : C = Counted /\ D = Counted'
  OBVIOUS
<1>2. C \subseteq Adders /\ D \subseteq Adders
  BY <1>1 DEF Counted
<1>3. /\ Cardinality(addresses) \in Nat /\ Cardinality(C) \in Nat /\ Cardinality(D) \in Nat
      /\ Cardinality(Adders) \in Nat /\ Cardinality(D) <= Cardinality(Adders)
  BY <1>2, CountedFinite, FS_CardinalityType DEF AddressInv
<1>4. CASE /\ adding[a] = "idle" /\ count_addresses < MaxAddresses
           /\ adding' = [adding EXCEPT ![a] = "counted"] /\ UNCHANGED addresses
  BY <1>1, <1>3, <1>4, IdentityConstants DEF AddressInv, count_addresses
<1>5. CASE /\ adding[a] = "counted" /\ adding' = [adding EXCEPT ![a] = "idle"]
           /\ \E i \in AddrIds \ addresses : addresses' = addresses \cup {i}
  <2>1. PICK i : i \notin addresses /\ addresses' = addresses \cup {i}
    BY <1>5
  <2>2. IsFiniteSet(addresses') /\ Cardinality(addresses') = Cardinality(addresses) + 1
    BY <2>1, FS_AddElement DEF AddressInv
  <2>3. D = C \ {a} /\ a \in C
    BY <1>1, <1>5 DEF Counted, AddressInv
  <2>4. Cardinality(D) = Cardinality(C) - 1
    BY <1>2, <2>3, CountedFinite, FS_RemoveElement
  <2> QED
    BY <1>1, <1>3, <1>5, <2>2, <2>4, IdentityConstants DEF AddressInv
<1>6. CASE delete_address(a)
  <2>1. PICK i \in addresses : addresses' = addresses \ {i}
    BY <1>6 DEF delete_address
  <2>2. IsFiniteSet(addresses') /\ Cardinality(addresses') = Cardinality(addresses) - 1
    BY <2>1, FS_RemoveElement DEF AddressInv
  <2>3. UNCHANGED adding /\ D = C
    BY <1>1, <1>6 DEF delete_address, Counted
  <2> QED
    BY <1>1, <1>3, <2>2, <2>3, IdentityConstants DEF AddressInv
<1> QED
  BY <1>4, <1>5, <1>6 DEF AddressRequest, add_address

\* Concurrent additions (add_address: a count, then an insert) pass the cap by
\* fewer than there are requests at once, however they interleave.
THEOREM AddressesCorrect == IdentitySpec => []AddressesBounded
<1>1. IdentityInit => AddressInv
  <2> SUFFICES ASSUME IdentityInit PROVE AddressInv
    OBVIOUS
  <2>1. Counted = {} /\ addresses = {}
    BY DEF IdentityInit, Counted
  <2>2. IsFiniteSet({}) /\ Cardinality({}) = 0
    BY FS_EmptySet
  <2>3. Cardinality(Adders) \in Nat
    BY FS_CardinalityType, IdentityConstants
  <2> QED
    BY <2>1, <2>2, <2>3, IdentityConstants DEF IdentityInit, AddressInv
<1>2. AddressInv /\ [IdentityNext]_identity => AddressInv'
  <2> SUFFICES ASSUME AddressInv, [IdentityNext]_identity PROVE AddressInv'
    OBVIOUS
  <2>1. CASE UNCHANGED <<addresses, adding>>
    BY <2>1 DEF AddressInv, Counted
  <2>2. ASSUME NEW t \in Tabs,
               \/ login(t) \/ logout(t) \/ Reload(t) \/ RefreshStep(t) \/ RefreshTurnedAway(t)
               \/ AnswerLost(t)
        PROVE  UNCHANGED <<addresses, adding>>
    BY <2>2 DEF login, logout, Reload, RefreshStep, refresh, rotate_session, SettleRefresh,
                RefreshTurnedAway, AnswerLost, account
  <2>3. ASSUME NEW c \in Calls, CallStep(c) \/ KeysUnreachable(c) \/ \E r \in Routes : request(c, r)
        PROVE  UNCHANGED <<addresses, adding>>
    BY <2>3 DEF CallStep, AskForKeys, jwks_doc, Decide, DecideFetched, KeysUnreachable, Refused, Serve,
                Granted, Onboarded, request, account
  <2>4. register \/ (\E g \in Riders : RiderRequest(g)) \/ ConvergeGrant \/ ConsumerDies
           \/ TokenExpires \/ SessionExpires \/ CacheAges \/ WindowRolls \/ load_or_generate
           \/ UNCHANGED identity => UNCHANGED <<addresses, adding>>
    BY DEF register, RiderRequest, ConvergeGrant, ConsumerDies, TokenExpires, SessionExpires, CacheAges,
           WindowRolls, load_or_generate, identity, account
  <2> QED
    BY <2>1, <2>2, <2>3, <2>4, AddressKeeps DEF IdentityNext
<1>3. AddressInv => AddressesBounded
  <2> SUFFICES ASSUME AddressInv PROVE AddressesBounded
    OBVIOUS
  <2>1. Counted \subseteq Adders
    BY DEF Counted
  <2>2. Cardinality(Counted) \in Nat /\ Cardinality(Adders) \in Nat /\ Cardinality(addresses) \in Nat
    BY <2>1, CountedFinite, FS_CardinalityType DEF AddressInv
  <2> QED
    BY <2>2, IdentityConstants DEF AddressInv, AddressesBounded
<1> QED
  BY <1>1, <1>2, <1>3, PTL DEF IdentitySpec
=============================================================================
