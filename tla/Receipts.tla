------------------------------ MODULE Receipts ------------------------------
(***************************************************************************)
(* Money documents of the notification service: the receipt a settled     *)
(* order owes (a row, a rendered PDF, one email) and the bell entry a     *)
(* refund owes.  A settled event files the receipt row; Celery tasks,     *)
(* delivered at least once, render it and mail it; the beat sweeper       *)
(* enqueues again what is still pending; a refused recipient parks the    *)
(* row until a human moves it back.  A refund starts one Temporal         *)
(* workflow that asks the order service who the customer is.              *)
(***************************************************************************)
EXTENDS Naturals, FiniteSets

CONSTANTS
    Orders,        \* orders that settle, one receipt each
    Refunds,       \* refund events
    Messages,      \* Celery messages that can be alive at once
    NoOrder,       \* a message slot nobody uses
    MaxRetries,    \* max_retries of both tasks (8 in the code)
    MaxWrites,     \* maximum_attempts of the write activity (5)
    SweepLimit,    \* receipts one sweep takes (100)
    MaxCopies,     \* deliveries of one event by the consumer group
    MaxFaults      \* outages, lost answers, dead workers, lost nudges

ASSUME BoundsAreNat ==
    /\ MaxRetries \in Nat /\ MaxWrites \in Nat \ {0} /\ SweepLimit \in Nat \ {0}
    /\ MaxCopies \in Nat \ {0} /\ MaxFaults \in Nat
ASSUME NoOrderIsNone == NoOrder \notin Orders
ASSUME MessagesFinite == IsFiniteSet(Messages)

VARIABLES
    copies,     \* deliveries of each settled event still to come
    nudge,      \* orders whose handler committed and has not enqueued yet
    receipt,    \* the receipts row: its status, its s3_key
    logged,     \* delivery_log rows of channel email
    reach,      \* what identity and the mail provider make of the customer
    task,       \* one Celery message and how far its worker is
    sweep,      \* receipts the running sweep read and has not enqueued
    inboxes,    \* receipts mailed, per order: what the customer sees
    refund,     \* a refund's deliveries, its workflow and its bell entry
    faults,     \* faults so far
    spare,      \* mails whose acceptance no task remembers, per order (history)
    overlapped  \* orders two chains were sending for at once (history)

vars == <<copies, nudge, receipt, logged, reach, task, sweep, inboxes, refund,
          faults, spare, overlapped>>

-----------------------------------------------------------------------------
(* Tables and wire values. *)

ReceiptStatus == {"pending", "sent", "parked"}

ReceiptRow == [status : ReceiptStatus \cup {"none"}, s3_key : BOOLEAN]

\* Contacts.email_for and mock-mailer: a customer identity does not know, an
\* address the provider refuses, an address that works.
Reach == {"unknown", "bounces", "good"}

\* Where a message is: waiting for a worker, or the last thing its task did.
RenderSteps == {"render", "loaded", "stored"}
SendSteps == {"send", "checked", "resolved", "accepted"}
Waiting == {"render", "send"}

Task == [order : Orders \cup {NoOrder}, at : RenderSteps \cup SendSteps, tries : 0..MaxRetries]
NoTask == [order |-> NoOrder, at |-> "render", tries |-> 0]

\* Past the delivery_log check: what it decides next rests on that read.
Sending(o) == {m \in Messages : task[m].order = o /\ task[m].at \in {"checked", "resolved", "accepted"}}

RefundState == [copies : 0..MaxCopies,
                wf : {"none", "lookup", "write", "done", "failed"},
                writes : 0..MaxWrites, row : BOOLEAN, unheard : BOOLEAN]

TypeOK ==
    /\ copies \in [Orders -> 0..MaxCopies]
    /\ nudge \subseteq Orders
    /\ receipt \in [Orders -> ReceiptRow]
    /\ logged \subseteq Orders
    /\ reach \in [Orders -> Reach]
    /\ task \in [Messages -> Task]
    /\ sweep \subseteq Orders
    /\ inboxes \in [Orders -> Nat]
    /\ refund \in [Refunds -> RefundState]
    /\ faults \in 0..MaxFaults
    /\ spare \in [Orders -> Nat]
    /\ overlapped \subseteq Orders

Init ==
    /\ copies \in [Orders -> 0..MaxCopies]
    /\ nudge = {}
    /\ receipt = [o \in Orders |-> [status |-> "none", s3_key |-> FALSE]]
    /\ logged = {}
    /\ reach \in [Orders -> Reach]
    /\ task = [m \in Messages |-> NoTask]
    /\ sweep = {}
    /\ inboxes = [o \in Orders |-> 0]
    /\ refund \in [Refunds -> {r \in RefundState : /\ r.wf = "none" /\ r.writes = 0
                                                    /\ ~r.row /\ ~r.unheard}]
    /\ faults = 0
    /\ spare = [o \in Orders |-> 0]
    /\ overlapped = {}

Fault == faults < MaxFaults /\ faults' = faults + 1

-----------------------------------------------------------------------------
(* The consumer: the claim check joins the handler's transaction, the     *)
(* enqueue comes after the commit and may be lost.                        *)

\* INSERT .. ON CONFLICT DO NOTHING on order_id; TRUE when the row is fresh.
insert_receipt(o) ==
    IF receipt[o].status = "none" THEN [receipt EXCEPT ![o].status = "pending"] ELSE receipt

InboxHandlerSettled(o) ==
    /\ copies[o] > 0
    /\ copies' = [copies EXCEPT ![o] = @ - 1]
    /\ receipt' = insert_receipt(o)
    /\ nudge' = IF receipt[o].status = "none" THEN nudge \cup {o} ELSE nudge
    /\ UNCHANGED <<logged, reach, task, sweep, inboxes, refund, faults, spare, overlapped>>

\* render, then send with render's return value: one message at a time.
enqueue_receipt_chain(o) ==
    \E m \in Messages :
        /\ task[m] = NoTask
        /\ task' = [task EXCEPT ![m] = [order |-> o, at |-> "render", tries |-> 0]]

\* Best effort: a broker error is counted and dropped, and a consumer that
\* dies here is told "not fresh" on redelivery.
enqueue_receipt(o) ==
    /\ o \in nudge
    /\ nudge' = nudge \ {o}
    /\ \/ enqueue_receipt_chain(o) /\ UNCHANGED faults
       \/ Fault /\ UNCHANGED task
    /\ UNCHANGED <<copies, receipt, logged, reach, sweep, inboxes, refund, spare, overlapped>>

-----------------------------------------------------------------------------
(* Celery: at least once, retried per message. *)

Move(m, step) == task' = [task EXCEPT ![m].at = step]
Finish(m) == task' = [task EXCEPT ![m] = NoTask]

\* autoretry_for with max_retries: the same task again later, or it fails and
\* the receipt stays pending for the sweeper.
Retry(m, step) ==
    LET k == task[m] IN
    task' = [task EXCEPT ![m] = IF k.tries < MaxRetries
                                THEN [k EXCEPT !.at = step, !.tries = k.tries + 1] ELSE NoTask]

\* acks_late and reject_on_worker_lost: the message of a dead worker comes back.
\* After the provider accepted, the next run mails again.
WorkerLost(m) ==
    /\ task[m].order # NoOrder /\ task[m].at \notin Waiting
    /\ Fault
    /\ Move(m, IF task[m].at \in RenderSteps THEN "render" ELSE "send")
    /\ spare' = IF task[m].at = "accepted" THEN [spare EXCEPT ![task[m].order] = @ + 1] ELSE spare
    /\ UNCHANGED <<copies, nudge, receipt, logged, reach, sweep, inboxes, refund, overlapped>>

\* A database error is in neither autoretry_for: the task fails for good, its
\* message is gone, and the row waits for the sweeper.  After the provider
\* accepted, the next chain mails again.
DatabaseFails(m) ==
    LET o == task[m].order IN
    /\ o # NoOrder
    /\ \/ task[m].at \in {"render", "stored", "send", "accepted"}
       \/ task[m].at = "checked" /\ reach[o] = "unknown"    \* _park
       \/ task[m].at = "resolved" /\ reach[o] = "bounces"   \* _park
    /\ Fault /\ Finish(m)
    /\ spare' = IF task[m].at = "accepted" THEN [spare EXCEPT ![o] = @ + 1] ELSE spare
    /\ UNCHANGED <<copies, nudge, receipt, logged, reach, sweep, inboxes, refund, overlapped>>

Step(m, step) == task[m].order # NoOrder /\ task[m].at = step

render_receipt_load(m) ==
    /\ Step(m, "render")
    /\ receipt[task[m].order].status # "none"    \* _load_receipt: LookupError otherwise
    /\ Move(m, "loaded")
    /\ UNCHANGED <<copies, nudge, receipt, logged, reach, sweep, inboxes, refund, faults, spare, overlapped>>

\* S3ReceiptStore.put overwrites one deterministic key and heals a missing
\* bucket; a blip is retried by the task.
render_receipt_put(m) ==
    /\ Step(m, "loaded")
    /\ \/ Move(m, "stored") /\ UNCHANGED faults
       \/ Fault /\ Retry(m, "render")
    /\ UNCHANGED <<copies, nudge, receipt, logged, reach, sweep, inboxes, refund, spare, overlapped>>

\* The row learns its key, and the chain hands the key to send.
render_receipt_record(m) ==
    /\ Step(m, "stored")
    /\ receipt' = [receipt EXCEPT ![task[m].order].s3_key = TRUE]
    /\ task' = [task EXCEPT ![m] = [@ EXCEPT !.at = "send", !.tries = 0]]
    /\ UNCHANGED <<copies, nudge, logged, reach, sweep, inboxes, refund, faults, spare, overlapped>>

\* Mutant: the log is not consulted.
SendUnchecked(m) ==
    LET o == task[m].order IN
    /\ Step(m, "send") /\ Move(m, "checked")
    /\ overlapped' = IF Sending(o) # {} THEN overlapped \cup {o} ELSE overlapped
    /\ UNCHANGED <<copies, nudge, receipt, logged, reach, sweep, inboxes, refund, faults, spare>>

\* Existence in delivery_log means sent: nothing to do, status untouched.
send_receipt_check(m) ==
    LET o == task[m].order IN
    /\ Step(m, "send")
    /\ IF o \in logged
         THEN Finish(m) /\ UNCHANGED overlapped
         ELSE /\ Move(m, "checked")
              /\ overlapped' = IF Sending(o) # {} THEN overlapped \cup {o} ELSE overlapped
    /\ UNCHANGED <<copies, nudge, receipt, logged, reach, sweep, inboxes, refund, faults, spare>>

\* UPDATE receipts SET status = 'parked' WHERE order_id: whatever it was.
_park(o) == receipt' = [receipt EXCEPT ![o].status = "parked"]

\* Recipient resolution at send time: 404 parks, anything else retries.
email_for(m) ==
    LET o == task[m].order IN
    /\ Step(m, "checked")
    /\ \/ reach[o] = "unknown" /\ _park(o) /\ Finish(m) /\ UNCHANGED faults
       \/ reach[o] # "unknown" /\ Move(m, "resolved") /\ UNCHANGED <<receipt, faults>>
       \/ Fault /\ Retry(m, "send") /\ UNCHANGED receipt
    /\ UNCHANGED <<copies, nudge, logged, reach, sweep, inboxes, refund, spare, overlapped>>

\* The provider refuses first, then melts, then accepts; it does not dedupe.
\* A timeout after it accepted reads as MailerUnavailable.
sender_send(m) ==
    LET o == task[m].order IN
    /\ Step(m, "resolved")
    /\ \/ /\ reach[o] = "bounces" /\ _park(o) /\ Finish(m)
          /\ UNCHANGED <<inboxes, faults, spare>>
       \/ /\ reach[o] # "bounces" /\ Move(m, "accepted")
          /\ inboxes' = [inboxes EXCEPT ![o] = @ + 1]
          /\ UNCHANGED <<receipt, faults, spare>>
       \/ Fault /\ Retry(m, "send") /\ UNCHANGED <<receipt, inboxes, spare>>
       \/ /\ reach[o] # "bounces" /\ Fault /\ Retry(m, "send")
          /\ inboxes' = [inboxes EXCEPT ![o] = @ + 1]
          /\ spare' = [spare EXCEPT ![o] = @ + 1]
          /\ UNCHANGED receipt
    /\ UNCHANGED <<copies, nudge, logged, reach, sweep, refund, overlapped>>

\* delivery_log and status in one transaction.
send_receipt_record(m) ==
    LET o == task[m].order IN
    /\ Step(m, "accepted")
    /\ logged' = logged \cup {o}
    /\ receipt' = [receipt EXCEPT ![o].status = "sent"]
    /\ Finish(m)
    /\ UNCHANGED <<copies, nudge, reach, sweep, inboxes, refund, faults, spare, overlapped>>

-----------------------------------------------------------------------------
(* The beat sweeper and the human. *)

\* Mutant: only what was rendered counts as owed.
OwedRendered == {o \in Orders : receipt[o].status = "pending" /\ receipt[o].s3_key}

owed == {o \in Orders : receipt[o].status = "pending"}

\* SELECT .. WHERE pending LIMIT n, in no order; the rows past the grace
\* window include every pending one sooner or later.
sweep_unsent_receipts ==
    /\ sweep = {} /\ owed # {}
    /\ \E batch \in SUBSET owed :
          /\ Cardinality(batch) <= SweepLimit
          /\ batch = owed \/ Cardinality(batch) = SweepLimit
          /\ sweep' = batch
    /\ UNCHANGED <<copies, nudge, receipt, logged, reach, task, inboxes, refund, faults, spare, overlapped>>

\* One chain per row it read, whatever happened to the row since; an enqueue
\* that raises ends the sweep.
SweepEnqueue(o) ==
    /\ o \in sweep
    /\ \/ enqueue_receipt_chain(o) /\ sweep' = sweep \ {o} /\ UNCHANGED faults
       \/ Fault /\ sweep' = {} /\ UNCHANGED task
    /\ UNCHANGED <<copies, nudge, receipt, logged, reach, inboxes, refund, spare, overlapped>>

\* The customer changes their address, or identity loses and regains them.
ChangeContact(o) ==
    /\ Fault
    /\ \E r \in Reach \ {reach[o]} : reach' = [reach EXCEPT ![o] = r]
    /\ UNCHANGED <<copies, nudge, receipt, logged, task, sweep, inboxes, refund, spare, overlapped>>

\* The human replay lever of the runbook: parked back to pending after a fix.
HumanReplay(o) ==
    /\ receipt[o].status = "parked" /\ reach[o] = "good"
    /\ receipt' = [receipt EXCEPT ![o].status = "pending"]
    /\ UNCHANGED <<copies, nudge, logged, reach, task, sweep, inboxes, refund, faults, spare, overlapped>>

-----------------------------------------------------------------------------
(* RefundNotificationWorkflow. *)

Refunded(r, new) ==
    /\ refund' = [refund EXCEPT ![r] = new]
    /\ UNCHANGED <<copies, nudge, receipt, logged, reach, task, sweep, inboxes, spare, overlapped>>

\* One workflow id per event: REJECT_DUPLICATE makes a redelivery a no-op.
notify_refund(r) ==
    /\ refund[r].copies > 0
    /\ Refunded(r, [refund[r] EXCEPT !.copies = @ - 1, !.wf = IF @ = "none" THEN "lookup" ELSE @])
    /\ UNCHANGED faults

\* Unlimited attempts inside one budget: an answer, or the budget is over.
fetch_recipients(r) ==
    /\ refund[r].wf = "lookup"
    /\ \/ Refunded(r, [refund[r] EXCEPT !.wf = "write"]) /\ UNCHANGED faults
       \/ Fault /\ Refunded(r, [refund[r] EXCEPT !.wf = "failed"])

\* A conflict-ignored insert, then the post-commit hint, which fails open.  An
\* attempt dies before the commit, or after it and before Temporal hears.
write_notification(r) ==
    LET next == [refund[r] EXCEPT !.writes = @ + 1,
                                  !.wf = IF refund[r].writes + 1 = MaxWrites THEN "failed" ELSE @] IN
    /\ refund[r].wf = "write"
    /\ \/ /\ \E heard \in BOOLEAN :
                Refunded(r, [refund[r] EXCEPT !.wf = "done", !.row = TRUE, !.unheard = ~heard])
          /\ UNCHANGED faults
       \/ Fault /\ Refunded(r, next)
       \/ Fault /\ Refunded(r, [next EXCEPT !.row = TRUE, !.unheard = TRUE])

-----------------------------------------------------------------------------
\* The workflow's two activities, one retry policy each.
RefundNotificationWorkflow(r) == fetch_recipients(r) \/ write_notification(r)

Work(m) ==
    \/ render_receipt_load(m) \/ render_receipt_put(m) \/ render_receipt_record(m)
    \/ send_receipt_check(m) \/ email_for(m) \/ sender_send(m) \/ send_receipt_record(m)

Next ==
    \/ \E o \in Orders :
          \/ InboxHandlerSettled(o) \/ enqueue_receipt(o)
          \/ SweepEnqueue(o) \/ ChangeContact(o) \/ HumanReplay(o)
    \/ \E m \in Messages : Work(m) \/ WorkerLost(m) \/ DatabaseFails(m)
    \/ sweep_unsent_receipts
    \/ \E r \in Refunds : notify_refund(r) \/ RefundNotificationWorkflow(r)

Spec == Init /\ [][Next]_vars

\* Kafka delivers, workers run what is queued, beat keeps sweeping (and a sweep
\* does not fail for ever), Temporal drives its workflows.  Humans promise nothing.
Fairness ==
    /\ \A o \in Orders : /\ WF_vars(InboxHandlerSettled(o)) /\ WF_vars(enqueue_receipt(o))
                         /\ WF_vars(SweepEnqueue(o))
    /\ \A m \in Messages : WF_vars(Work(m))
    /\ WF_vars(sweep_unsent_receipts)
    /\ \A r \in Refunds : WF_vars(notify_refund(r)) /\ WF_vars(RefundNotificationWorkflow(r))

FairSpec == Spec /\ Fairness

-----------------------------------------------------------------------------
(* Properties. *)

\* "For money documents, duplicate beats missing" (tasks.py): a customer gets a
\* second copy only for a reason the pipeline accepts, one reason per extra
\* copy: an answer lost after the provider accepted, a worker or the database
\* lost between accept and record, or chains of one order that were past the delivery_log
\* check together, which can mail once each.
CopiesHaveReasons ==
    \A o \in Orders :
        inboxes[o] <= spare[o] + IF o \in overlapped THEN Cardinality(Messages) ELSE 1

\* delivery_log and the status agree (tasks.py: "committing together is what
\* keeps them from disagreeing"): a receipt that reads sent has its log row and
\* an email behind it, and a logged one reads sent, unless two chains of the
\* order were sending at once.
LedgerAgrees ==
    \A o \in Orders :
        /\ receipt[o].status = "sent" => o \in logged
        /\ o \in logged => inboxes[o] > 0
        /\ o \in logged /\ receipt[o].status # "sent" => o \in overlapped

\* A lost nudge, an outage or a dead worker costs a sweep interval, never the
\* receipt: a settled order's customer is mailed, or the row waits parked.
ReceiptIsMailed ==
    \A o \in Orders : copies[o] > 0 ~> (o \in logged \/ receipt[o].status = "parked")

\* A refund event ends in a bell entry, unless its workflow ran out of budget.
RefundRings ==
    \A r \in Refunds : refund[r].copies > 0 ~> (refund[r].row \/ refund[r].wf = "failed")
=============================================================================
