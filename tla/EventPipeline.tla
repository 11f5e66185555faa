---------------------------- MODULE EventPipeline ----------------------------
(***************************************************************************)
(* How one order's events travel: staged in the outbox by the transaction  *)
(* that moves the row, published by the poller, kept by the topic, read by *)
(* consumer groups that retry, park and commit, and put back on the topic  *)
(* by the replay tool.                                                     *)
(*                                                                         *)
(* Two groups stand for all of them: "facts", analytics' projector, which  *)
(* takes batches and writes absolute values, and "inbox", notification's   *)
(* handler, which takes single events and inserts rows under deterministic *)
(* ids.  The order id is the topic key, so the order's events lie in one   *)
(* partition, and events of other orders change nothing here.              *)
(*                                                                         *)
(* There is one poller, as the poller's own documentation demands.  The    *)
(* handlers' transactions, each send that was confirmed and each commit of *)
(* an offset are single steps; a process may die between any two of them.  *)
(***************************************************************************)
EXTENDS Naturals, Sequences, FiniteSets

CONSTANTS
    NEvents,        \* the order's events are 1 .. NEvents, in staging order
    BatchSize,      \* how many rows the poller drains at once
    MaxPoll,        \* how many messages a batch consumer takes at once
    MaxAttempts,    \* how often a single event is tried before it is parked
    MaxFaults,      \* crashes, lost sends and transient handler failures
    MaxReplays      \* how often an operator runs the replay tool

ASSUME PipelineAssumption ==
    /\ NEvents \in Nat /\ BatchSize \in Nat \ {0} /\ MaxPoll \in Nat \ {0}
    /\ MaxAttempts \in Nat \ {0} /\ MaxFaults \in Nat /\ MaxReplays \in Nat

Events == 1 .. NEvents
Groups == {"facts", "inbox"}

VARIABLES
    staged,     \* the outbox holds the rows 1 .. staged
    marked,     \* the rows whose published_at is set
    poller,     \* the batch in hand and what of it was sent
    topic,      \* c1.orders.events
    group,      \* the consumer groups
    facts,      \* the order's row of order_facts
    inbox,      \* the events whose notifications exist
    dlq,        \* c1.orders.events.dlq, one topic for every group
    replay,     \* the replay tool
    fixed,      \* has the fix shipped?
    faults,
    bug,        \* the events a group's handler cannot take before the fix
    garbled     \* the events whose bytes no decoder can read

rows == <<staged, marked>>
books == <<facts, inbox>>
weather == <<fixed, bug, garbled>>
vars == <<rows, poller, topic, group, books, dlq, replay, weather, faults>>

NoBug == [g \in Groups |-> {}]
Broken(g) == IF fixed THEN {} ELSE bug[g]
In(s, e) == \E i \in 1 .. Len(s) : s[i] = e

----------------------------------------------------------------------------
(* The outbox and its poller.                                              *)

\* A transition of the order stages its event in its own transaction.
Stage ==
    /\ staged < NEvents
    /\ staged' = staged + 1
    /\ UNCHANGED <<marked, poller, topic, group, books, dlq, replay, weather, faults>>

Unpublished == (1 .. staged) \ marked
NoBatch == [batch |-> {}, sent |-> {}]

\* The rows the SELECT returns: ORDER BY occurred_at, id LIMIT batch_size.
First(b) == \A e \in b, f \in Unpublished \ b : e < f

Drain ==
    /\ poller = NoBatch
    /\ \E b \in SUBSET Unpublished :
          /\ b # {} /\ First(b)
          /\ Cardinality(b) <= BatchSize
          /\ b = Unpublished \/ Cardinality(b) = BatchSize
          /\ poller' = [batch |-> b, sent |-> {}]
    /\ UNCHANGED <<rows, topic, group, books, dlq, replay, weather, faults>>

\* Mutant: rows are sent as they come.
FaultyNextRow(e) == e \in poller.batch \ poller.sent
NextRow(e) ==
    /\ e \in poller.batch \ poller.sent
    /\ \A f \in poller.batch \ poller.sent : e <= f

Send(e) ==
    /\ NextRow(e)
    /\ topic' = Append(topic, e)
    /\ poller' = [batch |-> poller.batch, sent |-> poller.sent \cup {e}]
    /\ UNCHANGED <<rows, group, books, dlq, replay, weather, faults>>

\* The rows are marked once every send of the batch was confirmed.
Mark ==
    /\ poller.batch # {} /\ poller.sent = poller.batch
    /\ marked' = marked \cup poller.batch
    /\ poller' = NoBatch
    /\ UNCHANGED <<staged, topic, group, books, dlq, replay, weather, faults>>

\* The pass fails, or its process dies, and the transaction is rolled back; a
\* send that was not confirmed may have reached the topic.
DrainFails ==
    /\ poller # NoBatch /\ faults < MaxFaults
    /\ faults' = faults + 1
    /\ poller' = NoBatch
    /\ UNCHANGED topic \/ \E e \in poller.batch : NextRow(e) /\ topic' = Append(topic, e)
    /\ UNCHANGED <<rows, group, books, dlq, replay, weather>>

----------------------------------------------------------------------------
(* The consumer runtime.                                                   *)

\* Where a group stands: its committed offset, how far it is with the poll in
\* hand, how far that poll goes, and the failed attempts on the next message.
Consumer(done, next, upto, at, tries) ==
    [done |-> done, next |-> next, upto |-> upto, at |-> at, tries |-> tries]
Rejoin(done) == Consumer(done, done, done, "poll", 0)
Become(g, c) == group' = [group EXCEPT ![g] = c]
Message(g) == topic[group[g].next + 1]
More(g) == group[g].next < group[g].upto
GoOn(g) == Become(g, Consumer(group[g].done, group[g].next + 1, group[g].upto, group[g].at, 0))

Readable(from, to) == {i \in from + 1 .. to : topic[i] \notin garbled}
Latest(s) == CHOOSE i \in s : \A j \in s : j <= i

\* fold_facts and upsert_facts: later events overwrite the shared columns, and
\* each adds its own milestone.
Fold(read) ==
    [status |-> topic[Latest(read)], milestones |-> facts.milestones \cup {topic[i] : i \in read}]

\* A handler's transaction; InboxHandler ignores the rows that exist already.
Apply(g, read) ==
    IF g = "facts"
    THEN facts' = (IF read = {} THEN facts ELSE Fold(read)) /\ UNCHANGED inbox
    ELSE inbox' = inbox \cup {topic[i] : i \in read} /\ UNCHANGED facts

\* getmany(), or one step of the iterator.
Poll(g) ==
    LET c == group[g] IN
    /\ c.at = "poll"
    /\ \E n \in 1 .. (IF g = "facts" THEN MaxPoll ELSE 1) :
          /\ c.done + n <= Len(topic)
          /\ Become(g, Consumer(c.done, c.done, c.done + n,
                                IF g = "facts" THEN "assemble" ELSE "single", 0))
    /\ UNCHANGED <<rows, poller, topic, books, dlq, replay, weather, faults>>

\* consume_batches_once(): what cannot be decoded is parked while the batch is
\* put together.
Assemble(g) ==
    LET c == group[g] IN
    /\ c.at = "assemble"
    /\ \/ More(g) /\ GoOn(g)
          /\ dlq' = IF Message(g) \in garbled THEN Append(dlq, Message(g)) ELSE dlq
       \/ ~More(g) /\ Become(g, Consumer(c.done, c.done, c.upto, "batch", 0)) /\ UNCHANGED dlq
    /\ UNCHANGED <<rows, poller, topic, books, replay, weather, faults>>

BatchBreaks(g) == \E i \in Readable(group[g].next, group[g].upto) : topic[i] \in Broken(g)

HandleBatch(g) ==
    LET c == group[g] IN
    /\ c.at = "batch" /\ More(g) /\ ~BatchBreaks(g)
    /\ Apply(g, Readable(c.next, c.upto))
    /\ Become(g, Consumer(c.done, c.upto, c.upto, "batch", 0))
    /\ UNCHANGED <<rows, poller, topic, dlq, replay, weather, faults>>

\* The batch fails, perhaps because of one event, and degrades to singles; a
\* transaction whose answer was lost may have been committed.
BatchFails(g) ==
    LET c == group[g] IN
    /\ c.at = "batch" /\ Readable(c.next, c.upto) # {}
    /\ Become(g, Consumer(c.done, c.next, c.upto, "single", 0))
    /\ \/ BatchBreaks(g) /\ UNCHANGED <<books, faults>>
       \/ /\ ~BatchBreaks(g) /\ faults < MaxFaults /\ faults' = faults + 1
          /\ UNCHANGED books \/ Apply(g, Readable(c.next, c.upto))
    /\ UNCHANGED <<rows, poller, topic, dlq, replay, weather>>

\* A message that was parked while the batch was put together is not in it.
PassOver(g) ==
    /\ g = "facts" /\ group[g].at = "single" /\ More(g)
    /\ Message(g) \in garbled
    /\ GoOn(g)
    /\ UNCHANGED <<rows, poller, topic, books, dlq, replay, weather, faults>>

\* An attempt on a single message.
Trying(g) ==
    /\ group[g].at = "single" /\ More(g)
    /\ Message(g) \notin garbled /\ group[g].tries < MaxAttempts

Handle(g) ==
    /\ Trying(g) /\ Message(g) \notin Broken(g)
    /\ Apply(g, {group[g].next + 1})
    /\ GoOn(g)
    /\ UNCHANGED <<rows, poller, topic, dlq, replay, weather, faults>>

Failed(g) ==
    /\ LET c == group[g] IN Become(g, Consumer(c.done, c.next, c.upto, c.at, c.tries + 1))
    /\ \/ Message(g) \in Broken(g) /\ UNCHANGED <<books, faults>>
       \/ /\ Message(g) \notin Broken(g) /\ faults < MaxFaults /\ faults' = faults + 1
          /\ UNCHANGED books \/ Apply(g, {group[g].next + 1})
    /\ UNCHANGED <<rows, poller, topic, dlq, replay, weather>>

HandleFails(g) == Trying(g) /\ Failed(g)

\* A single message is given up when its attempts are used up or, by
\* _process(), when it cannot be decoded.
Hopeless(g) ==
    /\ group[g].at = "single" /\ More(g)
    /\ IF Message(g) \in garbled THEN g = "inbox" ELSE group[g].tries = MaxAttempts

\* _park(): the original bytes go to the topic's DLQ.
Park(g) ==
    /\ Hopeless(g)
    /\ dlq' = Append(dlq, Message(g))
    /\ GoOn(g)
    /\ UNCHANGED <<rows, poller, topic, books, replay, weather, faults>>

\* The offset moves when every message of the poll is accounted for.
Commit(g) ==
    /\ group[g].at \in {"batch", "single"} /\ ~More(g)
    /\ Become(g, Rejoin(group[g].upto))
    /\ UNCHANGED <<rows, poller, topic, books, dlq, replay, weather, faults>>

\* Mutant: a pass that crashed goes on where its client stood.
FaultyCrash(g) ==
    /\ group[g].at # "poll" /\ faults < MaxFaults
    /\ faults' = faults + 1
    /\ Become(g, Rejoin(group[g].upto))
    /\ UNCHANGED <<rows, poller, topic, books, dlq, replay, weather>>

\* A pass that crashes (a commit or a send to the DLQ that failed, a degraded
\* registry, a killed process) rejoins at the committed offset.
Crash(g) ==
    /\ group[g].at # "poll" /\ faults < MaxFaults
    /\ faults' = faults + 1
    /\ Become(g, Rejoin(group[g].done))
    /\ UNCHANGED <<rows, poller, topic, books, dlq, replay, weather>>

----------------------------------------------------------------------------
(* The operator: ships a fix and runs the replay tool.                     *)

Fix ==
    /\ bug # NoBug /\ ~fixed
    /\ fixed' = TRUE
    /\ UNCHANGED <<rows, poller, topic, group, books, dlq, replay, bug, garbled, faults>>

\* The tool's progress: the offset its group has committed, how far it has
\* republished, how far the batch in hand goes (0: none), and its batches.
Tool(done, sent, upto, runs) == [done |-> done, sent |-> sent, upto |-> upto, runs |-> runs]
Running == replay.upto # 0

\* The tool is started, or goes on, with a batch of what is parked by now.
TakeParked ==
    /\ ~Running /\ replay.runs < MaxReplays
    /\ \E n \in replay.done + 1 .. Len(dlq) :
          replay' = Tool(replay.done, replay.done, n, replay.runs + 1)
    /\ UNCHANGED <<rows, poller, topic, group, books, dlq, weather, faults>>

\* One parked message goes back to the topic; undecodable ones are skipped.
Republish ==
    /\ Running /\ replay.sent < replay.upto
    /\ LET e == dlq[replay.sent + 1] IN
       topic' = IF e \in garbled THEN topic ELSE Append(topic, e)
    /\ replay' = Tool(replay.done, replay.sent + 1, replay.upto, replay.runs)
    /\ UNCHANGED <<rows, poller, group, books, dlq, weather, faults>>

\* Mutant: the offset is committed before the batch is republished.
FaultyCommitReplay ==
    /\ Running
    /\ replay' = IF replay.sent = replay.upto THEN Tool(replay.upto, 0, 0, replay.runs)
                 ELSE Tool(replay.upto, replay.sent, replay.upto, replay.runs)
    /\ UNCHANGED <<rows, poller, topic, group, books, dlq, weather, faults>>

\* The offset is committed after the batch was republished.
CommitReplay ==
    /\ Running /\ replay.sent = replay.upto
    /\ replay' = Tool(replay.upto, 0, 0, replay.runs)
    /\ UNCHANGED <<rows, poller, topic, group, books, dlq, weather, faults>>

ReplayDies ==
    /\ Running /\ faults < MaxFaults
    /\ faults' = faults + 1
    /\ replay' = Tool(replay.done, 0, 0, replay.runs)
    /\ UNCHANGED <<rows, poller, topic, group, books, dlq, weather>>

----------------------------------------------------------------------------
\* At most one event is garbled or breaks a handler.
Init ==
    /\ staged = 0 /\ marked = {}
    /\ poller = NoBatch
    /\ topic = <<>> /\ dlq = <<>>
    /\ group = [g \in Groups |-> Rejoin(0)]
    /\ facts = [status |-> 0, milestones |-> {}] /\ inbox = {}
    /\ replay = Tool(0, 0, 0, 0)
    /\ fixed = FALSE /\ faults = 0
    /\ \/ garbled = {} /\ bug = NoBug
       \/ \E e \in Events : garbled = {e} /\ bug = NoBug
       \/ \E e \in Events, g \in Groups : garbled = {} /\ bug = [NoBug EXCEPT ![g] = {e}]

Publish == Drain \/ (\E e \in Events : Send(e)) \/ Mark
Consume(g) ==
    \/ Poll(g) \/ Assemble(g) \/ HandleBatch(g) \/ BatchFails(g)
    \/ PassOver(g) \/ Handle(g) \/ HandleFails(g) \/ Park(g) \/ Commit(g)

Next ==
    \/ Stage \/ Publish \/ DrainFails
    \/ \E g \in Groups : Consume(g) \/ Crash(g)
    \/ Fix \/ TakeParked \/ Republish \/ CommitReplay \/ ReplayDies

Spec == Init /\ [][Next]_vars

\* The poller's and the consumers' loops go on after every failure; nothing
\* makes an operator do anything.
FairSpec == Spec /\ WF_vars(Publish) /\ \A g \in Groups : WF_vars(Consume(g))

----------------------------------------------------------------------------
Handled(g) == IF g = "facts" THEN facts.milestones ELSE inbox

TypeOK ==
    /\ staged \in 0 .. NEvents /\ marked \subseteq 1 .. staged
    /\ poller.batch \subseteq (1 .. staged) \ marked /\ poller.sent \subseteq poller.batch
    /\ topic \in Seq(Events) /\ dlq \in Seq(Events)
    /\ group \in [Groups -> [done : Nat, next : Nat, upto : Nat, tries : 0 .. MaxAttempts,
                             at : {"poll", "assemble", "batch", "single"}]]
    /\ \A g \in Groups : /\ group[g].done <= group[g].next /\ group[g].next <= group[g].upto
                          /\ group[g].upto <= Len(topic)
    /\ facts \in [status : 0 .. NEvents, milestones : SUBSET Events] /\ inbox \subseteq Events
    /\ replay \in [done : Nat, sent : Nat, upto : Nat, runs : Nat] /\ replay.done <= Len(dlq)
    /\ bug \in [Groups -> SUBSET Events] /\ garbled \subseteq Events
    /\ fixed \in BOOLEAN /\ faults \in Nat

\* No message is skipped: whatever crashed in between, a message below a
\* group's committed offset has been handled by the group, or is parked.
NothingSkipped ==
    \A g \in Groups : \A i \in 1 .. group[g].done :
        topic[i] \in Handled(g) \/ In(dlq, topic[i])

\* A row that is marked, and so never drained again, is on the topic.
MarkedIsOnTopic == \A e \in marked : In(topic, e)

\* The topic never shows an event of the order before the ones staged earlier.
OrderOfFirstSight ==
    \A i \in 1 .. Len(topic) : \A e \in 1 .. topic[i] : \E j \in 1 .. i : topic[j] = e

\* Fewer transient failures than attempts never park a healthy event, whatever
\* events it shares its batch with.
ParkedForCause ==
    MaxFaults < MaxAttempts =>
        \A i \in 1 .. Len(dlq) : dlq[i] \in garbled \/ \E g \in Groups : dlq[i] \in bug[g]

\* Nothing is on its way.
Quiet ==
    /\ Unpublished = {} /\ poller = NoBatch /\ ~Running
    /\ \A g \in Groups : group[g] = Rejoin(Len(topic))

\* Batches that were sent twice, or handled twice in parts, do not leave an
\* earlier status behind in order_facts: once everything has arrived, the row
\* shows the newest event it has seen, as long as nothing was replayed.
FactsSettle ==
    Quiet /\ replay.runs = 0 => \A e \in facts.milestones : e <= facts.status

\* The same with replays, which the code does not meet (README): "last-write-wins here is genuinely last-event-wins".
LastEventWins == Quiet => \A e \in facts.milestones : e <= facts.status

\* At-least-once, end to end: again and again comes a time when each staged
\* event has been handled by each group, or is in the DLQ beyond the replay
\* tool's offset.  One that was replayed does not count as parked any more.
Accounted(e, g) ==
    \/ e \in Handled(g)
    \/ \E i \in 1 .. Len(dlq) : dlq[i] = e /\ (i > replay.done \/ e \in garbled)
EveryEventArrives == []<>(\A e \in 1 .. staged, g \in Groups : Accounted(e, g))
=============================================================================
