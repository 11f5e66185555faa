------------------------- MODULE EventPipelineProofs -------------------------
(* What the pipeline guarantees for any number of events, any batch sizes,   *)
(* attempts, faults and replays.                                             *)
EXTENDS EventPipeline, TLAPS

----------------------------------------------------------------------------
(* The shape of the state.                                                   *)

Rows ==
    /\ staged \in Nat /\ marked \subseteq 1 .. staged
    /\ poller.batch \subseteq (1 .. staged) \ marked
    /\ poller.sent \subseteq poller.batch
Stages == {"poll", "assemble", "batch", "single"}
Log == topic \in Seq(Nat) /\ dlq \in Seq(Nat)
Places ==
    /\ group \in [Groups -> [done : Nat, next : Nat, upto : Nat, at : Stages, tries : Nat]]
    /\ \A g \in Groups : /\ group[g].done <= group[g].next
                          /\ group[g].next <= group[g].upto
                          /\ group[g].upto <= Len(topic)
Replayed ==
    /\ replay \in [done : Nat, sent : Nat, upto : Nat, runs : Nat]
    /\ replay.upto <= Len(dlq)
Shape == Rows /\ Log /\ Places /\ Replayed

LEMMA ShapeInit == Init => Shape
<1> SUFFICES ASSUME Init PROVE Shape  OBVIOUS
<1>1. Rows  BY DEF Init, Rows, NoBatch
<1>2. Log  BY DEF Init, Log
<1>3. Places
  <2>1. group = [g \in Groups |-> Rejoin(0)] /\ topic = <<>>
    BY DEF Init
  <2> QED  BY <2>1 DEF Places, Rejoin, Consumer, Stages
<1>4. Replayed  BY DEF Init, Replayed, Tool
<1> QED  BY <1>1, <1>2, <1>3, <1>4 DEF Shape

\* A group's message, while there is more to take.
LEMMA MessageIsThere ==
    ASSUME Log, Places, NEW g \in Groups, More(g)
    PROVE  /\ group[g].next + 1 \in 1 .. Len(topic)
           /\ Message(g) = topic[group[g].next + 1] /\ Message(g) \in Nat
  BY DEF Log, Places, More, Message

\* A step extends the two logs by at most one message.
Extended(old, new) == new = old \/ \E e \in Nat : new = Append(old, e)

LEMMA LogsGrow ==
    ASSUME Shape, Next
    PROVE  Extended(topic, topic') /\ Extended(dlq, dlq')
<1> USE DEF Extended
<1>0. \A e \in Events : e \in Nat
  BY DEF Events
<1>1. CASE Stage  BY <1>1 DEF Stage
<1>2. CASE Drain  BY <1>2 DEF Drain
<1>3. ASSUME NEW e \in Events, Send(e) PROVE Extended(topic, topic') /\ Extended(dlq, dlq')
  BY <1>0, <1>3 DEF Send
<1>4. CASE Mark  BY <1>4 DEF Mark
<1>5. CASE DrainFails
  BY <1>5 DEF DrainFails, NextRow, Shape, Rows
<1>6. ASSUME NEW g \in Groups, Consume(g) \/ Crash(g)
      PROVE  Extended(topic, topic') /\ Extended(dlq, dlq')
  <2>1. topic' = topic
    BY <1>6 DEF Consume, Poll, Assemble, HandleBatch, BatchFails, PassOver, Handle, HandleFails,
       Failed, Park, Commit, Crash
  <2>2. Assemble(g) \/ Park(g) \/ dlq' = dlq
    BY <1>6 DEF Consume, Poll, HandleBatch, BatchFails, PassOver, Handle, HandleFails,
       Failed, Commit, Crash
  <2>3. CASE Assemble(g)  BY <2>1, <2>3, MessageIsThere DEF Assemble, Shape
  <2>4. CASE Park(g)  BY <2>1, <2>4, MessageIsThere DEF Park, Hopeless, Shape
  <2> QED  BY <2>1, <2>2, <2>3, <2>4
<1>7. CASE Fix  BY <1>7 DEF Fix
<1>8. CASE TakeParked  BY <1>8 DEF TakeParked
<1>9. CASE Republish
  <2>1. dlq[replay.sent + 1] \in Nat
    BY <1>9 DEF Republish, Shape, Log, Replayed
  <2> QED  BY <1>9, <2>1 DEF Republish
<1>10. CASE CommitReplay  BY <1>10 DEF CommitReplay
<1>11. CASE ReplayDies  BY <1>11 DEF ReplayDies
<1> QED  BY <1>1, <1>2, <1>3, <1>4, <1>5, <1>6, <1>7, <1>8, <1>9, <1>10, <1>11 DEF Next, Publish

\* So nothing that was on a log leaves its place.
LEMMA LogsKeep ==
    ASSUME NEW s \in Seq(Nat), NEW t, Extended(s, t)
    PROVE  /\ t \in Seq(Nat) /\ Len(s) <= Len(t)
           /\ \A i \in 1 .. Len(s) : t[i] = s[i]
           /\ \A e : In(s, e) => In(t, e)
  <1>1. t \in Seq(Nat) /\ Len(s) <= Len(t) /\ \A i \in 1 .. Len(s) : t[i] = s[i]
    BY SMTT(30) DEF Extended
  <1>2. Len(s) \in Nat /\ Len(t) \in Nat
    BY <1>1
  <1>3. ASSUME NEW e, In(s, e) PROVE In(t, e)
    <2>1. PICK i \in 1 .. Len(s) : s[i] = e
      BY <1>3 DEF In
    <2>2. i \in 1 .. Len(t) /\ t[i] = e
      BY <1>1, <1>2, <2>1
    <2> QED  BY <2>2 DEF In
  <1> QED  BY <1>1, <1>3

\* What a step of one group may do to the groups' places.
Moved(g) ==
    /\ group'[g] \in [done : Nat, next : Nat, upto : Nat, at : Stages, tries : Nat]
    /\ group'[g].done <= group'[g].next /\ group'[g].next <= group'[g].upto
    /\ group'[g].upto <= Len(topic)
    /\ group' = [group EXCEPT ![g] = group'[g]]

LEMMA PlaceStep ==
    ASSUME Shape, NEW g \in Groups, Consume(g) \/ Crash(g)
    PROVE  Moved(g)
<1>0. /\ group[g] \in [done : Nat, next : Nat, upto : Nat, at : Stages, tries : Nat]
      /\ group[g].done <= group[g].next /\ group[g].next <= group[g].upto
      /\ group[g].upto <= Len(topic) /\ Len(topic) \in Nat
      /\ group = [h \in Groups |-> group[h]]
  BY DEF Shape, Places, Log
<1> USE DEF Moved, Consumer, Rejoin, Become, Stages
<1>1. CASE Poll(g)
  <2>1. PICK n \in 1 .. (IF g = "facts" THEN MaxPoll ELSE 1) :
          /\ group[g].done + n <= Len(topic)
          /\ group' = [group EXCEPT ![g] =
               Consumer(group[g].done, group[g].done, group[g].done + n,
                        IF g = "facts" THEN "assemble" ELSE "single", 0)]
    BY <1>1 DEF Poll
  <2>2. n \in Nat
    BY PipelineAssumption
  <2> QED  BY <1>0, <2>1, <2>2
<1>2. CASE Assemble(g)  BY <1>0, <1>2 DEF Assemble, More, GoOn
<1>3. CASE HandleBatch(g)  BY <1>0, <1>3 DEF HandleBatch
<1>4. CASE BatchFails(g)  BY <1>0, <1>4 DEF BatchFails
<1>5. CASE PassOver(g)  BY <1>0, <1>5 DEF PassOver, More, GoOn
<1>6. CASE Handle(g)  BY <1>0, <1>6 DEF Handle, Trying, More, GoOn
<1>7. CASE HandleFails(g)  BY <1>0, <1>7 DEF HandleFails, Failed
<1>8. CASE Park(g)  BY <1>0, <1>8 DEF Park, Hopeless, More, GoOn
<1>9. CASE Commit(g)  BY <1>0, <1>9 DEF Commit
<1>10. CASE Crash(g)  BY <1>0, <1>10 DEF Crash
<1> QED  BY <1>1, <1>2, <1>3, <1>4, <1>5, <1>6, <1>7, <1>8, <1>9, <1>10 DEF Consume

LEMMA ShapeStep == Shape /\ [Next]_vars => Shape'
<1> SUFFICES ASSUME Shape, [Next]_vars PROVE Shape'  OBVIOUS
<1>1. CASE UNCHANGED vars
  BY <1>1 DEF Shape, Rows, Log, Places, Replayed, vars, rows, books, weather
<1>2. CASE Next
  <2>1. Log' /\ Len(topic) <= Len(topic') /\ Len(dlq) <= Len(dlq')
    BY <1>2, LogsGrow, LogsKeep DEF Shape, Log
  <2>2. Rows'
    <3>1. CASE Stage  BY <3>1 DEF Stage, Shape, Rows
    <3>2. CASE Drain
      BY <3>2 DEF Drain, Shape, Rows, rows, Unpublished
    <3>3. ASSUME NEW e \in Events, Send(e) PROVE Rows'
      BY <3>3 DEF Send, NextRow, Shape, Rows, rows
    <3>4. CASE Mark  BY <3>4 DEF Mark, Shape, Rows, NoBatch
    <3>5. CASE DrainFails  BY <3>5 DEF DrainFails, Shape, Rows, rows, NoBatch
    <3>6. CASE UNCHANGED <<rows, poller>>
      BY <3>6 DEF Shape, Rows, rows
    <3>7. ASSUME NEW g \in Groups, Consume(g) \/ Crash(g) PROVE UNCHANGED <<rows, poller>>
      BY <3>7 DEF Consume, Poll, Assemble, HandleBatch, BatchFails, PassOver, Handle, HandleFails,
         Failed, Park, Commit, Crash
    <3>8. ASSUME Fix \/ TakeParked \/ Republish \/ CommitReplay \/ ReplayDies
          PROVE  UNCHANGED <<rows, poller>>
      BY <3>8 DEF Fix, TakeParked, Republish, CommitReplay, ReplayDies
    <3> QED  BY <1>2, <3>1, <3>2, <3>3, <3>4, <3>5, <3>6, <3>7, <3>8 DEF Next, Publish
  <2>3. Places'
    <3>1. Len(topic) \in Nat /\ Len(topic') \in Nat
      BY <2>1 DEF Shape, Log
    <3>2. CASE group' = group
      BY <2>1, <3>1, <3>2 DEF Shape, Places
    <3>3. ASSUME NEW g \in Groups, Consume(g) \/ Crash(g) PROVE Places'
      <4>1. Moved(g)
        BY <3>3, PlaceStep
      <4>2. \A h \in Groups : h # g => group'[h] = group[h]
        BY <4>1 DEF Moved, Shape, Places
      <4>3. group' = [h \in Groups |-> group'[h]]
        BY <4>1 DEF Moved, Shape, Places
      <4>4. ASSUME NEW h \in Groups
            PROVE  /\ group'[h] \in [done : Nat, next : Nat, upto : Nat, at : Stages, tries : Nat]
                   /\ group'[h].done <= group'[h].next /\ group'[h].next <= group'[h].upto
                   /\ group'[h].upto <= Len(topic')
        <5>1. CASE h = g
          BY <2>1, <3>1, <4>1, <5>1 DEF Moved
        <5>2. CASE h # g
          BY <2>1, <3>1, <4>2, <5>2 DEF Shape, Places
        <5> QED  BY <5>1, <5>2
      <4> QED  BY <4>3, <4>4 DEF Places
    <3>4. group' = group \/ \E g \in Groups : Consume(g) \/ Crash(g)
      BY <1>2 DEF Next, Publish, Stage, Drain, Send, Mark, DrainFails, Fix, TakeParked, Republish,
         CommitReplay, ReplayDies
    <3> QED  BY <3>2, <3>3, <3>4
  <2>4. Replayed'
    <3>0. Len(dlq) \in Nat /\ Len(dlq') \in Nat
      BY <2>1 DEF Shape, Log
    <3>1. CASE replay' = replay
      BY <2>1, <3>0, <3>1 DEF Shape, Replayed
    <3>2. CASE TakeParked
      BY <2>1, <3>0, <3>2 DEF TakeParked, Shape, Replayed, Tool
    <3>3. CASE Republish
      BY <2>1, <3>0, <3>3 DEF Republish, Shape, Replayed, Tool
    <3>4. CASE CommitReplay \/ ReplayDies
      BY <2>1, <3>0, <3>4 DEF CommitReplay, ReplayDies, Shape, Replayed, Tool
    <3>5. ASSUME NEW g \in Groups, Consume(g) \/ Crash(g) PROVE replay' = replay
      BY <3>5 DEF Consume, Poll, Assemble, HandleBatch, BatchFails, PassOver, Handle, HandleFails,
         Failed, Park, Commit, Crash
    <3>6. ASSUME Stage \/ Publish \/ DrainFails \/ Fix PROVE replay' = replay
      BY <3>6 DEF Publish, Stage, Drain, Send, Mark, DrainFails, Fix
    <3> QED  BY <1>2, <3>1, <3>2, <3>3, <3>4, <3>5, <3>6 DEF Next
  <2> QED  BY <2>1, <2>2, <2>3, <2>4 DEF Shape
<1> QED  BY <1>1, <1>2

----------------------------------------------------------------------------
(* Nothing is skipped.                                                       *)

Sees(g, i) == topic[i] \in Handled(g) \/ In(dlq, topic[i])
Excused(i) == topic[i] \in garbled => In(dlq, topic[i])

\* What a group has put behind it, and what its batch has left out, is
\* accounted for.
Behind(g) ==
    /\ \A i \in 1 .. group[g].done : Sees(g, i)
    /\ group[g].at \in {"batch", "single"} =>
          \A i \in group[g].done + 1 .. group[g].next : Sees(g, i)
Ahead(g) ==
    /\ group[g].at = "assemble" =>
          \A i \in group[g].done + 1 .. group[g].next : Excused(i)
    /\ group[g].at = "batch" \/ (group[g].at = "single" /\ g = "facts") =>
          \A i \in group[g].next + 1 .. group[g].upto : Excused(i)
SkipInv == Shape /\ \A g \in Groups : Behind(g) /\ Ahead(g)

LEMMA SkipInit == Init => SkipInv
<1> SUFFICES ASSUME Init, NEW g \in Groups PROVE Behind(g) /\ Ahead(g)
  BY ShapeInit DEF SkipInv
<1>1. group = [h \in Groups |-> Rejoin(0)]
  BY DEF Init
<1>2. group[g].done = 0 /\ group[g].at = "poll"
  BY <1>1 DEF Rejoin, Consumer
<1> QED  BY <1>2 DEF Behind, Ahead

\* The books of a group only grow.
LEMMA BooksGrow ==
    ASSUME Next, NEW h \in Groups
    PROVE  Handled(h) \subseteq Handled(h)' /\ garbled' = garbled
<1>1. ASSUME NEW g \in Groups, Consume(g) \/ Crash(g)
      PROVE  /\ garbled' = garbled
             /\ UNCHANGED books \/ \E read : Apply(g, read)
  BY <1>1 DEF Consume, Poll, Assemble, HandleBatch, BatchFails, PassOver, Handle, HandleFails,
     Failed, Park, Commit, Crash, weather
<1>2. ASSUME UNCHANGED books PROVE Handled(h) \subseteq Handled(h)'
  BY <1>2 DEF books, Handled
<1>3. ASSUME NEW g \in Groups, NEW read, Apply(g, read) PROVE Handled(h) \subseteq Handled(h)'
  BY <1>3 DEF Apply, Fold, Handled
<1>4. CASE \E g \in Groups : Consume(g) \/ Crash(g)
  <2>1. PICK g \in Groups : Consume(g) \/ Crash(g)
    BY <1>4
  <2>2. garbled' = garbled /\ (UNCHANGED books \/ \E read : Apply(g, read))
    BY <1>1, <2>1
  <2>3. CASE UNCHANGED books  BY <1>2, <2>2, <2>3
  <2>4. ASSUME NEW read, Apply(g, read) PROVE Handled(h) \subseteq Handled(h)'
    BY <1>3, <2>4
  <2> QED  BY <2>2, <2>3, <2>4
<1>5. CASE ~\E g \in Groups : Consume(g) \/ Crash(g)
  <2>1. CASE Stage \/ Publish \/ DrainFails
    <3>1. UNCHANGED books /\ garbled' = garbled
      BY <2>1 DEF Publish, Stage, Drain, Send, Mark, DrainFails, weather
    <3> QED  BY <1>2, <3>1
  <2>2. CASE Fix \/ TakeParked \/ Republish \/ CommitReplay \/ ReplayDies
    <3>1. UNCHANGED books /\ garbled' = garbled
      BY <2>2 DEF Fix, TakeParked, Republish, CommitReplay, ReplayDies, weather
    <3> QED  BY <1>2, <3>1
  <2> QED  BY <1>5, <2>1, <2>2 DEF Next
<1> QED  BY <1>4, <1>5

\* What is accounted for stays so.
LEMMA StaysSeen ==
    ASSUME Shape, Next, NEW i \in 1 .. Len(topic)
    PROVE  /\ topic'[i] = topic[i]
           /\ \A h \in Groups : Sees(h, i) => Sees(h, i)'
           /\ Excused(i) => Excused(i)'
<1>1. topic'[i] = topic[i] /\ (In(dlq, topic[i]) => In(dlq', topic[i]))
  BY LogsGrow, LogsKeep DEF Shape, Log
<1>2. \A h \in Groups : Handled(h) \subseteq Handled(h)'
  BY BooksGrow
<1>3. garbled' = garbled
  BY BooksGrow DEF Groups
<1> QED  BY <1>1, <1>2, <1>3 DEF Sees, Excused, In
LEMMA GroupRests ==
    ASSUME Shape, Next, NEW h \in Groups, Behind(h), Ahead(h), group'[h] = group[h]
    PROVE  Behind(h)' /\ Ahead(h)'
<1>1. /\ group[h].done \in Nat /\ group[h].next \in Nat /\ group[h].upto \in Nat
      /\ group[h].done <= group[h].next /\ group[h].next <= group[h].upto
      /\ group[h].upto <= Len(topic) /\ Len(topic) \in Nat
  BY DEF Shape, Places, Log
<1>2. \A i \in 1 .. Len(topic) : (Sees(h, i) => Sees(h, i)') /\ (Excused(i) => Excused(i)')
  BY StaysSeen
<1> HIDE DEF Sees, Excused
<1> QED  BY <1>1, <1>2, SMTT(30) DEF Behind, Ahead

\* What a transaction was given is in the books afterwards.
LEMMA Applied ==
    ASSUME NEW g \in Groups, NEW read, Apply(g, read), topic' = topic, NEW i \in read
    PROVE  Sees(g, i)'
  BY DEF Apply, Fold, Handled, Sees

\* Each step of a group keeps its own part of the invariant.
LEMMA GroupMoves ==
    ASSUME Shape, Next, NEW g \in Groups, Behind(g), Ahead(g), Consume(g) \/ Crash(g)
    PROVE  Behind(g)' /\ Ahead(g)'
<1> DEFINE c == group[g]
           d == group'[g]
<1>1. /\ c.done \in Nat /\ c.next \in Nat /\ c.upto \in Nat /\ c.at \in Stages
      /\ c.done <= c.next /\ c.next <= c.upto
      /\ c.upto <= Len(topic) /\ Len(topic) \in Nat
  BY DEF Shape, Places, Log
<1>2. \A i \in 1 .. Len(topic) : (Sees(g, i) => Sees(g, i)') /\ (Excused(i) => Excused(i)')
  BY StaysSeen
<1>3. topic' = topic
  BY DEF Consume, Poll, Assemble, HandleBatch, BatchFails, PassOver, Handle, HandleFails,
     Failed, Park, Commit, Crash
<1>4. \A x : Become(g, x) => d = x
  BY DEF Become, Shape, Places
<1>5. \A i \in 1 .. c.done : Sees(g, i)'
  BY <1>1, <1>2 DEF Behind
<1>0. PICK k : k = c.next + 1
  OBVIOUS
<1>6. CASE Poll(g) \/ Crash(g)
  <2>1. ASSUME Crash(g)
        PROVE  d.done = c.done /\ d.next = c.done /\ d.at = "poll"
    BY <1>4, <2>1 DEF Crash, Rejoin, Consumer
  <2>2. ASSUME Poll(g)
        PROVE  d.done = c.done /\ d.next = c.done /\ d.at = (IF g = "facts" THEN "assemble" ELSE "single")
    <3>1. PICK n : Become(g, Consumer(c.done, c.done, c.done + n, IF g = "facts" THEN "assemble" ELSE "single", 0))
      BY <2>2 DEF Poll
    <3> QED  BY <1>4, <3>1 DEF Consumer
  <2>3. /\ d.done = c.done /\ d.next = c.done
        /\ d.at = "poll" \/ d.at = "assemble" \/ (d.at = "single" /\ g # "facts")
    BY <1>6, <2>1, <2>2
  <2> QED  BY <1>1, <1>5, <2>3 DEF Behind, Ahead
<1>7. CASE Assemble(g)
  <2>0. c.at = "assemble"
    BY <1>7 DEF Assemble
  <2>1. CASE More(g)
    <3>1. d.done = c.done /\ d.next = k /\ d.at = "assemble"
      BY <1>0, <1>4, <1>7, <2>1 DEF Assemble, GoOn, Consumer
    <3>2. Excused(k)'
      <4>1. dlq' = IF topic[k] \in garbled THEN Append(dlq, topic[k]) ELSE dlq
        BY <1>0, <1>7, <2>1 DEF Assemble, Message
      <4>2. garbled' = garbled /\ dlq \in Seq(Nat) /\ topic[k] \in Nat
        BY <1>0, <1>7, <2>1, MessageIsThere DEF Assemble, weather, Shape, Log
      <4>3. ASSUME topic[k] \in garbled PROVE In(dlq', topic[k])
        <5>1. Len(dlq) + 1 \in 1 .. Len(dlq') /\ dlq'[Len(dlq) + 1] = topic[k]
          BY <4>1, <4>2, <4>3
        <5> QED  BY <5>1 DEF In
      <4> QED  BY <1>3, <4>2, <4>3 DEF Excused, In
    <3>3. \A i \in c.done + 1 .. c.next : Excused(i)'
      BY <1>1, <1>2, <2>0 DEF Ahead
    <3>4. \A i \in c.done + 1 .. k : Excused(i)'
      BY <1>0, <1>1, <3>2, <3>3
    <3> QED  BY <1>5, <3>1, <3>4 DEF Behind, Ahead
  <2>2. CASE ~More(g)
    <3>1. d.done = c.done /\ d.next = c.done /\ d.upto = c.upto /\ d.at = "batch"
      BY <1>4, <1>7, <2>2 DEF Assemble, Consumer
    <3>2. c.next = c.upto
      BY <1>1, <2>2 DEF More
    <3>3. \A i \in c.done + 1 .. c.next : Excused(i)'
      BY <1>1, <1>2, <2>0 DEF Ahead
    <3> QED  BY <1>1, <1>5, <3>1, <3>2, <3>3 DEF Behind, Ahead
  <2> QED  BY <2>1, <2>2
<1>8. CASE HandleBatch(g)
  <2>1. d.done = c.done /\ d.next = c.upto /\ d.upto = c.upto /\ d.at = "batch"
    BY <1>4, <1>8 DEF HandleBatch, Consumer
  <2>2. ASSUME NEW i \in c.next + 1 .. c.upto PROVE Sees(g, i)'
    <3>1. CASE topic[i] \in garbled
      <4>1. i \in 1 .. Len(topic) /\ Excused(i)
        BY <1>1, <1>8 DEF Ahead, HandleBatch
      <4>2. Sees(g, i)
        BY <3>1, <4>1 DEF Excused, Sees
      <4> QED  BY <1>2, <4>1, <4>2
    <3>2. CASE topic[i] \notin garbled
      <4>1. i \in Readable(c.next, c.upto)
        BY <3>2 DEF Readable
      <4> QED  BY <1>3, <1>8, <4>1, Applied DEF HandleBatch
    <3> QED  BY <3>1, <3>2
  <2>3. c.at = "batch"
    BY <1>8 DEF HandleBatch
  <2>4. \A i \in c.done + 1 .. c.next : Sees(g, i)'
    BY <1>1, <1>2, <2>3 DEF Behind
  <2> QED  BY <1>1, <1>5, <2>1, <2>2, <2>4 DEF Behind, Ahead
<1>9. CASE BatchFails(g) \/ HandleFails(g)
  <2>1. /\ d.done = c.done /\ d.next = c.next /\ d.upto = c.upto
        /\ c.at = "batch" \/ c.at = "single"
        /\ d.at = "single"
    BY <1>4, <1>9 DEF BatchFails, HandleFails, Failed, Trying, Consumer
  <2>2. \A i \in c.done + 1 .. c.next : Sees(g, i)'
    BY <1>1, <1>2, <2>1 DEF Behind
  <2>3. g = "facts" => \A i \in c.next + 1 .. c.upto : Excused(i)'
    BY <1>1, <1>2, <2>1 DEF Ahead
  <2> QED  BY <1>5, <2>1, <2>2, <2>3 DEF Behind, Ahead
<1>10. CASE PassOver(g) \/ Handle(g) \/ Park(g)
  <2>1. /\ d.done = c.done /\ d.next = k /\ d.upto = c.upto
        /\ c.at = "single" /\ d.at = "single" /\ More(g)
    BY <1>0, <1>4, <1>10 DEF PassOver, Handle, Park, Hopeless, Trying, GoOn, Consumer
  <2>2. k \in 1 .. Len(topic) /\ Message(g) = topic[k] /\ k \in c.next + 1 .. c.upto
    BY <1>0, <1>1, <2>1, MessageIsThere DEF Shape, More
  <2>3. Sees(g, k)'
    <3>1. CASE PassOver(g)
      <4>1. Sees(g, k)
        BY <2>1, <2>2, <3>1 DEF PassOver, Ahead, Excused, Sees
      <4> QED  BY <1>2, <2>2, <4>1
    <3>2. CASE Handle(g)
      <4>1. Apply(g, {k}) /\ k \in {k}
        BY <1>0, <3>2 DEF Handle
      <4> QED  BY <1>3, <4>1, Applied
    <3>3. CASE Park(g)
      <4>1. dlq' = Append(dlq, topic[k]) /\ dlq \in Seq(Nat) /\ topic[k] \in Nat
        BY <2>1, <2>2, <3>3, MessageIsThere DEF Park, Shape, Log
      <4>2. Len(dlq) + 1 \in 1 .. Len(dlq') /\ dlq'[Len(dlq) + 1] = topic[k]
        BY <4>1
      <4> QED  BY <1>3, <4>2 DEF Sees, In
    <3> QED  BY <1>10, <3>1, <3>2, <3>3
  <2>4. \A i \in c.done + 1 .. c.next : Sees(g, i)'
    BY <1>1, <1>2, <2>1 DEF Behind
  <2>5. \A i \in c.done + 1 .. k : Sees(g, i)'
    BY <1>0, <1>1, <2>3, <2>4
  <2>6. g = "facts" => \A i \in k + 1 .. c.upto : Excused(i)'
    BY <1>0, <1>1, <1>2, <2>1 DEF Ahead
  <2> QED  BY <1>5, <2>1, <2>5, <2>6 DEF Behind, Ahead
<1>11. CASE Commit(g)
  <2>1. /\ d.done = c.upto /\ d.next = c.upto /\ d.at = "poll"
        /\ c.at \in {"batch", "single"} /\ c.next = c.upto
    BY <1>1, <1>4, <1>11 DEF Commit, More, Rejoin, Consumer
  <2>2. \A i \in c.done + 1 .. c.next : Sees(g, i)'
    BY <1>1, <1>2, <2>1 DEF Behind
  <2> QED  BY <1>1, <1>5, <2>1, <2>2 DEF Behind, Ahead
<1> QED  BY <1>6, <1>7, <1>8, <1>9, <1>10, <1>11 DEF Consume
LEMMA SkipStep == SkipInv /\ [Next]_vars => SkipInv'
<1> SUFFICES ASSUME SkipInv, [Next]_vars PROVE SkipInv'  OBVIOUS
<1>1. Shape /\ Shape'
  BY ShapeStep DEF SkipInv
<1>2. SUFFICES ASSUME NEW h \in Groups PROVE Behind(h)' /\ Ahead(h)'
  BY <1>1 DEF SkipInv
<1>3. Behind(h) /\ Ahead(h)
  BY DEF SkipInv
<1>4. CASE UNCHANGED vars
  <2>1. UNCHANGED <<group, topic, facts, inbox, dlq, garbled>>
    BY <1>4 DEF vars, books, weather
  <2> QED  BY <1>3, <2>1 DEF Behind, Ahead, Sees, Excused, Handled, In
<1>5. CASE Next
  <2>1. CASE group'[h] = group[h]
    BY <1>1, <1>3, <1>5, <2>1, GroupRests
  <2>2. CASE Consume(h) \/ Crash(h)
    BY <1>1, <1>3, <1>5, <2>2, GroupMoves
  <2>3. ASSUME NEW g \in Groups, Consume(g) \/ Crash(g), g # h PROVE group'[h] = group[h]
    BY <1>1, <2>3, PlaceStep DEF Moved, Shape, Places
  <2>4. ASSUME ~\E g \in Groups : Consume(g) \/ Crash(g) PROVE group' = group
    BY <1>5, <2>4 DEF Next, Publish, Stage, Drain, Send, Mark, DrainFails, Fix, TakeParked, Republish,
       CommitReplay, ReplayDies
  <2> QED  BY <2>1, <2>2, <2>3, <2>4
<1> QED  BY <1>4, <1>5

\* No consumer group skips a message: whatever died in between, what lies below
\* a committed offset was handled by the group or is parked.
THEOREM SkipCorrect == Spec => []NothingSkipped
<1>1. SkipInv => NothingSkipped
  BY DEF SkipInv, NothingSkipped, Behind, Sees
<1> QED  BY <1>1, SkipInit, SkipStep, PTL DEF Spec

----------------------------------------------------------------------------
(* The order of the topic.                                                   *)

\* What is sent or parked has been on the topic; the batch in hand is the
\* oldest part of what is not published.
SentInv == \A e \in poller.sent : In(topic, e)
ParkedInv == \A i \in 1 .. Len(dlq) : In(topic, dlq[i])
OldestInv == First(poller.batch)
OrderInv == Shape /\ SentInv /\ ParkedInv /\ OldestInv /\ MarkedIsOnTopic /\ OrderOfFirstSight

LEMMA OrderInit == Init => OrderInv
<1> SUFFICES ASSUME Init PROVE OrderInv  OBVIOUS
<1>1. topic = <<>> /\ dlq = <<>> /\ marked = {} /\ poller = [batch |-> {}, sent |-> {}]
  BY DEF Init, NoBatch
<1>2. SentInv /\ MarkedIsOnTopic /\ OldestInv
  BY <1>1 DEF SentInv, MarkedIsOnTopic, OldestInv, First
<1>3. ParkedInv /\ OrderOfFirstSight
  BY <1>1 DEF ParkedInv, OrderOfFirstSight
<1> QED  BY <1>2, <1>3, ShapeInit DEF OrderInv

\* The row that is sent next comes after everything older.
LEMMA SendsInOrder ==
    ASSUME OrderInv, NEW e \in Nat, NextRow(e), NEW f \in 1 .. e, f # e
    PROVE  In(topic, f)
<1>1. /\ e \in poller.batch /\ e \in 1 .. staged /\ staged \in Nat
      /\ \A x \in poller.batch \ poller.sent : e <= x
  BY DEF NextRow, OrderInv, Shape, Rows
<1>2. f \in 1 .. staged /\ f < e
  BY <1>1
<1>3. CASE f \in marked
  BY <1>3 DEF OrderInv, MarkedIsOnTopic
<1>4. CASE f \in poller.sent
  BY <1>4 DEF OrderInv, SentInv
<1>5. CASE f \in poller.batch \ poller.sent
  BY <1>1, <1>2, <1>5
<1>6. CASE f \notin marked /\ f \notin poller.batch
  <2>1. f \in Unpublished \ poller.batch
    BY <1>2, <1>6 DEF Unpublished
  <2>2. e < f
    BY <1>1, <2>1 DEF OrderInv, OldestInv, First
  <2> QED  BY <1>1, <1>2, <2>2
<1> QED  BY <1>3, <1>4, <1>5, <1>6

\* A topic stays in order when a message is added whose elders are on it.
LEMMA AddedInOrder ==
    ASSUME Log, OrderOfFirstSight, NEW e \in Nat, topic' = Append(topic, e),
           \A f \in 1 .. e : f # e => In(topic, f)
    PROVE  OrderOfFirstSight'
<1>1. /\ topic \in Seq(Nat) /\ Len(topic) \in Nat /\ Len(topic') = Len(topic) + 1
      /\ topic'[Len(topic) + 1] = e
      /\ \A i \in 1 .. Len(topic) : topic'[i] = topic[i]
  BY DEF Log
<1>2. ASSUME NEW i \in 1 .. Len(topic'), NEW f \in 1 .. topic'[i]
      PROVE  \E j \in 1 .. i : topic'[j] = f
  <2>1. CASE i \in 1 .. Len(topic)
    <3>1. PICK j \in 1 .. i : topic[j] = f
      BY <1>1, <1>2, <2>1 DEF OrderOfFirstSight
    <3> QED  BY <1>1, <2>1, <3>1
  <2>2. CASE i = Len(topic) + 1 /\ f # e
    <3>1. PICK j \in 1 .. Len(topic) : topic[j] = f
      BY <1>1, <2>2 DEF In
    <3> QED  BY <1>1, <2>2, <3>1
  <2>3. CASE i = Len(topic) + 1 /\ f = e
    BY <1>1, <2>3
  <2> QED  BY <1>1, <2>1, <2>2, <2>3
<1> QED  BY <1>2 DEF OrderOfFirstSight

LEMMA AddedIsIn ==
    ASSUME NEW s \in Seq(Nat), NEW e \in Nat
    PROVE  In(Append(s, e), e)
<1>1. Len(s) + 1 \in 1 .. Len(Append(s, e)) /\ Append(s, e)[Len(s) + 1] = e
  OBVIOUS
<1> QED  BY <1>1 DEF In

LEMMA OrderStep == OrderInv /\ [Next]_vars => OrderInv'
<1> SUFFICES ASSUME OrderInv, [Next]_vars PROVE OrderInv'  OBVIOUS
<1>1. Shape /\ Shape'
  BY ShapeStep DEF OrderInv
<1>2. CASE UNCHANGED vars
  <2>1. UNCHANGED <<staged, marked, poller, topic, dlq>>
    BY <1>2 DEF vars, rows
  <2> QED
    BY <1>1, <2>1 DEF OrderInv, SentInv, ParkedInv, OldestInv, MarkedIsOnTopic, OrderOfFirstSight,
       First, Unpublished, In
<1>3. CASE Next
  <2>1. \A e : In(topic, e) => In(topic', e)
    BY <1>1, <1>3, LogsGrow, LogsKeep DEF Shape, Log
  <2>2. CASE Stage
    <3>1. /\ staged' = staged + 1 /\ staged \in Nat
          /\ UNCHANGED <<marked, poller, topic, dlq>>
          /\ poller.batch \subseteq 1 .. staged
      BY <1>1, <2>2 DEF Stage, Shape, Rows
    <3>2. OldestInv'
      BY <3>1 DEF OrderInv, OldestInv, First, Unpublished
    <3> QED  BY <1>1, <3>1, <3>2 DEF OrderInv, SentInv, ParkedInv, MarkedIsOnTopic, OrderOfFirstSight, In
  <2>3. CASE Drain
    <3>1. /\ UNCHANGED <<staged, marked, topic, dlq>>
          /\ poller'.sent = {} /\ First(poller'.batch)
      BY <2>3 DEF Drain, rows
    <3>2. OldestInv'
      BY <3>1 DEF OldestInv, First, Unpublished
    <3>3. SentInv'
      BY <3>1 DEF SentInv
    <3>4. ParkedInv' /\ MarkedIsOnTopic' /\ OrderOfFirstSight'
      BY <3>1 DEF OrderInv, ParkedInv, MarkedIsOnTopic, OrderOfFirstSight, In
    <3> QED
      BY <1>1, <3>2, <3>3, <3>4 DEF OrderInv
  <2>4. ASSUME NEW e \in Events, Send(e) PROVE OrderInv'
    <3>1. /\ e \in Nat /\ topic' = Append(topic, e)
          /\ UNCHANGED <<staged, marked, dlq>>
          /\ poller'.batch = poller.batch /\ poller'.sent = poller.sent \cup {e}
      BY <2>4 DEF Send, rows, Events
    <3>2. OrderOfFirstSight'
      <4>1. \A f \in 1 .. e : f # e => In(topic, f)
        BY <2>4, <3>1, SendsInOrder DEF Send
      <4> QED  BY <1>1, <3>1, <4>1, AddedInOrder DEF OrderInv, Shape
    <3>3. In(topic', e)
      BY <1>1, <3>1, AddedIsIn DEF Shape, Log
    <3>4. SentInv' /\ ParkedInv' /\ MarkedIsOnTopic'
      BY <2>1, <3>1, <3>3 DEF OrderInv, SentInv, ParkedInv, MarkedIsOnTopic
    <3>5. OldestInv'
      BY <3>1 DEF OrderInv, OldestInv, First, Unpublished
    <3> QED  BY <1>1, <3>2, <3>4, <3>5 DEF OrderInv
  <2>5. CASE Mark
    <3>1. /\ UNCHANGED <<staged, topic, dlq>> /\ marked' = marked \cup poller.sent
          /\ poller' = [batch |-> {}, sent |-> {}]
      BY <2>5 DEF Mark, NoBatch
    <3>2. OldestInv' /\ SentInv'
      BY <3>1 DEF OldestInv, SentInv, First
    <3>3. MarkedIsOnTopic'
      BY <3>1 DEF OrderInv, SentInv, MarkedIsOnTopic
    <3> QED  BY <1>1, <3>1, <3>2, <3>3 DEF OrderInv, ParkedInv, OrderOfFirstSight, In
  <2>6. CASE DrainFails
    <3>1. /\ UNCHANGED <<staged, marked, dlq>> /\ poller' = [batch |-> {}, sent |-> {}]
          /\ topic' = topic \/ \E e \in poller.batch : NextRow(e) /\ topic' = Append(topic, e)
      BY <2>6 DEF DrainFails, NoBatch, rows
    <3>2. OldestInv' /\ SentInv'
      BY <3>1 DEF OldestInv, SentInv, First
    <3>3. ParkedInv' /\ MarkedIsOnTopic'
      BY <2>1, <3>1 DEF OrderInv, ParkedInv, MarkedIsOnTopic
    <3>4. OrderOfFirstSight'
      <4>1. CASE topic' = topic
        BY <4>1 DEF OrderInv, OrderOfFirstSight
      <4>2. ASSUME NEW e \in poller.batch, NextRow(e), topic' = Append(topic, e)
            PROVE  OrderOfFirstSight'
        <5>1. e \in Nat
          BY <1>1 DEF Shape, Rows
        <5>2. \A f \in 1 .. e : f # e => In(topic, f)
          BY <4>2, <5>1, SendsInOrder
        <5> QED  BY <1>1, <4>2, <5>1, <5>2, AddedInOrder DEF OrderInv, Shape
      <4> QED  BY <3>1, <4>1, <4>2
    <3> QED  BY <1>1, <3>2, <3>3, <3>4 DEF OrderInv
  <2>7. ASSUME NEW g \in Groups, Consume(g) \/ Crash(g) PROVE OrderInv'
    <3>1. UNCHANGED <<staged, marked, poller, topic>>
      BY <2>7 DEF Consume, Poll, Assemble, HandleBatch, BatchFails, PassOver, Handle, HandleFails,
         Failed, Park, Commit, Crash, rows
    <3>2. dlq' = dlq \/ (dlq' = Append(dlq, Message(g)) /\ More(g))
      BY <2>7 DEF Consume, Poll, Assemble, HandleBatch, BatchFails, PassOver, Handle, HandleFails,
         Failed, Park, Hopeless, Commit, Crash
    <3>3. ParkedInv'
      <4>1. CASE dlq' = dlq
        BY <3>1, <4>1 DEF OrderInv, ParkedInv, In
      <4>2. CASE dlq' = Append(dlq, Message(g)) /\ More(g)
        <5>1. Message(g) \in Nat /\ In(topic, Message(g))
          BY <1>1, <4>2, MessageIsThere DEF Shape, In
        <5>2. /\ Len(dlq) \in Nat /\ Len(dlq') = Len(dlq) + 1
              /\ \A i \in 1 .. Len(dlq) : dlq'[i] = dlq[i]
              /\ dlq'[Len(dlq) + 1] = Message(g)
          BY <1>1, <4>2, <5>1 DEF Shape, Log
        <5>3. \A i \in 1 .. Len(dlq') : In(topic, dlq'[i])
          BY <5>1, <5>2 DEF OrderInv, ParkedInv
        <5> QED  BY <3>1, <5>3 DEF ParkedInv, In
      <4> QED  BY <3>2, <4>1, <4>2
    <3> QED
      BY <1>1, <3>1, <3>3 DEF OrderInv, SentInv, OldestInv, MarkedIsOnTopic, OrderOfFirstSight,
         First, Unpublished, In
  <2>8. CASE Republish
    <3>0. PICK e : e = dlq[replay.sent + 1]
      OBVIOUS
    <3>1. /\ UNCHANGED <<staged, marked, poller, dlq>>
          /\ topic' = topic \/ topic' = Append(topic, e)
      BY <2>8, <3>0 DEF Republish, rows
    <3>2. e \in Nat /\ In(topic, e)
      <4>1. replay.sent + 1 \in 1 .. Len(dlq) /\ dlq \in Seq(Nat)
        BY <1>1, <2>8, SMTT(30) DEF Republish, Shape, Log, Replayed
      <4> QED  BY <3>0, <4>1 DEF OrderInv, ParkedInv
    <3>3. OrderOfFirstSight'
      <4>1. CASE topic' = topic
        BY <4>1 DEF OrderInv, OrderOfFirstSight
      <4>2. CASE topic' = Append(topic, e)
        <5>1. PICK i \in 1 .. Len(topic) : topic[i] = e
          BY <3>2 DEF In
        <5>2. ASSUME NEW f \in 1 .. e PROVE In(topic, f)
          <6>1. PICK j \in 1 .. i : topic[j] = f
            BY <5>1 DEF OrderInv, OrderOfFirstSight
          <6>2. j \in 1 .. Len(topic)
            BY <1>1, <5>1, <6>1 DEF Shape, Log
          <6> QED  BY <6>1, <6>2 DEF In
        <5> QED  BY <1>1, <3>2, <4>2, <5>2, AddedInOrder DEF OrderInv, Shape
      <4> QED  BY <3>1, <4>1, <4>2
    <3>4. SentInv' /\ ParkedInv' /\ MarkedIsOnTopic'
      BY <2>1, <3>1 DEF OrderInv, SentInv, ParkedInv, MarkedIsOnTopic
    <3>5. OldestInv'
      BY <3>1 DEF OrderInv, OldestInv, First, Unpublished
    <3> QED  BY <1>1, <3>3, <3>4, <3>5 DEF OrderInv
  <2>9. CASE Fix \/ TakeParked \/ CommitReplay \/ ReplayDies
    <3>1. UNCHANGED <<staged, marked, poller, topic, dlq>>
      BY <2>9 DEF Fix, TakeParked, CommitReplay, ReplayDies, rows
    <3> QED
      BY <1>1, <3>1 DEF OrderInv, SentInv, ParkedInv, OldestInv, MarkedIsOnTopic, OrderOfFirstSight,
         First, Unpublished, In
  <2> QED  BY <1>3, <2>2, <2>3, <2>4, <2>5, <2>6, <2>7, <2>8, <2>9 DEF Next, Publish
<1> QED  BY <1>2, <1>3

\* No row is marked as published that is not on the topic, and the topic shows
\* an order's events first in the order of their staging, with any crashes of
\* the poller, any batch size and any number of replays.
THEOREM OrderCorrect == Spec => [](MarkedIsOnTopic /\ OrderOfFirstSight)
<1>1. OrderInv => MarkedIsOnTopic /\ OrderOfFirstSight
  BY DEF OrderInv
<1> QED  BY <1>1, OrderInit, OrderStep, PTL DEF Spec

----------------------------------------------------------------------------
(* Why a message is parked.  Each failed attempt on a message is charged to  *)
(* its cause: a bug of the handler or a fault of the day.                    *)

Charged(g) ==
    group[g].tries # 0 => /\ More(g)
                          /\ Message(g) \in bug[g] \/ group[g].tries <= faults
HasCause(e) == e \in garbled \/ \E g \in Groups : e \in bug[g]
Tally == faults \in Nat /\ faults <= MaxFaults
CauseInv == Shape /\ Tally /\ (\A g \in Groups : Charged(g)) /\ ParkedForCause

LEMMA CauseInit == Init => CauseInv
<1> SUFFICES ASSUME Init PROVE CauseInv  OBVIOUS
<1>1. dlq = <<>> /\ faults = 0 /\ group = [g \in Groups |-> Rejoin(0)]
  BY DEF Init
<1>2. \A g \in Groups : group[g].tries = 0
  BY <1>1 DEF Rejoin, Consumer
<1> QED
  BY <1>1, <1>2, ShapeInit, PipelineAssumption DEF CauseInv, Tally, Charged, ParkedForCause

LEMMA TallyKept ==
    ASSUME Tally, Next
    PROVE  Tally' /\ faults <= faults' /\ bug' = bug /\ garbled' = garbled
<1> USE DEF weather
<1>1. bug' = bug /\ garbled' = garbled
  BY DEF Next, Publish, Consume, Stage, Drain, Send, Mark, DrainFails, Poll, Assemble,
     HandleBatch, BatchFails, PassOver, Handle, HandleFails, Failed, Park, Commit, Crash, Fix,
     TakeParked, Republish, CommitReplay, ReplayDies
<1>2. faults' = faults \/ (faults < MaxFaults /\ faults' = faults + 1)
  BY DEF Next, Publish, Consume, Stage, Drain, Send, Mark, DrainFails, Poll, Assemble,
     HandleBatch, BatchFails, PassOver, Handle, HandleFails, Failed, Park, Commit, Crash, Fix,
     TakeParked, Republish, CommitReplay, ReplayDies
<1> QED  BY <1>1, <1>2, PipelineAssumption DEF Tally

\* A step of a group forgets the attempts on a message, or makes another one.
LEMMA AttemptsMove ==
    ASSUME Shape, NEW g \in Groups, Consume(g) \/ Crash(g)
    PROVE  group'[g].tries = 0 \/ HandleFails(g)
<1>1. group = [h \in Groups |-> group[h]]
  BY DEF Shape, Places
<1>2. ASSUME NEW done, NEW next, NEW upto, NEW at, Become(g, Consumer(done, next, upto, at, 0))
      PROVE  group'[g].tries = 0
  BY <1>1, <1>2 DEF Become, Consumer
<1>3. ASSUME NEW done, Become(g, Rejoin(done)) PROVE group'[g].tries = 0
  BY <1>2, <1>3 DEF Rejoin
<1>4. ASSUME GoOn(g) PROVE group'[g].tries = 0
  BY <1>2, <1>4 DEF GoOn
<1> QED
  BY <1>2, <1>3, <1>4 DEF Consume, Poll, Assemble, HandleBatch, BatchFails, PassOver, Handle,
     Park, Commit, Crash

LEMMA ChargedMove ==
    ASSUME CauseInv, Next, NEW g \in Groups, Consume(g) \/ Crash(g)
    PROVE  Charged(g)'
<1>1. CASE group'[g].tries = 0
  BY <1>1 DEF Charged
<1>2. CASE HandleFails(g)
  <2>1. /\ group' = [group EXCEPT ![g] = Consumer(group[g].done, group[g].next, group[g].upto,
                                                  group[g].at, group[g].tries + 1)]
        /\ topic' = topic /\ More(g)
        /\ Message(g) \in Broken(g) \/ faults' = faults + 1
    BY <1>2 DEF HandleFails, Failed, Become, Trying
  <2>2. /\ group'[g].next = group[g].next /\ group'[g].upto = group[g].upto
        /\ group'[g].tries = group[g].tries + 1
    BY <2>1 DEF CauseInv, Shape, Places, Consumer
  <2>3. More(g)' /\ Message(g)' = Message(g)
    BY <2>1, <2>2 DEF More, Message
  <2>4. Broken(g) \subseteq bug[g]
    BY DEF Broken
  <2>5. group[g].tries \in Nat /\ faults \in Nat /\ bug' = bug /\ faults <= faults' /\ faults' \in Nat
    BY TallyKept DEF CauseInv, Shape, Places, Tally
  <2>6. Charged(g)
    BY DEF CauseInv
  <2> QED  BY <2>1, <2>2, <2>3, <2>4, <2>5, <2>6 DEF Charged
<1> QED  BY <1>1, <1>2, AttemptsMove DEF CauseInv

LEMMA ChargedRests ==
    ASSUME CauseInv, Next, NEW g \in Groups, group'[g] = group[g]
    PROVE  Charged(g)'
<1>1. Charged(g) /\ Shape
  BY DEF CauseInv
<1>2. CASE group[g].tries # 0
  <2>1. More(g) /\ More(g)'
    BY <1>1, <1>2 DEF Charged, More
  <2>2. group[g].next + 1 \in 1 .. Len(topic)
    BY <1>1, <2>1, MessageIsThere DEF Shape
  <2>3. Message(g)' = Message(g)
    BY <1>1, <2>2, StaysSeen DEF Message
  <2>4. group[g].tries \in Nat /\ faults \in Nat /\ bug' = bug /\ faults <= faults' /\ faults' \in Nat
    BY TallyKept DEF CauseInv, Shape, Places, Tally
  <2> QED  BY <1>1, <1>2, <2>1, <2>3, <2>4 DEF Charged
<1> QED  BY <1>2 DEF Charged

\* What is parked has a cause, unless the faults alone use the attempts up.
LEMMA ParksForCause ==
    ASSUME CauseInv, Next, MaxFaults < MaxAttempts
    PROVE  dlq' = dlq \/ \E e : HasCause(e) /\ dlq' = Append(dlq, e)
<1>1. CASE dlq' = dlq
  BY <1>1
<1>2. ASSUME NEW g \in Groups, Assemble(g), dlq' # dlq
      PROVE  \E e : HasCause(e) /\ dlq' = Append(dlq, e)
  BY <1>2 DEF Assemble, HasCause
<1>3. ASSUME NEW g \in Groups, Park(g)
      PROVE  \E e : HasCause(e) /\ dlq' = Append(dlq, e)
  <2>1. dlq' = Append(dlq, Message(g)) /\ Hopeless(g)
    BY <1>3 DEF Park
  <2>2. ASSUME group[g].tries = MaxAttempts PROVE Message(g) \in bug[g]
    <3>1. Charged(g) /\ Tally
      BY DEF CauseInv
    <3> QED  BY <2>2, <3>1, PipelineAssumption DEF Charged, Tally
  <2> QED  BY <2>1, <2>2 DEF Hopeless, HasCause
<1>4. \/ dlq' = dlq
      \/ \E g \in Groups : Assemble(g) \/ Park(g)
  BY DEF Next, Publish, Consume, Stage, Drain, Send, Mark, DrainFails, Poll, HandleBatch,
     BatchFails, PassOver, Handle, HandleFails, Failed, Commit, Crash, Fix, TakeParked, Republish,
     CommitReplay, ReplayDies
<1> QED  BY <1>1, <1>2, <1>3, <1>4

LEMMA CauseStep == CauseInv /\ [Next]_vars => CauseInv'
<1> SUFFICES ASSUME CauseInv, [Next]_vars PROVE CauseInv'  OBVIOUS
<1>1. Shape /\ Shape'
  BY ShapeStep DEF CauseInv
<1>2. CASE UNCHANGED vars
  BY <1>1, <1>2 DEF CauseInv, Tally, Charged, More, Message, ParkedForCause, vars, weather
<1>3. CASE Next
  <2>1. Tally' /\ garbled' = garbled /\ bug' = bug
    BY <1>3, TallyKept DEF CauseInv
  <2>2. ASSUME NEW g \in Groups PROVE Charged(g)'
    <3>1. CASE \E h \in Groups : Consume(h) \/ Crash(h)
      <4>1. PICK h \in Groups : Consume(h) \/ Crash(h)
        BY <3>1
      <4>2. CASE h # g
        <5>1. group'[g] = group[g]
          BY <1>1, <4>1, <4>2, PlaceStep DEF Moved, Shape, Places
        <5> QED  BY <1>3, <5>1, ChargedRests
      <4> QED  BY <1>3, <4>1, <4>2, ChargedMove
    <3>2. CASE group' = group
      BY <1>3, <3>2, ChargedRests
    <3> QED
      BY <1>3, <3>1, <3>2 DEF Next, Publish, Stage, Drain, Send, Mark, DrainFails, Fix, TakeParked,
         Republish, CommitReplay, ReplayDies
  <2>3. ParkedForCause'
    <3> SUFFICES ASSUME MaxFaults < MaxAttempts, NEW i \in 1 .. Len(dlq') PROVE HasCause(dlq'[i])
      BY <2>1 DEF ParkedForCause, HasCause
    <3>1. \A j \in 1 .. Len(dlq) : HasCause(dlq[j])
      BY DEF CauseInv, ParkedForCause, HasCause
    <3>2. CASE dlq' = dlq
      BY <3>1, <3>2
    <3>3. ASSUME NEW e, HasCause(e), dlq' = Append(dlq, e) PROVE HasCause(dlq'[i])
      <4>1. Len(dlq) \in Nat /\ Len(dlq') = Len(dlq) + 1 /\ dlq'[Len(dlq) + 1] = e
        BY <1>1, <3>3, SMTT(30) DEF Shape, Log
      <4>2. \A j \in 1 .. Len(dlq) : dlq'[j] = dlq[j]
        BY <1>1, <3>3 DEF Shape, Log
      <4>3. i \in 1 .. Len(dlq) \/ i = Len(dlq) + 1
        BY <4>1
      <4> QED  BY <3>1, <3>3, <4>1, <4>2, <4>3
    <3> QED  BY <1>3, <3>2, <3>3, ParksForCause
  <2> QED  BY <1>1, <2>1, <2>2, <2>3 DEF CauseInv
<1> QED  BY <1>2, <1>3

\* With fewer faults than attempts, no healthy event is ever parked: neither
\* the failures of its batch, nor those of another group or of an earlier run
\* count against it (consume_batches_once, _process and their attempts).
THEOREM ParksWithCause == Spec => []ParkedForCause
<1>1. CauseInv => ParkedForCause
  BY DEF CauseInv
<1> QED  BY <1>1, CauseInit, CauseStep, PTL DEF Spec
=============================================================================
