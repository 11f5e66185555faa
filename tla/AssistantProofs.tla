-------------------------- MODULE AssistantProofs --------------------------
(***************************************************************************)
(* Theorems about the assistant's service.                                 *)
(*                                                                         *)
(* Assistant, for any panels, customers, passages, providers, bounds and   *)
(* faults: a settled answer has one interaction fact that says how it      *)
(* ended, and a reader the turn waited for has heard all of it.  A turn is *)
(* looked at alone: its request k, its task r, its row w, its reader d and *)
(* its facts f.                                                            *)
(*                                                                         *)
(* Recommend, for any customers, orders, menus and window: a credit is     *)
(* given once, and a list called personal is.                              *)
(*                                                                         *)
(* Studio, for any drafts, consoles, jobs and faults: what is recorded as  *)
(* published was on the menu, a decision stands and was truly told, and a  *)
(* queued draft has its job.                                               *)
(***************************************************************************)
EXTENDS Assistant, Studio, Integers, FiniteSetTheorems, SequenceTheorems, TLAPS

-----------------------------------------------------------------------------
(* Turns. *)

Before == {"guard", "retrieve", "generate", "answer", "settle"}
Quiet(r) == r.mishaps \cap {"alone", "muted"} = {}

\* What the answer of a turn is made of, when the graph has stopped.
Stopped(r, spoken) ==
    \/ r.stopped = "refused" /\ r.answer = {REFUSAL}
    \/ r.stopped = "no_match" /\ r.answer = {NO_MATCH}
    \/ r.stopped = "" /\ r.answer \subseteq spoken

\* Where the task may be, and what it carries there.
TaskOk(r) ==
    /\ r.at \in {"none", "guard", "retrieve"} => r.said = {} /\ r.held = {}
    /\ r.at = "none" => ~r.waited
    /\ r.at = "generate" => r.said \cup r.held \subseteq Spoken
    /\ r.at \in {"none", "guard", "retrieve", "generate"} => r.stopped = "" /\ r.item_ids = {}
    /\ r.at = "answer" =>
          /\ Stopped(r, Spoken)
          /\ IF r.stopped = "" THEN r.answer = r.said \cup r.held
                               ELSE r.said = {} /\ r.held = {}
    /\ r.at = "settle" => /\ Stopped(r, Spoken \cup {CITATIONS_ONLY})
                          /\ r.answer = r.said /\ r.held = {} /\ r.said # {}
    /\ r.item_ids \subseteq r.candidates
    /\ ~r.waited => r.said = {}

\* The row beside the task: settled once, and with what was said.
RowOk(r, w, f) ==
    /\ w.status = "none" <=> r.at = "none"
    /\ r.at \in Before => w.status = "streaming"
    /\ w.status \in {"none", "streaming"} => w.content = {} /\ w.item_ids = {}
    /\ w.status = "failed" /\ r.at # "over" => r.at = "close" /\ w.content = r.said
    /\ w.status = "complete" /\ r.at # "over" =>
          /\ r.held = {} /\ w.content # {} /\ w.content \subseteq r.said
          /\ r.said \subseteq w.content \cup {TRUNCATED} /\ w.item_ids = r.item_ids
    /\ r.at = "close" => \/ w.status \in {"complete", "failed"}
                         \/ r.mishaps \cap {"unwritten", "cancelled", "muted"} # {}
    /\ w.item_ids \subseteq r.candidates
    /\ f = CASE w.status \in {"none", "streaming"} -> <<>>
             [] w.status = "failed" -> <<"failed">>
             [] w.status = "complete" ->
                  <<CASE w.content = {REFUSAL} -> "refused"
                      [] w.content = {NO_MATCH} -> "no_match"
                      [] OTHER -> "answered">>

\* What the reader heard of the task, while it lasts and at its end.
ReaderOk(k, r, w, d) ==
    /\ k \in {"idle", "sent"} => r.at = "none"
    /\ k = "ok" => r.at # "none"
    /\ k # "read" => d = NoReader
    /\ d.at = "none" => d.got = {} /\ (r.waited /\ r.at \in Live => "alone" \in r.mishaps)
    /\ d.at = "attached" /\ r.at \in Live /\ Quiet(r) => d.got = r.said
    /\ d.at # "none" => r.at # "none"
    /\ d.cards \subseteq r.candidates /\ (d.at # "ended" => d.cards = {})
    /\ d.at = "ended" => r.at = "over"
    /\ d.at = "ended" /\ Quiet(r) =>
          /\ \/ w.status \in {"complete", "failed"}
             \/ r.mishaps \cap {"unwritten", "cancelled"} # {}
          /\ w.content \subseteq d.got
          /\ w.status = "complete" => /\ d.got \ w.content \subseteq {TRUNCATED}
                                      /\ d.item_ids = w.item_ids

TurnOk(k, r, w, d, f) == TaskOk(r) /\ RowOk(r, w, f) /\ ReaderOk(k, r, w, d)
TurnInv == \A t \in Turns : TurnOk(ask[t].at, run[t], row[t], reader[t], facts[t])

-----------------------------------------------------------------------------
(* One step moves one turn: what the others need. *)

\* A step of turn t's task leaves the other turns, the tabs and the requests alone.
Step(t) ==
    /\ \A s \in Turns \ {t} : run'[s] = run[s] /\ row'[s] = row[s]
                            /\ reader'[s] = reader[s] /\ facts'[s] = facts[s]
    /\ run' \in [Turns -> Run] /\ row' \in [Turns -> Row]
    /\ facts' \in [Turns -> Seq(Outcomes)] /\ reader' \in [Turns -> Reader]
    /\ faults' \in 0..MaxFaults
    /\ UNCHANGED <<panel, ask, owner, filed, switches>>

\* A step of one turn's task that leaves that turn right leaves all right.
LEMMA OneTurn ==
    ASSUME TypeOK, TurnInv, NEW t \in Turns, Step(t),
           TurnOk(ask[t].at, run'[t], row'[t], reader'[t], facts'[t])
    PROVE  TypeOK' /\ TurnInv'
<1>1. TypeOK'
  BY DEF TypeOK, Step
<1>2. ASSUME NEW s \in Turns
      PROVE  TurnOk(ask[s].at, run'[s], row'[s], reader'[s], facts'[s])
  BY DEF TurnInv, Step
<1> QED
  BY <1>1, <1>2 DEF TurnInv, Step

\* Most nodes of the graph only move the task on.
LEMMA TaskStep ==
    ASSUME TypeOK, TurnInv, NEW t \in Turns, NEW n \in Run, run' = [run EXCEPT ![t] = n],
           UNCHANGED <<panel, ask, owner, filed, row, facts, reader, switches>>,
           faults' \in 0..MaxFaults,
           TurnOk(ask[t].at, n, row[t], reader[t], facts[t])
    PROVE  TypeOK' /\ TurnInv'
<1>1. run' \in [Turns -> Run] /\ run'[t] = n /\ \A s \in Turns \ {t} : run'[s] = run[s]
  BY DEF TypeOK
<1>2. Step(t)
  BY <1>1 DEF TypeOK, Step
<1>3. TurnOk(ask[t].at, run'[t], row'[t], reader'[t], facts'[t])
  BY <1>1
<1> QED
  BY <1>2, <1>3, OneTurn

\* A task that moves on with its words and its wait has the reader it had.
LEMMA MoveOk ==
    ASSUME NEW k, NEW r, NEW n, NEW w, NEW x, NEW d, ReaderOk(k, r, w, d), r.at \in Live,
           n.at \in Live, n.said = r.said, n.waited = r.waited, r.mishaps \subseteq n.mishaps
    PROVE  ReaderOk(k, n, x, d)
<1>1. r.at \notin {"none", "over"} /\ n.at \notin {"none", "over"}
  BY DEF Live
<1>2. d.at # "ended" /\ d.cards = {} /\ k \notin {"idle", "sent"}
  BY <1>1 DEF ReaderOk
<1>3. Quiet(n) => Quiet(r)
  BY DEF Quiet
<1> QED
  BY <1>1, <1>2, <1>3 DEF ReaderOk

\* The failover order is a sequence, so it has a length.
LEMMA LenIs == Len(Specs) \in Nat
BY SpecsAreNamed

\* A fault is counted while the budget lasts.
LEMMA FaultIs == ASSUME faults \in 0..MaxFaults PROVE /\ Fault => faults' \in 0..MaxFaults
                                                  /\ UNCHANGED faults => faults' \in 0..MaxFaults
BY BoundsAreNat DEF Fault

\* The pieces are apart: no chunk is a sentence of the graph's own.
LEMMA PiecesApart ==
    /\ {REFUSAL, NO_MATCH, CITATIONS_ONLY, TRUNCATED, UNAVAILABLE} \cap Spoken = {}
    /\ REFUSAL # NO_MATCH /\ REFUSAL # CITATIONS_ONLY /\ NO_MATCH # CITATIONS_ONLY
    /\ {REFUSAL, NO_MATCH, CITATIONS_ONLY, TRUNCATED, UNAVAILABLE} \subseteq Pieces
    /\ Spoken \subseteq Pieces
<1>1. \A i \in 1..Len(Specs), n \in 1..MaxChunks : n # 0
  BY BoundsAreNat
<1>2. \A a, b, m, n : Piece(a, m) = Piece(b, n) => a = b /\ m = n
  BY DEF Piece
<1>3. \A p \in Spoken : \E a, n : p = Piece(a, n) /\ n # 0
  BY <1>1 DEF Spoken
<1>4. {REFUSAL, NO_MATCH, CITATIONS_ONLY, TRUNCATED, UNAVAILABLE} \cap Spoken = {}
  <2> SUFFICES ASSUME NEW p \in {REFUSAL, NO_MATCH, CITATIONS_ONLY, TRUNCATED, UNAVAILABLE},
                      p \in Spoken
               PROVE  FALSE
    OBVIOUS
  <2>1. PICK a : p = Piece(a, 0)
    BY DEF REFUSAL, NO_MATCH, CITATIONS_ONLY, TRUNCATED, UNAVAILABLE
  <2>2. PICK b, n : p = Piece(b, n) /\ n # 0
    BY <1>3
  <2> QED
    BY <1>2, <2>1, <2>2
<1>5. REFUSAL # NO_MATCH /\ REFUSAL # CITATIONS_ONLY /\ NO_MATCH # CITATIONS_ONLY
  BY <1>2 DEF REFUSAL, NO_MATCH, CITATIONS_ONLY
<1> QED
  BY <1>4, <1>5 DEF Pieces

\* What _write leaves: the task n and the reader d, from r and d0.
Wrote(r, n, d0, d, pieces, next, broken) ==
    /\ n.waited = TRUE /\ n.said = r.said \cup pieces /\ n.held = {}
    /\ n.candidates = r.candidates /\ n.answer = r.answer /\ n.item_ids = r.item_ids
    /\ n.stopped = r.stopped /\ r.mishaps \subseteq n.mishaps
    /\ ~r.waited /\ d0.at # "attached" => "alone" \in n.mishaps
    /\ n.at = next \/ (n.at = broken /\ "muted" \in n.mishaps)
    /\ d.at = d0.at /\ d.cards = d0.cards /\ d.item_ids = d0.item_ids
    /\ d.at = "attached" /\ Quiet(n) => d.got = d0.got \cup pieces
    /\ d.at # "attached" => d = d0

\* Publisher._write changes one task and one reader, and this much of them.
LEMMA WriteIs ==
    ASSUME TypeOK, NEW t \in Turns, NEW r \in Run, NEW pieces \in SUBSET Pieces,
           NEW next \in Live, NEW broken \in Live, _write(t, pieces, r, next, broken)
    PROVE  /\ run' \in [Turns -> Run] /\ reader' \in [Turns -> Reader]
           /\ \A s \in Turns \ {t} : run'[s] = run[s] /\ reader'[s] = reader[s]
           /\ faults' \in 0..MaxFaults
           /\ Wrote(r, run'[t], reader[t], reader'[t], pieces, next, broken)
<1>1. PICK w : w = [wait_for_reader(t, r) EXCEPT !.said = @ \cup pieces, !.held = {}]
  OBVIOUS
<1>2. /\ w \in Run /\ w.waited = TRUE /\ w.said = r.said \cup pieces /\ w.held = {}
      /\ w.candidates = r.candidates /\ w.answer = r.answer /\ w.item_ids = r.item_ids
      /\ w.stopped = r.stopped /\ r.mishaps \subseteq w.mishaps
      /\ ~r.waited /\ reader[t].at # "attached" => "alone" \in w.mishaps
  BY <1>1 DEF Run, wait_for_reader, Mishaps
<1>3. reader \in [Turns -> Reader] /\ run \in [Turns -> Run] /\ faults \in 0..MaxFaults
  BY DEF TypeOK
<1>4. CASE /\ run' = [run EXCEPT ![t] = [w EXCEPT !.at = next]]
           /\ reader' = [reader EXCEPT ![t].got = IF reader[t].at = "attached"
                                                  THEN @ \cup pieces ELSE @]
           /\ UNCHANGED faults
  <2>1. PICK n : n = [w EXCEPT !.at = next]
    OBVIOUS
  <2>2. n \in Run /\ n.at = next /\ n.waited = w.waited /\ n.said = w.said /\ n.held = w.held
        /\ n.candidates = w.candidates /\ n.answer = w.answer /\ n.item_ids = w.item_ids
        /\ n.stopped = w.stopped /\ n.mishaps = w.mishaps
    BY <1>2, <2>1 DEF Run, Live
  <2>3. run' = [run EXCEPT ![t] = n]
    BY <1>4, <2>1
  <2>4. PICK d : d = [reader[t] EXCEPT !.got = IF reader[t].at = "attached"
                                               THEN @ \cup pieces ELSE @]
    OBVIOUS
  <2>5. /\ d \in Reader /\ d.at = reader[t].at /\ d.cards = reader[t].cards
        /\ d.item_ids = reader[t].item_ids
        /\ d.at = "attached" => d.got = reader[t].got \cup pieces
        /\ d.at # "attached" => d = reader[t]
    BY <1>3, <2>4 DEF Reader
  <2>6. reader' = [reader EXCEPT ![t] = d]
    BY <1>3, <1>4, <2>4
  <2>7. /\ run' \in [Turns -> Run] /\ run'[t] = n
        /\ \A s \in Turns \ {t} : run'[s] = run[s]
    BY <1>3, <2>2, <2>3
  <2>8. /\ reader' \in [Turns -> Reader] /\ reader'[t] = d
        /\ \A s \in Turns \ {t} : reader'[s] = reader[s]
    BY <1>3, <2>5, <2>6
  <2>9. Wrote(r, n, reader[t], d, pieces, next, broken)
    BY <1>2, <2>2, <2>5 DEF Wrote
  <2> QED
    BY <1>3, <1>4, <2>7, <2>8, <2>9
<1>5. CASE /\ run' = [run EXCEPT ![t] = [w EXCEPT !.at = broken, !.mishaps = w.mishaps \cup {"muted"}]]
           /\ Fault /\ UNCHANGED reader
  <2>1. PICK n : n = [w EXCEPT !.at = broken, !.mishaps = w.mishaps \cup {"muted"}]
    OBVIOUS
  <2>2. n \in Run /\ n.at = broken /\ n.waited = w.waited /\ n.said = w.said /\ n.held = w.held
        /\ n.candidates = w.candidates /\ n.answer = w.answer /\ n.item_ids = w.item_ids
        /\ n.stopped = w.stopped /\ n.mishaps = w.mishaps \cup {"muted"}
    BY <1>2, <2>1 DEF Run, Live, Mishaps
  <2>3. run' = [run EXCEPT ![t] = n]
    BY <1>5, <2>1
  <2>4. ~Quiet(n)
    BY <2>2 DEF Quiet
  <2>5. /\ run' \in [Turns -> Run] /\ run'[t] = n
        /\ \A s \in Turns \ {t} : run'[s] = run[s]
    BY <1>3, <2>2, <2>3
  <2>6. Wrote(r, n, reader[t], reader[t], pieces, next, broken)
    BY <1>2, <2>2, <2>4 DEF Wrote
  <2>0. Fault /\ reader' = reader
    BY <1>5, Zenon
  <2>7. reader' = reader /\ faults' \in 0..MaxFaults
    <3>1. faults' \in 0..MaxFaults
      BY <1>3, <2>0, BoundsAreNat DEF Fault
    <3> QED
      BY <2>0, <3>1
  <2>8. Wrote(r, run'[t], reader[t], reader'[t], pieces, next, broken)
    BY <2>5, <2>6, <2>7
  <2> QED
    BY <1>3, <2>5, <2>7, <2>8
<1> QED
  BY <1>1, <1>4, <1>5 DEF _write

\* The reader of a turn that wrote has heard it.
LEMMA HeardOk ==
    ASSUME NEW k, NEW r, NEW n, NEW w, NEW d0, NEW d, NEW pieces, NEW next \in Live,
           NEW broken \in Live, ReaderOk(k, r, w, d0), Wrote(r, n, d0, d, pieces, next, broken),
           r.at \in Live, ~r.waited => r.said = {}, r.waited \in BOOLEAN
    PROVE  ReaderOk(k, n, w, d)
<1>1. n.at \in Live /\ n.at # "none" /\ r.at # "none" /\ r.at # "over" /\ (Quiet(n) => Quiet(r))
  BY DEF Wrote, Live, Quiet
<1>2. k \notin {"idle", "sent"} /\ d0.at # "ended" /\ d.at = d0.at /\ d.cards = {}
  BY <1>1 DEF ReaderOk, Wrote
<1>3. k # "read" => d = NoReader
  BY DEF ReaderOk, Wrote, NoReader
<1>4. d.at = "none" => d.got = {} /\ "alone" \in n.mishaps
  BY DEF ReaderOk, Wrote
<1>5. d.at = "attached" /\ Quiet(n) => d.got = n.said
  BY <1>1, <1>2 DEF ReaderOk, Wrote
<1> QED
  BY <1>1, <1>2, <1>3, <1>4, <1>5 DEF ReaderOk

\* So a step that writes only has its task and its row to answer for.
LEMMA WriteStep ==
    ASSUME TypeOK, TurnInv, NEW t \in Turns, NEW r \in Run, NEW pieces \in SUBSET Pieces,
           NEW next \in Live, NEW broken \in Live, _write(t, pieces, r, next, broken),
           run[t].at \in Live, r.at = run[t].at, r.said = run[t].said, r.waited = run[t].waited,
           r.mishaps = run[t].mishaps, r.candidates = run[t].candidates,
           UNCHANGED <<panel, ask, owner, filed, row, facts, switches>>,
           \A n \in Run : (\E d : Wrote(r, n, reader[t], d, pieces, next, broken)) =>
                            TaskOk(n) /\ RowOk(n, row[t], facts[t])
    PROVE  TypeOK' /\ TurnInv'
<1>1. TurnOk(ask[t].at, run[t], row[t], reader[t], facts[t])
  BY DEF TurnInv
<1>2. run[t] \in Run
  BY DEF TypeOK
<1>3. ReaderOk(ask[t].at, r, row[t], reader[t])
  BY <1>1, MoveOk DEF TurnOk
<1>4. (~r.waited => r.said = {}) /\ r.waited \in BOOLEAN
  BY <1>1, <1>2 DEF TurnOk, TaskOk, Run
<1>5. /\ run' \in [Turns -> Run] /\ reader' \in [Turns -> Reader]
      /\ \A s \in Turns \ {t} : run'[s] = run[s] /\ reader'[s] = reader[s]
      /\ faults' \in 0..MaxFaults
      /\ Wrote(r, run'[t], reader[t], reader'[t], pieces, next, broken)
  BY WriteIs
<1>6. ReaderOk(ask[t].at, run'[t], row[t], reader'[t])
  BY <1>3, <1>4, <1>5, HeardOk
<1>7. run'[t] \in Run
  BY <1>5
<1>8. TurnOk(ask[t].at, run'[t], row'[t], reader'[t], facts'[t])
  BY <1>5, <1>6, <1>7 DEF TurnOk
<1>9. Step(t)
  BY <1>5 DEF TypeOK, Step
<1> QED
  BY <1>8, <1>9, OneTurn

-----------------------------------------------------------------------------
(* The graph's nodes. *)

\* guard: on to retrieval, or to the refusal.
LEMMA GuardOk ==
    ASSUME TypeOK, TurnInv, NEW t \in Turns, guard(t) PROVE TypeOK' /\ TurnInv'
<1> DEFINE r == run[t]
           n == IF safety_check(t)
                THEN [r EXCEPT !.at = "answer", !.answer = {REFUSAL}, !.stopped = "refused"]
                ELSE [r EXCEPT !.at = "retrieve"]
<1>1. r \in Run /\ r.at = "guard" /\ run' = [run EXCEPT ![t] = n]
  BY DEF TypeOK, guard, Turn
<1>2. TaskOk(r) /\ RowOk(r, row[t], facts[t]) /\ ReaderOk(ask[t].at, r, row[t], reader[t])
  BY DEF TurnInv, TurnOk
<1>3. /\ n \in Run /\ n.at \in {"answer", "retrieve"}
      /\ n.said = r.said /\ n.held = r.held /\ n.item_ids = r.item_ids
      /\ n.waited = r.waited /\ n.mishaps = r.mishaps /\ n.candidates = r.candidates
      /\ n.at = "answer" => n.answer = {REFUSAL} /\ n.stopped = "refused"
      /\ n.at = "retrieve" => n.stopped = r.stopped
  BY <1>1, PiecesApart DEF Run, Live
<1>4. TaskOk(n) /\ RowOk(n, row[t], facts[t])
  BY <1>1, <1>2, <1>3 DEF TaskOk, RowOk, Stopped, Before
<1>5. ReaderOk(ask[t].at, n, row[t], reader[t])
  BY <1>1, <1>2, <1>3, MoveOk DEF Live
<1>6. faults' \in 0..MaxFaults
  BY DEF guard, TypeOK
<1> QED
  BY <1>1, <1>3, <1>4, <1>5, <1>6, TaskStep DEF guard, TurnOk

\* retrieve_node: candidates, nothing found, or a retriever that fails.
LEMMA RetrieveOk ==
    ASSUME TypeOK, TurnInv, NEW t \in Turns, retrieve_node(t) PROVE TypeOK' /\ TurnInv'
<1> DEFINE r == run[t]
<1>1. r \in Run /\ r.at = "retrieve" /\ faults \in 0..MaxFaults /\ run \in [Turns -> Run]
  BY DEF TypeOK, retrieve_node, Turn
<1>2. TaskOk(r) /\ RowOk(r, row[t], facts[t]) /\ ReaderOk(ask[t].at, r, row[t], reader[t])
  BY DEF TurnInv, TurnOk
<1> DEFINE Next3(n) ==
             /\ n.at \in {"answer", "generate", "failing"}
             /\ n.said = r.said /\ n.held = r.held /\ n.item_ids = r.item_ids
             /\ n.waited = r.waited /\ n.mishaps = r.mishaps
             /\ n.at = "answer" => n.answer = {NO_MATCH} /\ n.stopped = "no_match"
             /\ n.at = "generate" => n.stopped = r.stopped
<1>3. \E n \in Run : run' = [run EXCEPT ![t] = n] /\ Next3(n)
  <2>1. CASE Goto(t, "failing")
    <3>1. PICK n : n = [r EXCEPT !.at = "failing"]
      OBVIOUS
    <3>2. n \in Run /\ Next3(n)
      BY <1>1, <3>1 DEF Run, Live
    <3> QED
      BY <1>1, <2>1, <3>1, <3>2 DEF Goto
  <2>2. ASSUME NEW found \in retrieve,
               run' = [run EXCEPT ![t] =
                        IF found = {}
                        THEN [@ EXCEPT !.at = "answer", !.answer = {NO_MATCH}, !.stopped = "no_match"]
                        ELSE [@ EXCEPT !.at = "generate", !.candidates = found]]
        PROVE  \E n \in Run : run' = [run EXCEPT ![t] = n] /\ Next3(n)
    <3>1. PICK n : n = IF found = {}
                       THEN [r EXCEPT !.at = "answer", !.answer = {NO_MATCH}, !.stopped = "no_match"]
                       ELSE [r EXCEPT !.at = "generate", !.candidates = found]
      OBVIOUS
    <3>2. n \in Run /\ Next3(n)
      BY <1>1, <3>1, PiecesApart DEF Run, Live, retrieve
    <3> QED
      BY <1>1, <2>2, <3>1, <3>2
  <2> HIDE DEF Next3
  <2> QED
    BY <2>1, <2>2 DEF retrieve_node
<1>4. PICK n \in Run : run' = [run EXCEPT ![t] = n] /\ Next3(n)
  BY <1>3
<1>5. TaskOk(n) /\ RowOk(n, row[t], facts[t])
  BY <1>1, <1>2, <1>4 DEF TaskOk, RowOk, Stopped, Before
<1>6. ReaderOk(ask[t].at, n, row[t], reader[t])
  BY <1>1, <1>2, <1>4, MoveOk DEF Live
<1>7. faults' \in 0..MaxFaults
  <2>1. Fault \/ UNCHANGED faults
    BY Zenon DEF retrieve_node
  <2> QED
    BY <1>1, <2>1, BoundsAreNat DEF Fault
<1> QED
  BY <1>4, <1>5, <1>6, <1>7, TaskStep DEF retrieve_node, TurnOk

\* generate: a chunk is held, or what is safe of it is written.
LEMMA GenerateOk ==
    ASSUME TypeOK, TurnInv, NEW t \in Turns, generate(t) PROVE TypeOK' /\ TurnInv'
<1> DEFINE r == [run[t] EXCEPT !.chunks = @ + 1]
           piece == Piece(Specs[r.spec], r.chunks)
<1>1. run[t] \in Run /\ run[t].at = "generate" /\ faults \in 0..MaxFaults
  BY DEF TypeOK, generate, Turn
<1>2. /\ TaskOk(run[t]) /\ RowOk(run[t], row[t], facts[t])
      /\ ReaderOk(ask[t].at, run[t], row[t], reader[t])
  BY DEF TurnInv, TurnOk
<1>a. run[t].spec <= Len(Specs) /\ run[t].chunks + 1 <= MaxChunks
  <2>1. r.spec <= Len(Specs) /\ r.chunks <= MaxChunks
    BY Zenon DEF generate
  <2>2. r.spec = run[t].spec /\ r.chunks = run[t].chunks + 1
    BY <1>1 DEF Run
  <2> QED
    BY <2>1, <2>2
<1>3. /\ r \in Run /\ r.at = "generate" /\ r.said = run[t].said /\ r.held = run[t].held
      /\ r.waited = run[t].waited /\ r.mishaps = run[t].mishaps /\ r.stopped = run[t].stopped
      /\ r.candidates = run[t].candidates /\ r.item_ids = run[t].item_ids
      /\ r.spec = run[t].spec /\ r.spec \in 1..Len(Specs) /\ r.chunks \in 1..MaxChunks
  <2>1. /\ run[t].spec \in 1..(Len(Specs) + 1) /\ run[t].chunks \in 0..MaxChunks
    BY <1>1 DEF Run
  <2>2. run[t].spec \in 1..Len(Specs) /\ run[t].chunks + 1 \in 1..MaxChunks
        /\ run[t].chunks + 1 \in 0..MaxChunks
    BY <1>a, <2>1, LenIs, BoundsAreNat
  <2> QED
    BY <1>1, <2>2 DEF Run
<1>4. piece \in Spoken
  BY <1>3 DEF Spoken
<1> HIDE DEF r, piece
<1>5. PICK stripped \in push(r.held, piece) :
        IF stripped.out = {}
        THEN run' = [run EXCEPT ![t] = [r EXCEPT !.held = stripped.held]] /\ UNCHANGED <<reader, faults>>
        ELSE _write(t, stripped.out, r, "generate", "failing")
  BY DEF generate, r, piece
<1>6. stripped.out \subseteq Spoken /\ stripped.held \subseteq Spoken
  <2>1. stripped \in push(r.held, piece)
    BY <1>5, Zenon
  <2>2. r.held \subseteq Spoken
    BY <1>1, <1>2, <1>3 DEF TaskOk
  <2> QED
    BY <1>4, <2>1, <2>2 DEF push
<1>7. UNCHANGED <<panel, ask, owner, filed, row, facts, switches>>
  BY DEF generate
<1>8. CASE stripped.out = {}
  <2>1. PICK n : n = [r EXCEPT !.held = stripped.held]
    OBVIOUS
  <2>2. /\ n \in Run /\ n.at = r.at /\ n.said = r.said /\ n.held = stripped.held
        /\ n.waited = r.waited /\ n.mishaps = r.mishaps /\ n.stopped = r.stopped
        /\ n.candidates = r.candidates /\ n.item_ids = r.item_ids
    BY <1>3, <1>6, <2>1, PiecesApart DEF Run
  <2>3. TaskOk(n) /\ RowOk(n, row[t], facts[t])
    BY <1>1, <1>2, <1>3, <1>6, <2>2 DEF TaskOk, RowOk, Before
  <2>4. ReaderOk(ask[t].at, n, row[t], reader[t])
    BY <1>1, <1>2, <1>3, <2>2, MoveOk DEF Live
  <2>5. run' = [run EXCEPT ![t] = n] /\ UNCHANGED <<reader, faults>>
    BY <1>5, <1>8, <2>1
  <2> QED
    BY <1>1, <1>7, <2>2, <2>3, <2>4, <2>5, TaskStep DEF TurnOk
<1>9. CASE stripped.out # {}
  <2>1. ASSUME NEW n \in Run, NEW d, Wrote(r, n, reader[t], d, stripped.out, "generate", "failing")
        PROVE  TaskOk(n) /\ RowOk(n, row[t], facts[t])
    BY <1>1, <1>2, <1>3, <1>6, <2>1 DEF Wrote, TaskOk, RowOk, Before
  <2>2. _write(t, stripped.out, r, "generate", "failing") /\ stripped.out \in SUBSET Pieces
    BY <1>5, <1>6, <1>9, PiecesApart
  <2>3. "generate" \in Live /\ "failing" \in Live
    BY DEF Live
  <2> QED
    BY <1>1, <1>3, <1>7, <2>1, <2>2, <2>3, WriteStep
<1> QED
  BY <1>8, <1>9

\* router.stream: the next provider, or the turn fails.
LEMMA ProviderFailsOk ==
    ASSUME TypeOK, TurnInv, NEW t \in Turns, ProviderFails(t) PROVE TypeOK' /\ TurnInv'
<1> DEFINE r == run[t]
<1>1. r \in Run /\ r.at = "generate" /\ run \in [Turns -> Run]
  BY DEF TypeOK, ProviderFails, Turn
<1>2. TaskOk(r) /\ RowOk(r, row[t], facts[t]) /\ ReaderOk(ask[t].at, r, row[t], reader[t])
  BY DEF TurnInv, TurnOk
<1>3. PICK n : n = IF r.chunks = 0 /\ r.spec < Len(Specs)
                   THEN [r EXCEPT !.spec = r.spec + 1] ELSE [r EXCEPT !.at = "failing"]
  OBVIOUS
<1>4. /\ n \in Run /\ n.at \in {"generate", "failing"}
      /\ n.said = r.said /\ n.held = r.held /\ n.item_ids = r.item_ids /\ n.stopped = r.stopped
      /\ n.waited = r.waited /\ n.mishaps = r.mishaps /\ n.candidates = r.candidates
  <2>1. CASE r.chunks = 0 /\ r.spec < Len(Specs)
    <3>1. n = [r EXCEPT !.spec = r.spec + 1]
      BY <1>3, <2>1
    <3>2. r.spec + 1 \in 1..(Len(Specs) + 1)
      <4>1. r.spec \in 1..(Len(Specs) + 1)
        BY <1>1 DEF Run
      <4> HIDE DEF r
      <4> QED
        BY <2>1, <4>1, LenIs
    <3> QED
      BY <1>1, <3>1, <3>2 DEF Run
  <2>2. CASE ~(r.chunks = 0 /\ r.spec < Len(Specs))
    <3>1. n = [r EXCEPT !.at = "failing"]
      BY <1>3, <2>2
    <3> QED
      BY <1>1, <3>1 DEF Run, Live
  <2> QED
    BY <2>1, <2>2
<1>5. run' = [run EXCEPT ![t] = n]
  BY <1>1, <1>3 DEF ProviderFails
<1>6. TaskOk(n) /\ RowOk(n, row[t], facts[t])
  BY <1>1, <1>2, <1>4 DEF TaskOk, RowOk, Before
<1>7. ReaderOk(ask[t].at, n, row[t], reader[t])
  BY <1>1, <1>2, <1>4, MoveOk DEF Live
<1>8. faults' \in 0..MaxFaults
  BY DEF ProviderFails, TypeOK
<1> QED
  BY <1>4, <1>5, <1>6, <1>7, <1>8, TaskStep DEF ProviderFails, TurnOk

\* ground: the answer is what was said and what is held.
LEMMA GroundOk ==
    ASSUME TypeOK, TurnInv, NEW t \in Turns, ground(t) PROVE TypeOK' /\ TurnInv'
<1> DEFINE r == run[t]
<1>1. r \in Run /\ r.at = "generate"
  BY DEF TypeOK, ground, Turn
<1>2. TaskOk(r) /\ RowOk(r, row[t], facts[t]) /\ ReaderOk(ask[t].at, r, row[t], reader[t])
  BY DEF TurnInv, TurnOk
<1>3. PICK cited \in SUBSET (Passages \cup {NoDish}) :
        run' = [run EXCEPT ![t] = [@ EXCEPT !.at = "answer", !.answer = r.said \cup r.held,
                                            !.item_ids = validate(cited, r.candidates)]]
  BY DEF ground
<1>4. PICK n : n = [r EXCEPT !.at = "answer", !.answer = r.said \cup r.held,
                             !.item_ids = validate(cited, r.candidates)]
  OBVIOUS
<1>5. /\ n \in Run /\ n.at = "answer" /\ n.answer = r.said \cup r.held
      /\ n.item_ids \subseteq r.candidates /\ n.stopped = r.stopped
      /\ n.said = r.said /\ n.held = r.held
      /\ n.waited = r.waited /\ n.mishaps = r.mishaps /\ n.candidates = r.candidates
  BY <1>1, <1>4 DEF Run, Live, validate
<1>6. TaskOk(n) /\ RowOk(n, row[t], facts[t])
  BY <1>1, <1>2, <1>5 DEF TaskOk, RowOk, Before, Stopped
<1>7. ReaderOk(ask[t].at, n, row[t], reader[t])
  BY <1>1, <1>2, <1>5, MoveOk DEF Live
<1>8. run' = [run EXCEPT ![t] = n] /\ faults' \in 0..MaxFaults
  BY <1>3, <1>4 DEF ground, TypeOK
<1> QED
  BY <1>5, <1>6, <1>7, <1>8, TaskStep DEF ground, TurnOk

\* answer: what no token carried is sent, so the answer is what was said.
LEMMA AnswerOk ==
    ASSUME TypeOK, TurnInv, NEW t \in Turns, answer(t) PROVE TypeOK' /\ TurnInv'
<1> DEFINE a == IF run[t].answer = {} THEN {CITATIONS_ONLY} ELSE run[t].answer
           r == [run[t] EXCEPT !.answer = IF @ = {} THEN run[t].said \cup a ELSE @]
           pieces == IF r.said = {} THEN r.held \cup a ELSE r.held
<1>1. run[t] \in Run /\ run[t].at = "answer" /\ faults \in 0..MaxFaults
  BY DEF TypeOK, answer, Turn
<1>2. /\ TaskOk(run[t]) /\ RowOk(run[t], row[t], facts[t])
      /\ ReaderOk(ask[t].at, run[t], row[t], reader[t])
  BY DEF TurnInv, TurnOk
<1>3. /\ r \in Run /\ r.at = "answer" /\ r.said = run[t].said /\ r.held = run[t].held
      /\ r.waited = run[t].waited /\ r.mishaps = run[t].mishaps /\ r.stopped = run[t].stopped
      /\ r.candidates = run[t].candidates /\ r.item_ids = run[t].item_ids
      /\ r.answer = IF run[t].answer = {} THEN run[t].said \cup a ELSE run[t].answer
  BY <1>1, PiecesApart DEF Run
<1>4. /\ Stopped(r, Spoken \cup {CITATIONS_ONLY}) /\ r.answer # {}
      /\ r.answer = r.said \cup pieces
  BY <1>1, <1>2, <1>3, ZenonT(30) DEF TaskOk, Stopped
<1>5. pieces \subseteq Pieces
  BY <1>1, <1>3, PiecesApart DEF Run
<1> HIDE DEF a, r, pieces
<1>6. UNCHANGED <<panel, ask, owner, filed, row, facts, switches>>
  BY DEF answer
<1>7. CASE pieces = {}
  <2>1. PICK n : n = [r EXCEPT !.at = "settle"]
    OBVIOUS
  <2>2. /\ n \in Run /\ n.at = "settle" /\ n.said = r.said /\ n.held = r.held
        /\ n.waited = r.waited /\ n.mishaps = r.mishaps /\ n.stopped = r.stopped
        /\ n.candidates = r.candidates /\ n.item_ids = r.item_ids /\ n.answer = r.answer
    BY <1>3, <2>1 DEF Run, Live
  <2>3. r.held = {}
    BY <1>7 DEF pieces
  <2>4. TaskOk(n) /\ RowOk(n, row[t], facts[t])
    BY <1>1, <1>2, <1>3, <1>4, <1>7, <2>2, <2>3, ZenonT(30) DEF TaskOk, RowOk, Before, Stopped
  <2>5. ReaderOk(ask[t].at, n, row[t], reader[t])
    BY <1>1, <1>2, <1>3, <2>2, MoveOk DEF Live
  <2>6. run' = [run EXCEPT ![t] = n] /\ UNCHANGED <<reader, faults>>
    BY <1>7, <2>1 DEF answer, a, r, pieces
  <2> QED
    BY <1>1, <1>6, <2>2, <2>4, <2>5, <2>6, TaskStep DEF TurnOk
<1>8. CASE pieces # {}
  <2>1. ASSUME NEW n \in Run, NEW d, Wrote(r, n, reader[t], d, pieces, "settle", "failing")
        PROVE  TaskOk(n) /\ RowOk(n, row[t], facts[t])
    BY <1>1, <1>2, <1>3, <1>4, <2>1, ZenonT(30) DEF Wrote, TaskOk, RowOk, Before, Stopped
  <2>2. _write(t, pieces, r, "settle", "failing")
    BY <1>8 DEF answer, a, r, pieces
  <2>3. "settle" \in Live /\ "failing" \in Live /\ run[t].at \in Live
    BY <1>1 DEF Live
  <2> QED
    BY <1>1, <1>3, <1>5, <1>6, <2>1, <2>2, <2>3, WriteStep
<1> QED
  BY <1>7, <1>8

-----------------------------------------------------------------------------
(* The end of a turn. *)

\* What a settlement writes of a streaming row, and of any other.
LEMMA FinishIs ==
    ASSUME TypeOK, NEW t \in Turns, NEW status \in {"complete", "failed"},
           NEW content \in SUBSET Pieces, NEW item_ids \in SUBSET Passages,
           NEW outcome \in Outcomes, finish_message(t, status, content, item_ids, outcome)
    PROVE  /\ row' \in [Turns -> Row] /\ facts' \in [Turns -> Seq(Outcomes)]
           /\ \A s \in Turns \ {t} : row'[s] = row[s] /\ facts'[s] = facts[s]
           /\ row[t].status # "streaming" => row'[t] = row[t] /\ facts'[t] = facts[t]
           /\ row[t].status = "streaming" =>
                /\ row'[t].status = status /\ row'[t].content = content
                /\ row'[t].item_ids = item_ids
                /\ facts[t] = <<>> => facts'[t] = <<outcome>>
<1>1. row \in [Turns -> Row] /\ facts \in [Turns -> Seq(Outcomes)]
  BY DEF TypeOK
<1>2. CASE row[t].status = "streaming"
  <2>1. PICK w : w = [status |-> status, content |-> content, item_ids |-> item_ids]
    OBVIOUS
  <2>2. w \in Row /\ w.status = status /\ w.content = content /\ w.item_ids = item_ids
    BY <2>1 DEF Row
  <2>3. row' = [row EXCEPT ![t] = w] /\ facts' = [facts EXCEPT ![t] = Append(@, outcome)]
    BY <1>2, <2>1 DEF finish_message
  <2>4. row' \in [Turns -> Row] /\ row'[t] = w /\ \A s \in Turns \ {t} : row'[s] = row[s]
    BY <1>1, <2>2, <2>3
  <2>5. /\ facts' \in [Turns -> Seq(Outcomes)] /\ facts'[t] = Append(facts[t], outcome)
        /\ \A s \in Turns \ {t} : facts'[s] = facts[s]
    BY <1>1, <2>3
  <2>6. facts[t] = <<>> => Append(facts[t], outcome) = <<outcome>>
    OBVIOUS
  <2> QED
    BY <1>2, <2>2, <2>4, <2>5, <2>6
<1>3. CASE row[t].status # "streaming"
  BY <1>1, <1>3 DEF finish_message
<1> QED
  BY <1>2, <1>3

\* A settled row and its fact, from the task that settles it.
LEMMA SettledOk ==
    ASSUME NEW r, NEW w0, NEW f0, TaskOk(r), RowOk(r, w0, f0), r.at = "settle",
           NEW w, NEW f, NEW n, w.status = "complete", w.content = r.answer,
           w.item_ids = r.item_ids,
           f = <<IF r.stopped = "" THEN "answered" ELSE r.stopped>>,
           n.at \in {"close", "failing"}, n.said = r.said, n.held = r.held,
           n.candidates = r.candidates, n.item_ids = r.item_ids
    PROVE  RowOk(n, w, f)
<1>1. /\ Stopped(r, Spoken \cup {CITATIONS_ONLY})
      /\ r.answer = r.said /\ r.held = {} /\ r.said # {} /\ r.item_ids \subseteq r.candidates
  BY DEF TaskOk
<1>2. \/ r.stopped = "refused" /\ w.content = {REFUSAL}
      \/ r.stopped = "no_match" /\ w.content = {NO_MATCH} /\ w.content # {REFUSAL}
      \/ r.stopped = "" /\ w.content # {REFUSAL} /\ w.content # {NO_MATCH}
  BY <1>1, PiecesApart DEF Stopped
<1>3. f = CASE w.status \in {"none", "streaming"} -> <<>>
            [] w.status = "failed" -> <<"failed">>
            [] w.status = "complete" ->
                 <<CASE w.content = {REFUSAL} -> "refused"
                     [] w.content = {NO_MATCH} -> "no_match"
                     [] OTHER -> "answered">>
  <2> DEFINE e == CASE w.content = {REFUSAL} -> "refused"
                    [] w.content = {NO_MATCH} -> "no_match"
                    [] OTHER -> "answered"
  <2>1. r.stopped = "refused" /\ w.content = {REFUSAL} => f = <<"refused">> /\ e = "refused"
    BY PiecesApart
  <2>2. r.stopped = "no_match" /\ w.content = {NO_MATCH} => f = <<"no_match">> /\ e = "no_match"
    BY PiecesApart
  <2>3. r.stopped = "" /\ w.content # {REFUSAL} /\ w.content # {NO_MATCH}
          => f = <<"answered">> /\ e = "answered"
    OBVIOUS
  <2>4. f = <<e>>
    BY <1>2, <2>1, <2>2, <2>3, Zenon
  <2> HIDE DEF e
  <2>5. w.status = "complete" /\ w.status \notin {"none", "streaming"} /\ w.status # "failed"
    OBVIOUS
  <2>6. <<e>> = CASE w.status \in {"none", "streaming"} -> <<>>
                  [] w.status = "failed" -> <<"failed">>
                  [] w.status = "complete" -> <<e>>
    BY <2>5, Zenon
  <2> USE DEF e
  <2> QED
    BY <2>4, <2>6, Zenon
<1> QED
  BY <1>1, <1>3 DEF RowOk, Before

\* settle: the row is finished, its reply perhaps lost, or it is not.
LEMMA SettleOk ==
    ASSUME TypeOK, TurnInv, NEW t \in Turns, settle(t) PROVE TypeOK' /\ TurnInv'
<1> DEFINE r == run[t]
           outcome == IF r.stopped = "" THEN "answered" ELSE r.stopped
           wrote == finish_message(t, "complete", r.answer, r.item_ids, outcome)
<1>1. r \in Run /\ r.at = "settle" /\ faults \in 0..MaxFaults /\ run \in [Turns -> Run]
  BY DEF TypeOK, settle, Turn
<1>2. TaskOk(r) /\ RowOk(r, row[t], facts[t]) /\ ReaderOk(ask[t].at, r, row[t], reader[t])
  BY DEF TurnInv, TurnOk
<1>3. /\ row[t].status = "streaming" /\ facts[t] = <<>> /\ outcome \in Outcomes
      /\ r.answer \in SUBSET Pieces /\ r.item_ids \in SUBSET Passages
  BY <1>1, <1>2 DEF RowOk, Before, Run, Outcomes
<1>4. UNCHANGED <<panel, ask, owner, filed, reader, switches>> /\ faults' \in 0..MaxFaults
  <2>1. UNCHANGED <<panel, ask, owner, filed, reader, switches>> /\ (Fault \/ UNCHANGED faults)
    BY Zenon DEF settle
  <2> QED
    BY <1>1, <2>1, BoundsAreNat DEF Fault
<1>5. PICK n \in Run :
        /\ run' = [run EXCEPT ![t] = n] /\ n.at \in {"close", "failing"}
        /\ n.said = r.said /\ n.held = r.held /\ n.item_ids = r.item_ids
        /\ n.waited = r.waited /\ r.mishaps \subseteq n.mishaps /\ n.candidates = r.candidates
        /\ wrote \/ (n.at = "failing" /\ UNCHANGED <<row, facts>>)
  <2>1. CASE wrote /\ Goto(t, "close")
    <3>1. PICK n : n = [r EXCEPT !.at = "close"]
      OBVIOUS
    <3>2. /\ n \in Run /\ n.at = "close" /\ n.said = r.said /\ n.held = r.held
          /\ n.item_ids = r.item_ids /\ n.waited = r.waited /\ r.mishaps \subseteq n.mishaps
          /\ n.candidates = r.candidates
      BY <1>1, <3>1 DEF Run, Live
    <3>3. run' = [run EXCEPT ![t] = n]
      BY <1>1, <2>1, <3>1 DEF Goto
    <3> HIDE DEF wrote
    <3> QED
      BY <2>1, <3>2, <3>3
  <2>2. CASE /\ wrote
             /\ run' = [run EXCEPT ![t].at = "failing", ![t].mishaps = @ \cup {"unheard"}]
    <3>1. PICK n : n = [r EXCEPT !.at = "failing", !.mishaps = @ \cup {"unheard"}]
      OBVIOUS
    <3>2. /\ n \in Run /\ n.at = "failing" /\ n.said = r.said /\ n.held = r.held
          /\ n.item_ids = r.item_ids /\ n.waited = r.waited /\ r.mishaps \subseteq n.mishaps
          /\ n.candidates = r.candidates
      BY <1>1, <3>1 DEF Run, Live, Mishaps
    <3>3. run' = [run EXCEPT ![t] = n]
      BY <1>1, <2>2, <3>1
    <3> HIDE DEF wrote
    <3> QED
      BY <2>2, <3>2, <3>3
  <2>3. CASE Goto(t, "failing") /\ UNCHANGED <<row, facts>>
    <3>1. PICK n : n = [r EXCEPT !.at = "failing"]
      OBVIOUS
    <3>2. /\ n \in Run /\ n.at = "failing" /\ n.said = r.said /\ n.held = r.held
          /\ n.item_ids = r.item_ids /\ n.waited = r.waited /\ r.mishaps \subseteq n.mishaps
          /\ n.candidates = r.candidates
      BY <1>1, <3>1 DEF Run, Live
    <3>3. run' = [run EXCEPT ![t] = n]
      BY <1>1, <2>3, <3>1 DEF Goto
    <3> HIDE DEF wrote
    <3> QED
      BY <2>3, <3>2, <3>3
  <2> QED
    BY <2>1, <2>2, <2>3 DEF settle
<1>6. run' \in [Turns -> Run] /\ run'[t] = n /\ \A s \in Turns \ {t} : run'[s] = run[s]
  BY <1>1, <1>5
<1>7. TaskOk(n)
  BY <1>1, <1>2, <1>5 DEF TaskOk
<1>8. CASE wrote
  <2>1. /\ row' \in [Turns -> Row] /\ facts' \in [Turns -> Seq(Outcomes)]
        /\ \A s \in Turns \ {t} : row'[s] = row[s] /\ facts'[s] = facts[s]
        /\ row'[t].status = "complete" /\ row'[t].content = r.answer
        /\ row'[t].item_ids = r.item_ids /\ facts'[t] = <<outcome>>
    <3>1. finish_message(t, "complete", r.answer, r.item_ids, outcome)
      BY <1>8
    <3> HIDE DEF outcome, wrote
    <3>2. "complete" \in {"complete", "failed"}
      OBVIOUS
    <3> QED
      BY <1>3, <3>1, <3>2, FinishIs
  <2>2. RowOk(n, row'[t], facts'[t])
    BY <1>1, <1>2, <1>5, <2>1, SettledOk
  <2>3. ReaderOk(ask[t].at, n, row'[t], reader[t])
    BY <1>1, <1>2, <1>5, MoveOk DEF Live
  <2>4. Step(t)
    BY <1>4, <1>6, <2>1 DEF Step, TypeOK
  <2>5. TurnOk(ask[t].at, run'[t], row'[t], reader'[t], facts'[t])
    BY <1>4, <1>6, <1>7, <2>2, <2>3 DEF TurnOk
  <2> QED
    BY <2>4, <2>5, OneTurn
<1>9. CASE n.at = "failing" /\ UNCHANGED <<row, facts>>
  <2>1. RowOk(n, row[t], facts[t])
    BY <1>1, <1>2, <1>3, <1>5, <1>9 DEF RowOk, Before
  <2>2. ReaderOk(ask[t].at, n, row[t], reader[t])
    BY <1>1, <1>2, <1>5, MoveOk DEF Live
  <2> QED
    BY <1>4, <1>5, <1>7, <1>9, <2>1, <2>2, TaskStep DEF TurnOk
<1> QED
  BY <1>5, <1>8, <1>9

\* _settle_failed: the apology is heard before the row is touched.
LEMMA SettleFailedOk ==
    ASSUME TypeOK, TurnInv, NEW t \in Turns, _settle_failed(t) PROVE TypeOK' /\ TurnInv'
<1> DEFINE r == run[t]
           pieces == r.held \cup {IF r.said = {} THEN UNAVAILABLE ELSE TRUNCATED}
<1>1. r \in Run /\ r.at = "failing"
  BY DEF TypeOK, _settle_failed, Turn
<1>2. TaskOk(r) /\ RowOk(r, row[t], facts[t])
  BY DEF TurnInv, TurnOk
<1>3. pieces \in SUBSET Pieces /\ _write(t, pieces, r, "unsettled", "close")
  BY <1>1, PiecesApart DEF Run, _settle_failed
<1>4. row[t].status = "complete" => pieces = {TRUNCATED}
  BY <1>1, <1>2 DEF RowOk
<1>5. ASSUME NEW n \in Run, NEW d, Wrote(r, n, reader[t], d, pieces, "unsettled", "close")
      PROVE  TaskOk(n) /\ RowOk(n, row[t], facts[t])
  <2> HIDE DEF pieces
  <2> QED
    BY <1>1, <1>2, <1>4, <1>5 DEF Wrote, TaskOk, RowOk, Before
<1>6. "unsettled" \in Live /\ "close" \in Live /\ r.at \in Live
  BY <1>1 DEF Live
<1>7. UNCHANGED <<panel, ask, owner, filed, row, facts, switches>>
  BY DEF _settle_failed
<1> HIDE DEF pieces
<1> QED
  BY <1>1, <1>3, <1>5, <1>6, <1>7, WriteStep

\* _settle_failed: the row fails with what was said, unless it was settled.
LEMMA SettleFailedRowOk ==
    ASSUME TypeOK, TurnInv, NEW t \in Turns, SettleFailedRow(t) PROVE TypeOK' /\ TurnInv'
<1> DEFINE r == run[t]
           wrote == finish_message(t, "failed", r.said, {}, "failed")
<1>1. r \in Run /\ r.at = "unsettled" /\ faults \in 0..MaxFaults /\ run \in [Turns -> Run]
  BY DEF TypeOK, SettleFailedRow, Turn
<1>2. TaskOk(r) /\ RowOk(r, row[t], facts[t]) /\ ReaderOk(ask[t].at, r, row[t], reader[t])
  BY DEF TurnInv, TurnOk
<1>3. row[t] \in Row
  BY DEF TypeOK
<1>4. UNCHANGED <<panel, ask, owner, filed, reader, switches>> /\ faults' \in 0..MaxFaults
  <2>1. UNCHANGED <<panel, ask, owner, filed, reader, switches>> /\ (Fault \/ UNCHANGED faults)
    BY Zenon DEF SettleFailedRow
  <2> QED
    BY <1>1, <2>1, BoundsAreNat DEF Fault
<1>5. CASE wrote /\ Goto(t, "close")
  <2>1. PICK n : n = [r EXCEPT !.at = "close"]
    OBVIOUS
  <2>2. /\ n \in Run /\ n.at = "close" /\ n.said = r.said /\ n.held = r.held
        /\ n.item_ids = r.item_ids /\ n.waited = r.waited /\ r.mishaps \subseteq n.mishaps
        /\ n.candidates = r.candidates
    BY <1>1, <2>1 DEF Run, Live
  <2>3. run' \in [Turns -> Run] /\ run'[t] = n /\ \A s \in Turns \ {t} : run'[s] = run[s]
    BY <1>1, <1>5, <2>1, <2>2 DEF Goto
  <2>4. /\ row' \in [Turns -> Row] /\ facts' \in [Turns -> Seq(Outcomes)]
        /\ \A s \in Turns \ {t} : row'[s] = row[s] /\ facts'[s] = facts[s]
        /\ row[t].status # "streaming" => row'[t] = row[t] /\ facts'[t] = facts[t]
        /\ row[t].status = "streaming" =>
             /\ row'[t].status = "failed" /\ row'[t].content = r.said
             /\ row'[t].item_ids = {}
             /\ facts[t] = <<>> => facts'[t] = <<"failed">>
    <3>1. r.said \in SUBSET Pieces /\ {} \in SUBSET Passages /\ "failed" \in Outcomes
      BY <1>1 DEF Run, Outcomes
    <3> QED
      BY <1>5, <3>1, FinishIs
  <2>5. RowOk(n, row'[t], facts'[t])
    <3>1. CASE row[t].status = "streaming"
      BY <1>1, <1>2, <2>2, <2>4, <3>1 DEF RowOk, Before
    <3>2. CASE row[t].status # "streaming"
      BY <1>1, <1>2, <1>3, <2>2, <2>4, <3>2 DEF RowOk, Before, Row
    <3> QED
      BY <3>1, <3>2
  <2>6. ReaderOk(ask[t].at, n, row'[t], reader[t]) /\ TaskOk(n)
    BY <1>1, <1>2, <2>2, MoveOk DEF Live, TaskOk
  <2>7. Step(t)
    BY <1>4, <2>3, <2>4 DEF Step, TypeOK
  <2>8. TurnOk(ask[t].at, run'[t], row'[t], reader'[t], facts'[t])
    BY <1>4, <2>3, <2>5, <2>6 DEF TurnOk
  <2> QED
    BY <2>7, <2>8, OneTurn
<1>6. CASE /\ run' = [run EXCEPT ![t].at = "close", ![t].mishaps = @ \cup {"unwritten"}]
           /\ UNCHANGED <<row, facts>>
  <2>1. PICK n : n = [r EXCEPT !.at = "close", !.mishaps = @ \cup {"unwritten"}]
    OBVIOUS
  <2>2. /\ n \in Run /\ n.at = "close" /\ n.said = r.said /\ n.held = r.held
        /\ n.item_ids = r.item_ids /\ n.waited = r.waited
        /\ n.mishaps = r.mishaps \cup {"unwritten"} /\ n.candidates = r.candidates
    BY <1>1, <2>1 DEF Run, Live, Mishaps
  <2>3. run' = [run EXCEPT ![t] = n] /\ UNCHANGED <<row, facts>>
    BY <1>1, <1>6, <2>1
  <2>4. TaskOk(n) /\ RowOk(n, row[t], facts[t])
    BY <1>1, <1>2, <2>2 DEF TaskOk, RowOk, Before
  <2>5. ReaderOk(ask[t].at, n, row[t], reader[t])
    BY <1>1, <1>2, <2>2, MoveOk DEF Live
  <2> QED
    BY <1>4, <2>2, <2>3, <2>4, <2>5, TaskStep DEF TurnOk
<1> QED
  BY <1>5, <1>6 DEF SettleFailedRow

\* What the terminal frame leaves of a task that waited.
LEMMA CloseOk ==
    ASSUME TypeOK, TurnInv, NEW t \in Turns, close(t) PROVE TypeOK' /\ TurnInv'
<1> DEFINE r == run[t]
           d == reader[t]
<1>1. r \in Run /\ r.at = "close" /\ faults \in 0..MaxFaults /\ run \in [Turns -> Run]
      /\ reader \in [Turns -> Reader] /\ d \in Reader
  BY DEF TypeOK, close, Turn
<1>2. TaskOk(r) /\ RowOk(r, row[t], facts[t]) /\ ReaderOk(ask[t].at, r, row[t], d)
  BY DEF TurnInv, TurnOk
<1>3. PICK w : w = wait_for_reader(t, r)
  OBVIOUS
<1>4. /\ w \in Run /\ w.candidates = r.candidates /\ r.mishaps \subseteq w.mishaps
      /\ w.window = r.window
  BY <1>1, <1>3 DEF wait_for_reader, Run, Mishaps
<1>5. PICK n : n = Over(w)
  OBVIOUS
<1>6. /\ n \in Run /\ n.at = "over" /\ n.said = {} /\ n.held = {} /\ n.item_ids = {}
      /\ n.candidates = r.candidates /\ r.mishaps \subseteq n.mishaps
  <2>1. 1 \in 1..(Len(Specs) + 1) /\ 0 \in 0..MaxChunks
    BY BoundsAreNat, LenIs
  <2> QED
    BY <1>4, <1>5, <2>1 DEF Over, NoRun, Run
<1>7. run' \in [Turns -> Run] /\ run'[t] = n /\ \A s \in Turns \ {t} : run'[s] = run[s]
  BY <1>1, <1>3, <1>5, <1>6 DEF close
<1>8. TaskOk(n) /\ RowOk(n, row[t], facts[t])
  BY <1>1, <1>2, <1>6 DEF TaskOk, RowOk, Before
<1>9. PICK e \in Reader :
        /\ reader' = [reader EXCEPT ![t] = e]
        /\ \/ e = d
           \/ /\ d.at = "attached" /\ e.at = "ended" /\ e.item_ids = r.item_ids
              /\ e.got = d.got /\ e.cards = d.cards
  <2>1. CASE UNCHANGED reader
    BY <1>1, <2>1
  <2>2. CASE reader' = [reader EXCEPT ![t] = IF @.at = "attached"
                                             THEN [@ EXCEPT !.at = "ended", !.item_ids = r.item_ids]
                                             ELSE @]
    <3>1. PICK e : e = IF d.at = "attached"
                       THEN [d EXCEPT !.at = "ended", !.item_ids = r.item_ids] ELSE d
      OBVIOUS
    <3>2. e \in Reader
      BY <1>1, <3>1 DEF Reader, Run
    <3>3. reader' = [reader EXCEPT ![t] = e]
      BY <1>1, <2>2, <3>1
    <3> QED
      BY <1>1, <3>1, <3>2, <3>3 DEF Reader
  <2> QED
    BY <2>1, <2>2 DEF close
<1>10. ReaderOk(ask[t].at, n, row[t], e)
  <2>1. r.at \in Live /\ r.at # "none" /\ r.at # "over"
    BY <1>1 DEF Live
  <2>2. d.at # "ended" /\ ask[t].at \notin {"idle", "sent"}
    BY <1>2, <2>1 DEF ReaderOk
  <2>3. CASE e = d
    BY <1>2, <1>6, <2>2, <2>3 DEF ReaderOk, Live
  <2>4. CASE /\ d.at = "attached" /\ e.at = "ended" /\ e.item_ids = r.item_ids
             /\ e.got = d.got /\ e.cards = d.cards
    <3>1. ask[t].at = "read"
      BY <1>2, <2>4 DEF ReaderOk, NoReader
    <3>2. Quiet(n) => Quiet(r) /\ "muted" \notin r.mishaps
      BY <1>6 DEF Quiet
    <3>3. Quiet(n) => e.got = r.said
      BY <1>2, <2>1, <2>4, <3>2 DEF ReaderOk
    <3>4. row[t].status # "none"
      BY <1>2, <2>1 DEF RowOk
    <3>5. row[t].status \in {"streaming", "complete", "failed"}
      BY <3>4 DEF TypeOK, Row
    <3>6. Quiet(n) => /\ \/ row[t].status \in {"complete", "failed"}
                         \/ n.mishaps \cap {"unwritten", "cancelled"} # {}
                      /\ row[t].content \subseteq e.got
                      /\ row[t].status = "complete" =>
                            /\ e.got \ row[t].content \subseteq {TRUNCATED}
                            /\ e.item_ids = row[t].item_ids
      BY <1>1, <1>2, <1>6, <2>4, <3>2, <3>3, <3>5 DEF RowOk
    <3> QED
      BY <1>2, <1>6, <2>2, <2>4, <3>1, <3>6 DEF ReaderOk
  <2> QED
    BY <1>9, <2>3, <2>4
<1>11. /\ reader' \in [Turns -> Reader] /\ reader'[t] = e
       /\ \A s \in Turns \ {t} : reader'[s] = reader[s]
  BY <1>1, <1>9
<1>12. UNCHANGED <<panel, ask, owner, filed, row, facts, switches>> /\ faults' \in 0..MaxFaults
  <2>1. UNCHANGED <<panel, ask, owner, filed, row, facts, switches>> /\ (Fault \/ UNCHANGED faults)
    BY Zenon DEF close
  <2> QED
    BY <1>1, <2>1, BoundsAreNat DEF Fault
<1>13. Step(t)
  BY <1>7, <1>11, <1>12 DEF Step, TypeOK
<1>14. TurnOk(ask[t].at, run'[t], row'[t], reader'[t], facts'[t])
  BY <1>7, <1>8, <1>10, <1>11, <1>12 DEF TurnOk
<1> QED
  BY <1>13, <1>14, OneTurn

\* A cancelled task fails, or goes straight to the `finally`.
LEMMA CancelOk ==
    ASSUME TypeOK, TurnInv, NEW t \in Turns, Cancel(t) PROVE TypeOK' /\ TurnInv'
<1> DEFINE r == run[t]
<1>1. r \in Run /\ r.at \in Live \ {"close"} /\ faults \in 0..MaxFaults /\ run \in [Turns -> Run]
  BY DEF TypeOK, Cancel
<1>2. TaskOk(r) /\ RowOk(r, row[t], facts[t]) /\ ReaderOk(ask[t].at, r, row[t], reader[t])
  BY DEF TurnInv, TurnOk
<1>3. PICK n : n = [r EXCEPT !.mishaps = @ \cup {"cancelled"},
                             !.at = IF @ \in {"failing", "unsettled"} THEN "close" ELSE "failing"]
  OBVIOUS
<1>4. /\ n \in Run /\ n.at \in {"close", "failing"} /\ n.said = r.said /\ n.held = r.held
      /\ n.item_ids = r.item_ids /\ n.waited = r.waited
      /\ n.mishaps = r.mishaps \cup {"cancelled"} /\ n.candidates = r.candidates
  BY <1>1, <1>3 DEF Run, Live, Mishaps
<1>5. run' = [run EXCEPT ![t] = n]
  BY <1>1, <1>3 DEF Cancel
<1>6. TaskOk(n) /\ RowOk(n, row[t], facts[t])
  BY <1>1, <1>2, <1>4 DEF TaskOk, RowOk, Before, Live
<1>7. ReaderOk(ask[t].at, n, row[t], reader[t])
  BY <1>1, <1>2, <1>4, MoveOk DEF Live
<1>8. faults' \in 0..MaxFaults
  <2>1. Fault
    BY Zenon DEF Cancel
  <2> QED
    BY <1>1, <2>1, BoundsAreNat DEF Fault
<1> QED
  BY <1>4, <1>5, <1>6, <1>7, <1>8, TaskStep DEF Cancel, TurnOk

-----------------------------------------------------------------------------
(* The tabs and the requests. *)

\* A tab's step leaves every turn's task, row and fact alone.
LEMMA TabStep ==
    ASSUME TypeOK, TurnInv, UNCHANGED <<owner, filed, run, row, facts>>,
           panel' \in [Panels -> Panel], ask' \in [Turns -> Ask], reader' \in [Turns -> Reader],
           faults' \in 0..MaxFaults, switches' \in 0..MaxSwitches,
           \A s \in Turns : ReaderOk(ask'[s].at, run[s], row[s], reader'[s])
    PROVE  TypeOK' /\ TurnInv'
<1>1. TypeOK'
  BY DEF TypeOK
<1>2. TurnInv'
  BY DEF TurnInv, TurnOk
<1> QED
  BY <1>1, <1>2

\* A stream that is dropped takes what it said with it.
LEMMA LostOk ==
    ASSUME NEW k, NEW r, NEW w, NEW d, ReaderOk(k, r, w, d), d.at = "attached"
    PROVE  ReaderOk(k, r, w, Lost) /\ k = "read"
<1>1. k = "read"
  BY DEF ReaderOk, NoReader
<1>2. Lost.at = "lost" /\ Lost.got = {} /\ Lost.cards = {} /\ Lost.item_ids = {}
  BY DEF Lost, NoReader
<1> QED
  BY <1>1, <1>2 DEF ReaderOk

\* Closing the old stream leaves every turn's reader right.
LEMMA CloseIs ==
    ASSUME TypeOK, TurnInv, NEW l \in 0..MaxTurns
    PROVE  /\ Close(l) \in [Turns -> Reader]
           /\ \A s \in Turns : /\ ReaderOk(ask[s].at, run[s], row[s], Close(l)[s])
                               /\ reader[s] = NoReader => Close(l)[s] = NoReader
<1>1. \A s \in Turns : ReaderOk(ask[s].at, run[s], row[s], reader[s])
  BY DEF TurnInv, TurnOk
<1>2. reader \in [Turns -> Reader]
  BY DEF TypeOK
<1>3. CASE l = 0
  BY <1>1, <1>2, <1>3 DEF Close
<1>4. CASE l # 0
  <2>1. l \in Turns
    BY <1>4, BoundsAreNat DEF Turns
  <2>2. PICK d : d = IF reader[l].at = "attached" THEN Lost ELSE reader[l]
    OBVIOUS
  <2>3. d \in Reader /\ ReaderOk(ask[l].at, run[l], row[l], d)
    BY <1>1, <1>2, <2>1, <2>2, LostOk DEF Lost, NoReader, Reader
  <2>4. reader[l] = NoReader => d = NoReader
    BY <2>2 DEF NoReader
  <2>5. Close(l) = [reader EXCEPT ![l] = d]
    BY <1>2, <1>4, <2>1, <2>2 DEF Close
  <2> QED
    BY <1>1, <1>2, <2>1, <2>3, <2>4, <2>5
<1> QED
  BY <1>3, <1>4

\* send: a question on its way has no task and no reader.
LEMMA SendOk ==
    ASSUME TypeOK, TurnInv, NEW p \in Panels, NEW kind \in Kinds, send(p, kind)
    PROVE  TypeOK' /\ TurnInv'
<1>1. /\ panel \in [Panels -> Panel] /\ ask \in [Turns -> Ask] /\ reader \in [Turns -> Reader]
      /\ faults \in 0..MaxFaults /\ switches \in 0..MaxSwitches
  BY DEF TypeOK
<1>2. PICK t \in Turns :
        /\ ask[t].at = "idle"
        /\ ask' = [ask EXCEPT ![t] = [at |-> "sent", panel |-> p, user |-> panel[p].user,
                                      conv |-> panel[p].conv, kind |-> kind]]
  BY DEF send
<1>3. panel[p] \in Panel
  BY <1>1
<1>4. PICK k : k = [at |-> "sent", panel |-> p, user |-> panel[p].user,
                    conv |-> panel[p].conv, kind |-> kind]
  OBVIOUS
<1>5. k \in Ask /\ k.at = "sent"
  BY <1>3, <1>4 DEF Ask, Panel, Kinds
<1>6. ask' \in [Turns -> Ask] /\ ask'[t] = k /\ \A s \in Turns \ {t} : ask'[s] = ask[s]
  BY <1>1, <1>2, <1>4, <1>5
<1>7. panel' \in [Panels -> Panel]
  <2>1. PICK q : q = [panel[p] EXCEPT !.busy = TRUE]
    OBVIOUS
  <2>2. q \in Panel
    BY <1>3, <2>1 DEF Panel
  <2>3. panel' = [panel EXCEPT ![p] = q]
    BY <1>1, <2>1 DEF send
  <2> QED
    BY <1>1, <2>2, <2>3
<1>8. ASSUME NEW s \in Turns PROVE ReaderOk(ask'[s].at, run[s], row[s], reader[s])
  <2>1. ReaderOk(ask[s].at, run[s], row[s], reader[s])
    BY DEF TurnInv, TurnOk
  <2>2. CASE s = t
    BY <1>2, <1>5, <1>6, <2>1, <2>2 DEF ReaderOk
  <2>3. CASE s # t
    BY <1>6, <2>1, <2>3
  <2> QED
    BY <2>2, <2>3
<1>9. UNCHANGED <<owner, filed, run, row, facts, reader, faults, switches>>
  BY DEF send
<1> QED
  BY <1>1, <1>6, <1>7, <1>8, <1>9, TabStep

\* follow: the stream attaches; if it comes late the turn knows it spoke alone.
LEMMA FollowOk ==
    ASSUME TypeOK, TurnInv, NEW t \in Turns, follow(t) PROVE TypeOK' /\ TurnInv'
<1> DEFINE p == ask[t].panel
<1>1. /\ panel \in [Panels -> Panel] /\ ask \in [Turns -> Ask] /\ reader \in [Turns -> Reader]
      /\ faults \in 0..MaxFaults /\ switches \in 0..MaxSwitches /\ run \in [Turns -> Run]
  BY DEF TypeOK
<1>2. ask[t].at = "ok" /\ ask[t] \in Ask /\ p \in Panels /\ ask[t].conv \in 0..MaxTurns
  BY <1>1 DEF follow, Ask
<1>3. panel[p] \in Panel /\ panel[p].live \in 0..MaxTurns
  BY <1>1, <1>2 DEF Panel
<1>4. PICK k : k = [ask[t] EXCEPT !.at = "read"]
  OBVIOUS
<1>5. k \in Ask /\ k.at = "read"
  BY <1>2, <1>4 DEF Ask
<1>6. ask' \in [Turns -> Ask] /\ ask'[t] = k /\ \A s \in Turns \ {t} : ask'[s] = ask[s]
  <2>1. ask' = [ask EXCEPT ![t] = k]
    BY <1>1, <1>4 DEF follow
  <2> QED
    BY <1>1, <1>5, <2>1
<1>7. panel' \in [Panels -> Panel]
  <2>1. PICK q : q = [panel[p] EXCEPT !.conv = ask[t].conv, !.live = t]
    OBVIOUS
  <2>2. q \in Panel
    <3>1. t \in 0..MaxTurns
      BY BoundsAreNat DEF Turns
    <3> QED
      BY <1>2, <1>3, <2>1, <3>1 DEF Panel
  <2>3. panel' = [panel EXCEPT ![p] = q]
    BY <1>1, <2>1 DEF follow
  <2> QED
    BY <1>1, <1>2, <2>2, <2>3
<1>8. PICK closed : closed = Close(panel[p].live)
  OBVIOUS
<1>9. /\ closed \in [Turns -> Reader]
      /\ \A s \in Turns : /\ ReaderOk(ask[s].at, run[s], row[s], closed[s])
                          /\ reader[s] = NoReader => closed[s] = NoReader
  BY <1>3, <1>8, CloseIs
<1>10. ReaderOk(ask[t].at, run[t], row[t], reader[t])
  BY DEF TurnInv, TurnOk
<1>11. closed[t] = NoReader
  BY <1>2, <1>9, <1>10 DEF ReaderOk
<1>12. PICK d : d = stream_answer(NoReader)
  OBVIOUS
<1>13. d \in Reader /\ d.at = "attached" /\ d.got = {} /\ d.cards = {} /\ d.item_ids = {}
  BY <1>12 DEF stream_answer, NoReader, Reader
<1>14. /\ reader' \in [Turns -> Reader] /\ reader'[t] = d
       /\ \A s \in Turns \ {t} : reader'[s] = closed[s]
  <2>1. reader' = [closed EXCEPT ![t] = stream_answer(@)]
    BY <1>8 DEF follow
  <2>2. reader' = [closed EXCEPT ![t] = d]
    BY <1>9, <1>11, <1>12, <2>1
  <2> QED
    BY <1>9, <1>13, <2>2
<1>15. ReaderOk("read", run[t], row[t], d)
  <2>1. TaskOk(run[t]) /\ run[t].waited \in BOOLEAN
    BY <1>1 DEF TurnInv, TurnOk, Run
  <2>2. run[t].at # "none" /\ reader[t].at = "none"
    BY <1>2, <1>10 DEF ReaderOk, NoReader
  <2>3. run[t].at \in Live /\ Quiet(run[t]) => run[t].said = {}
    BY <1>10, <2>1, <2>2 DEF ReaderOk, Quiet, TaskOk
  <2> QED
    BY <1>13, <2>2, <2>3 DEF ReaderOk
<1>16. ASSUME NEW s \in Turns PROVE ReaderOk(ask'[s].at, run[s], row[s], reader'[s])
  <2>1. CASE s = t
    BY <1>5, <1>6, <1>14, <1>15, <2>1
  <2>2. CASE s # t
    BY <1>6, <1>9, <1>14, <2>2
  <2> QED
    BY <2>1, <2>2
<1>17. UNCHANGED <<owner, filed, run, row, facts, faults, switches>>
  BY DEF follow
<1> QED
  BY <1>1, <1>6, <1>7, <1>14, <1>16, <1>17, TabStep

\* send: a refused question gives the box back.
LEMMA SendFailsOk ==
    ASSUME TypeOK, TurnInv, NEW t \in Turns, SendFails(t) PROVE TypeOK' /\ TurnInv'
<1> DEFINE p == ask[t].panel
<1>1. /\ panel \in [Panels -> Panel] /\ ask \in [Turns -> Ask] /\ reader \in [Turns -> Reader]
      /\ faults \in 0..MaxFaults /\ switches \in 0..MaxSwitches
  BY DEF TypeOK
<1>2. ask[t].at = "no" /\ ask[t] \in Ask /\ p \in Panels
  BY <1>1 DEF SendFails, Ask
<1>3. PICK k : k = [ask[t] EXCEPT !.at = "read"]
  OBVIOUS
<1>4. k \in Ask /\ k.at = "read"
  BY <1>2, <1>3 DEF Ask
<1>5. ask' \in [Turns -> Ask] /\ ask'[t] = k /\ \A s \in Turns \ {t} : ask'[s] = ask[s]
  <2>1. ask' = [ask EXCEPT ![t] = k]
    BY <1>1, <1>3 DEF SendFails
  <2> QED
    BY <1>1, <1>4, <2>1
<1>6. panel' \in [Panels -> Panel]
  <2>1. PICK q : q = [panel[p] EXCEPT !.busy = FALSE]
    OBVIOUS
  <2>2. q \in Panel
    BY <1>1, <1>2, <2>1 DEF Panel
  <2>3. panel' = [panel EXCEPT ![p] = q]
    BY <1>1, <2>1 DEF SendFails
  <2> QED
    BY <1>1, <2>2, <2>3
<1>7. ASSUME NEW s \in Turns PROVE ReaderOk(ask'[s].at, run[s], row[s], reader[s])
  <2>1. ReaderOk(ask[s].at, run[s], row[s], reader[s])
    BY DEF TurnInv, TurnOk
  <2>2. CASE s = t
    BY <1>2, <1>4, <1>5, <2>1, <2>2 DEF ReaderOk
  <2>3. CASE s # t
    BY <1>5, <2>1, <2>3
  <2> QED
    BY <2>2, <2>3
<1>8. UNCHANGED <<owner, filed, run, row, facts, reader, faults, switches>>
  BY DEF SendFails
<1> QED
  BY <1>1, <1>5, <1>6, <1>7, <1>8, TabStep

\* A change of customer closes the stream the tab was reading.
LEMMA SwitchUserOk ==
    ASSUME TypeOK, TurnInv, NEW p \in Panels, NEW u \in Customers, SwitchUser(p, u)
    PROVE  TypeOK' /\ TurnInv'
<1>1. /\ panel \in [Panels -> Panel] /\ ask \in [Turns -> Ask]
      /\ faults \in 0..MaxFaults /\ switches \in 0..MaxSwitches
  BY DEF TypeOK
<1>2. panel[p].live \in 0..MaxTurns
  BY <1>1 DEF Panel
<1>3. /\ reader' \in [Turns -> Reader]
      /\ \A s \in Turns : ReaderOk(ask[s].at, run[s], row[s], reader'[s])
  BY <1>2, CloseIs DEF SwitchUser
<1>4. panel' \in [Panels -> Panel]
  <2>1. SignedOut(u) \in Panel
    BY BoundsAreNat DEF SignedOut, Panel
  <2> QED
    BY <1>1, <2>1 DEF SwitchUser
<1>5. switches' \in 0..MaxSwitches
  BY <1>1, BoundsAreNat DEF SwitchUser
<1>6. UNCHANGED <<ask, owner, filed, run, row, facts, faults>>
  BY DEF SwitchUser
<1> QED
  BY <1>1, <1>3, <1>4, <1>5, <1>6, TabStep

\* The terminal frame: the cards are the row's dishes, or none.
LEMMA ReadCardsOk ==
    ASSUME TypeOK, TurnInv, NEW t \in Turns, ReadCards(t) PROVE TypeOK' /\ TurnInv'
<1> DEFINE p == ask[t].panel
           d == reader[t]
<1>1. /\ panel \in [Panels -> Panel] /\ ask \in [Turns -> Ask] /\ reader \in [Turns -> Reader]
      /\ faults \in 0..MaxFaults /\ switches \in 0..MaxSwitches /\ row \in [Turns -> Row]
  BY DEF TypeOK
<1>2. d.at = "ended" /\ d \in Reader /\ p \in Panels
  BY <1>1 DEF ReadCards, Ask
<1>3. RowOk(run[t], row[t], facts[t]) /\ ReaderOk(ask[t].at, run[t], row[t], d)
  BY DEF TurnInv, TurnOk
<1>4. PICK cards : cards = for_message(t, panel[p].user)
  OBVIOUS
<1>5. cards \subseteq run[t].candidates /\ cards \subseteq Passages
  BY <1>1, <1>3, <1>4 DEF for_message, RowOk, Row
<1>6. PICK e : e = [d EXCEPT !.cards = cards]
  OBVIOUS
<1>7. /\ e \in Reader /\ e.at = d.at /\ e.got = d.got /\ e.item_ids = d.item_ids
      /\ e.cards = cards
  BY <1>2, <1>5, <1>6 DEF Reader
<1>8. ReaderOk(ask[t].at, run[t], row[t], e)
  <2>1. ask[t].at = "read"
    BY <1>2, <1>3 DEF ReaderOk, NoReader
  <2> QED
    BY <1>2, <1>3, <1>5, <1>7, <2>1 DEF ReaderOk
<1>9. /\ reader' \in [Turns -> Reader] /\ reader'[t] = e
      /\ \A s \in Turns \ {t} : reader'[s] = reader[s]
  <2>1. reader' = [reader EXCEPT ![t] = e]
    BY <1>1, <1>4, <1>6 DEF ReadCards
  <2> QED
    BY <1>1, <1>7, <2>1
<1>10. panel' \in [Panels -> Panel]
  <2>1. PICK q : q = [panel[p] EXCEPT !.live = 0, !.busy = FALSE]
    OBVIOUS
  <2>2. q \in Panel
    <3>1. panel[p] \in Panel /\ 0 \in 0..MaxTurns
      BY <1>1, <1>2, BoundsAreNat
    <3> QED
      BY <2>1, <3>1 DEF Panel
  <2>3. panel' = [panel EXCEPT ![p] = q]
    BY <1>1, <2>1 DEF ReadCards
  <2> QED
    BY <1>1, <2>2, <2>3
<1>11. ASSUME NEW s \in Turns PROVE ReaderOk(ask[s].at, run[s], row[s], reader'[s])
  <2>1. ReaderOk(ask[s].at, run[s], row[s], reader[s])
    BY DEF TurnInv, TurnOk
  <2> QED
    BY <1>8, <1>9, <2>1
<1>12. UNCHANGED <<ask, owner, filed, run, row, facts, faults, switches>>
  BY DEF ReadCards
<1> QED
  BY <1>1, <1>9, <1>10, <1>11, <1>12, TabStep

\* resume: a dropped stream is given up.
LEMMA ResumeOk ==
    ASSUME TypeOK, TurnInv, NEW t \in Turns, resume(t) PROVE TypeOK' /\ TurnInv'
<1> DEFINE p == ask[t].panel
<1>1. /\ panel \in [Panels -> Panel] /\ ask \in [Turns -> Ask] /\ reader \in [Turns -> Reader]
      /\ faults \in 0..MaxFaults /\ switches \in 0..MaxSwitches
  BY DEF TypeOK
<1>2. reader[t].at = "attached" /\ p \in Panels
  BY <1>1 DEF resume, Ask
<1>3. ASSUME NEW s \in Turns PROVE ReaderOk(ask[s].at, run[s], row[s], reader[s])
  BY DEF TurnInv, TurnOk
<1>4. Lost \in Reader
  BY DEF Lost, NoReader, Reader
<1>5. /\ reader' \in [Turns -> Reader] /\ reader'[t] = Lost
      /\ \A s \in Turns \ {t} : reader'[s] = reader[s]
  BY <1>1, <1>4 DEF resume
<1>6. ASSUME NEW s \in Turns PROVE ReaderOk(ask[s].at, run[s], row[s], reader'[s])
  <2>1. CASE s = t
    BY <1>2, <1>3, <1>5, <2>1, LostOk
  <2>2. CASE s # t
    BY <1>3, <1>5, <2>2
  <2> QED
    BY <2>1, <2>2
<1>7. panel' \in [Panels -> Panel]
  <2>1. PICK q : q = [panel[p] EXCEPT !.busy = FALSE]
    OBVIOUS
  <2>2. q \in Panel
    BY <1>1, <1>2, <2>1 DEF Panel
  <2>3. panel' = [panel EXCEPT ![p] = q]
    BY <1>1, <2>1 DEF resume
  <2> QED
    BY <1>1, <2>2, <2>3
<1>8. faults' \in 0..MaxFaults
  BY <1>1, BoundsAreNat DEF resume, Fault
<1>9. UNCHANGED <<ask, owner, filed, run, row, facts, switches>>
  BY DEF resume
<1> QED
  BY <1>1, <1>5, <1>6, <1>7, <1>8, <1>9, TabStep

-----------------------------------------------------------------------------
(* A turn begins, and a process dies. *)

\* history returns turns of the conversation.
LEMMA HistoryIs ==
    ASSUME TypeOK, NEW c \in Turns
    PROVE  \A s \in history(c) : s \in Turns /\ \E i \in 1..Len(filed[c]) : s = filed[c][i]
<1> DEFINE n == HistoryLimit \div 2
           first == IF Len(filed[c]) + 1 > n THEN Len(filed[c]) + 2 - n ELSE 1
<1>1. filed[c] \in Seq(Turns)
  BY Zenon DEF TypeOK
<1>2. n \in Int /\ Len(filed[c]) \in Nat
  <2>1. HistoryLimit \in Int
    BY BoundsAreNat
  <2>2. n \in Int
    BY <2>1
  <2>3. Len(filed[c]) \in Nat
    BY <1>1
  <2> QED
    BY <2>2, <2>3
<1>3. first \in Int /\ first >= 1
  BY <1>2
<1>4. \A i \in first..Len(filed[c]) : i \in 1..Len(filed[c])
  BY <1>2, <1>3
<1>5. history(c) = {filed[c][i] : i \in first..Len(filed[c])}
  BY DEF history
<1> HIDE DEF first
<1> QED
  BY <1>1, <1>4, <1>5

\* start: the row, the task and the answer of a question, or a refusal.
LEMMA StartOk ==
    ASSUME TypeOK, TurnInv, NEW t \in Turns, start(t) PROVE TypeOK' /\ TurnInv'
<1> DEFINE c == IF ask[t].conv = 0 THEN t ELSE ask[t].conv
           u == ask[t].user
<1>1. /\ ask \in [Turns -> Ask] /\ owner \in [Turns -> Customers \cup {NoUser}]
      /\ filed \in [Turns -> Seq(Turns)] /\ run \in [Turns -> Run] /\ row \in [Turns -> Row]
      /\ faults \in 0..MaxFaults
  BY DEF TypeOK
<1>2. ask[t].at = "sent" /\ ask[t] \in Ask
  BY <1>1 DEF start
<1>3. c \in Turns /\ c \in 0..MaxTurns /\ u \in Customers \cup {NoUser}
  <2>1. ask[t].conv \in 0..MaxTurns /\ u \in Customers \cup {NoUser}
    BY <1>2 DEF Ask
  <2> QED
    BY <2>1, BoundsAreNat DEF Turns
<1>4. TurnOk("sent", run[t], row[t], reader[t], facts[t])
  BY <1>2 DEF TurnInv
<1>5. run[t].at = "none" /\ reader[t] = NoReader
  BY <1>4 DEF TurnOk, ReaderOk
<1> HIDE DEF c, u
<1>6. CASE ensure_conversation(c, u)
  <2>1. /\ owner' = [owner EXCEPT ![c] = u]
        /\ filed' = [filed EXCEPT ![c] = Append(@, t)]
        /\ row' = [row EXCEPT ![t].status = "streaming"]
        /\ run' = [run EXCEPT ![t].at = "guard", ![t].window = history(c)]
    BY <1>6 DEF start, c, u
  <2>2. UNCHANGED <<panel, facts, reader, switches>>
    BY DEF start
  <2>3. \/ ask' = [ask EXCEPT ![t].at = "ok", ![t].conv = c] /\ UNCHANGED faults
        \/ ask' = [ask EXCEPT ![t].at = "no", ![t].conv = c] /\ Fault
    BY <1>6 DEF start, c, u
  <2>4. faults' \in 0..MaxFaults
    BY <1>1, <2>3, BoundsAreNat DEF Fault
  <2>5. PICK k \in Ask : ask' = [ask EXCEPT ![t] = k] /\ k.at \in {"ok", "no"}
    <3>1. ASSUME NEW at \in {"ok", "no"}, ask' = [ask EXCEPT ![t].at = at, ![t].conv = c]
          PROVE  \E k \in Ask : ask' = [ask EXCEPT ![t] = k] /\ k.at \in {"ok", "no"}
      <4>1. PICK k : k = [ask[t] EXCEPT !.at = at, !.conv = c]
        OBVIOUS
      <4>2. k \in Ask /\ k.at = at
        BY <1>2, <1>3, <4>1 DEF Ask
      <4>3. ask' = [ask EXCEPT ![t] = k]
        BY <1>1, <3>1, <4>1
      <4> QED
        BY <4>2, <4>3
    <3> QED
      BY <2>3, <3>1
  <2>6. ask' \in [Turns -> Ask] /\ ask'[t] = k /\ \A s \in Turns \ {t} : ask'[s] = ask[s]
    BY <1>1, <2>5
  <2>7. PICK n : n = [run[t] EXCEPT !.at = "guard", !.window = history(c)]
    OBVIOUS
  <2>8. /\ n \in Run /\ n.at = "guard" /\ n.said = run[t].said /\ n.held = run[t].held
        /\ n.waited = run[t].waited /\ n.mishaps = run[t].mishaps
        /\ n.stopped = run[t].stopped /\ n.item_ids = run[t].item_ids
        /\ n.candidates = run[t].candidates
    <3>1. history(c) \subseteq Turns /\ run[t] \in Run
      BY <1>1, <1>3, HistoryIs
    <3> QED
      BY <2>7, <3>1 DEF Run, Live
  <2>9. run' \in [Turns -> Run] /\ run'[t] = n /\ \A s \in Turns \ {t} : run'[s] = run[s]
    <3>1. run' = [run EXCEPT ![t] = n]
      BY <1>1, <2>1, <2>7
    <3> QED
      BY <1>1, <2>8, <3>1
  <2>10. PICK w : w = [row[t] EXCEPT !.status = "streaming"]
    OBVIOUS
  <2>11. /\ w \in Row /\ w.status = "streaming" /\ w.content = row[t].content
         /\ w.item_ids = row[t].item_ids
    BY <1>1, <2>10 DEF Row
  <2>12. row' \in [Turns -> Row] /\ row'[t] = w /\ \A s \in Turns \ {t} : row'[s] = row[s]
    <3>1. row' = [row EXCEPT ![t] = w]
      BY <1>1, <2>1, <2>10
    <3> QED
      BY <1>1, <2>11, <3>1
  <2>13. TurnOk(k.at, n, w, reader[t], facts[t])
    <3>1. TaskOk(n)
      BY <1>4, <1>5, <2>8 DEF TurnOk, TaskOk
    <3>2. RowOk(n, w, facts[t])
      <4>1. row[t].status = "none"
        BY <1>4, <1>5 DEF TurnOk, RowOk
      <4>2. facts[t] = <<>> /\ w.content = {} /\ w.item_ids = {}
        BY <1>4, <2>11, <4>1 DEF TurnOk, RowOk
      <4> QED
        BY <2>8, <2>11, <4>2 DEF RowOk, Before
    <3>3. ReaderOk(k.at, n, w, reader[t])
      <4>1. ~n.waited
        BY <1>4, <1>5, <2>8 DEF TurnOk, TaskOk
      <4>2. /\ reader[t].at = "none" /\ reader[t].got = {} /\ reader[t].cards = {}
        BY <1>5 DEF NoReader
      <4> QED
        BY <1>5, <2>5, <2>8, <4>1, <4>2 DEF ReaderOk
    <3> QED
      BY <3>1, <3>2, <3>3 DEF TurnOk
  <2>14. TypeOK'
    <3>1. owner' \in [Turns -> Customers \cup {NoUser}]
      BY <1>1, <1>3, <2>1
    <3>2. filed' \in [Turns -> Seq(Turns)]
      <4>1. Append(filed[c], t) \in Seq(Turns)
        BY <1>1, <1>3
      <4> QED
        BY <1>1, <1>3, <2>1, <4>1
    <3> QED
      BY <2>2, <2>4, <2>6, <2>9, <2>12, <3>1, <3>2 DEF TypeOK
  <2>15. ASSUME NEW s \in Turns
         PROVE  TurnOk(ask'[s].at, run'[s], row'[s], reader'[s], facts'[s])
    <3>1. CASE s = t
      BY <2>2, <2>6, <2>9, <2>12, <2>13, <3>1
    <3>2. CASE s # t
      BY <2>2, <2>6, <2>9, <2>12, <3>2 DEF TurnInv
    <3> QED
      BY <3>1, <3>2
  <2> QED
    BY <2>14, <2>15 DEF TurnInv
<1>7. CASE ~ensure_conversation(c, u)
  <2>1. /\ ask' = [ask EXCEPT ![t].at = "no"]
        /\ UNCHANGED <<owner, filed, row, run, faults, panel, facts, reader, switches>>
    BY <1>7 DEF start, c, u
  <2>2. PICK k : k = [ask[t] EXCEPT !.at = "no"]
    OBVIOUS
  <2>3. k \in Ask /\ k.at = "no"
    BY <1>2, <2>2 DEF Ask
  <2>4. ask' \in [Turns -> Ask] /\ ask'[t] = k /\ \A s \in Turns \ {t} : ask'[s] = ask[s]
    <3>1. ask' = [ask EXCEPT ![t] = k]
      BY <1>1, <2>1, <2>2
    <3> QED
      BY <1>1, <2>3, <3>1
  <2>5. ASSUME NEW s \in Turns PROVE ReaderOk(ask'[s].at, run[s], row[s], reader[s])
    <3>1. ReaderOk(ask[s].at, run[s], row[s], reader[s])
      BY DEF TurnInv, TurnOk
    <3>2. CASE s = t
      BY <1>2, <2>3, <2>4, <3>1, <3>2 DEF ReaderOk
    <3>3. CASE s # t
      BY <2>4, <3>1, <3>3
    <3> QED
      BY <3>2, <3>3
  <2> QED
    BY <2>1, <2>4, <2>5, TabStep DEF TypeOK
<1> QED
  BY <1>6, <1>7

\* A killed process ends every task where it stands.
LEMMA CrashOk == ASSUME TypeOK, TurnInv, Crash PROVE TypeOK' /\ TurnInv'
<1>1. /\ ask \in [Turns -> Ask] /\ run \in [Turns -> Run] /\ faults \in 0..MaxFaults
  BY DEF TypeOK
<1>2. UNCHANGED <<panel, owner, filed, row, facts, reader, switches>> /\ faults' \in 0..MaxFaults
  BY <1>1, BoundsAreNat DEF Crash, Fault
<1>3. ASSUME NEW s \in Turns
      PROVE  /\ ask'[s] \in Ask
             /\ ask'[s].at = IF ask[s].at = "sent" THEN "no" ELSE ask[s].at
  <2>1. ask'[s] = [ask[s] EXCEPT !.at = IF @ = "sent" THEN "no" ELSE @]
    BY DEF Crash
  <2>2. ask[s] \in Ask
    BY <1>1
  <2> QED
    BY <2>1, <2>2 DEF Ask
<1>4. ASSUME NEW s \in Turns
      PROVE  /\ run'[s] \in Run
             /\ run[s].at \notin Live => run'[s] = run[s]
             /\ run[s].at \in Live =>
                  /\ run'[s].at = "over" /\ run'[s].said = {} /\ run'[s].item_ids = {}
                  /\ run'[s].candidates = run[s].candidates
                  /\ run[s].mishaps \subseteq run'[s].mishaps
  <2>1. run[s] \in Run
    BY <1>1
  <2>2. run'[s] = IF run[s].at \in Live
                  THEN [Over(run[s]) EXCEPT !.mishaps = @ \cup {"crashed"}] ELSE run[s]
    BY DEF Crash
  <2>3. PICK n : n = [Over(run[s]) EXCEPT !.mishaps = @ \cup {"crashed"}]
    OBVIOUS
  <2>4. /\ n \in Run /\ n.at = "over" /\ n.said = {} /\ n.item_ids = {}
        /\ n.candidates = run[s].candidates /\ run[s].mishaps \subseteq n.mishaps
    <3>1. PICK o : o = Over(run[s])
      OBVIOUS
    <3>2. /\ o \in Run /\ o.at = "over" /\ o.said = {} /\ o.item_ids = {}
          /\ o.candidates = run[s].candidates /\ o.mishaps = run[s].mishaps
      <4>1. 1 \in 1..(Len(Specs) + 1) /\ 0 \in 0..MaxChunks
        BY BoundsAreNat, LenIs
      <4> QED
        BY <2>1, <3>1, <4>1 DEF Over, NoRun, Run
    <3> QED
      BY <2>3, <3>1, <3>2 DEF Run, Mishaps
  <2> QED
    BY <2>1, <2>2, <2>3, <2>4
<1>5. ask' \in [Turns -> Ask] /\ run' \in [Turns -> Run]
  <2>1. ask' = [s \in Turns |-> ask'[s]] /\ run' = [s \in Turns |-> run'[s]]
    BY Zenon DEF Crash
  <2> QED
    BY <1>3, <1>4, <2>1
<1>6. ASSUME NEW s \in Turns
      PROVE  TurnOk(ask'[s].at, run'[s], row[s], reader[s], facts[s])
  <2>1. TurnOk(ask[s].at, run[s], row[s], reader[s], facts[s])
    BY DEF TurnInv
  <2>2. CASE run[s].at \notin Live
    <3>1. run'[s] = run[s]
      BY <1>4, <2>2
    <3>2. ReaderOk(ask'[s].at, run[s], row[s], reader[s])
      BY <1>3, <2>1 DEF TurnOk, ReaderOk
    <3> QED
      BY <2>1, <3>1, <3>2 DEF TurnOk
  <2>3. CASE run[s].at \in Live
    <3>1. run[s].at # "none" /\ run[s].at # "over"
      BY <2>3 DEF Live
    <3>2. ask'[s].at = ask[s].at /\ ask[s].at \notin {"idle", "sent"} /\ reader[s].at # "ended"
      BY <1>3, <2>1, <3>1 DEF TurnOk, ReaderOk
    <3>3. TaskOk(run'[s]) /\ RowOk(run'[s], row[s], facts[s])
      BY <1>4, <2>1, <2>3, <3>1 DEF TurnOk, TaskOk, RowOk, Before
    <3>4. ReaderOk(ask'[s].at, run'[s], row[s], reader[s])
      BY <1>4, <2>1, <2>3, <3>2 DEF TurnOk, ReaderOk, Live
    <3> QED
      BY <3>3, <3>4 DEF TurnOk
  <2> QED
    BY <2>2, <2>3
<1> QED
  BY <1>2, <1>5, <1>6 DEF TypeOK, TurnInv

-----------------------------------------------------------------------------
(* The theorems. *)

\* Nobody has asked yet.
LEMMA InitOk == Init => TypeOK /\ TurnInv
<1> SUFFICES ASSUME Init PROVE TypeOK /\ TurnInv
  OBVIOUS
<1> USE DEF Init, Start
<1>1. panel \in [Panels -> Panel]
  BY BoundsAreNat DEF SignedOut, Panel
<1>2. ask \in [Turns -> Ask] /\ \A t \in Turns : ask[t].at = "idle"
  <2>1. (CHOOSE q \in Panels : TRUE) \in Panels
    BY NamesApart
  <2>2. PICK p \in Panels :
          ask \in [Turns -> {[at |-> "idle", panel |-> p, user |-> NoUser, conv |-> 0,
                             kind |-> "plain"]}]
    BY <2>1
  <2>3. PICK k : k = [at |-> "idle", panel |-> p, user |-> NoUser, conv |-> 0, kind |-> "plain"]
    OBVIOUS
  <2>4. k \in Ask /\ k.at = "idle"
    <3>1. 0 \in 0..MaxTurns
      BY BoundsAreNat
    <3> QED
      BY <2>3, <3>1 DEF Ask, Kinds
  <2>5. ask \in [Turns -> {k}]
    BY <2>2, <2>3
  <2> QED
    BY <2>4, <2>5
<1>3. NoRun \in Run
  <2>1. 1 \in 1..(Len(Specs) + 1) /\ 0 \in 0..MaxChunks
    BY BoundsAreNat, LenIs
  <2> QED
    BY <2>1 DEF NoRun, Run
<1>4. NoReader \in Reader
  BY DEF NoReader, Reader
<1>5. PICK w : w = [status |-> "none", content |-> {}, item_ids |-> {}]
  OBVIOUS
<1>6. w \in Row /\ w.status = "none" /\ w.content = {} /\ w.item_ids = {}
  BY <1>5 DEF Row
<1>7. row = [t \in Turns |-> w]
  BY <1>5
<1>8. <<>> \in Seq(Outcomes) /\ <<>> \in Seq(Turns)
  OBVIOUS
<1>9. TypeOK
  <2>1. run \in [Turns -> Run] /\ reader \in [Turns -> Reader] /\ row \in [Turns -> Row]
    BY <1>3, <1>4, <1>6, <1>7
  <2>2. owner \in [Turns -> Customers \cup {NoUser}]
    OBVIOUS
  <2>3. filed \in [Turns -> Seq(Turns)] /\ facts \in [Turns -> Seq(Outcomes)]
    BY <1>8
  <2>4. faults \in 0..MaxFaults /\ switches \in 0..MaxSwitches
    BY BoundsAreNat
  <2> QED
    BY <1>1, <1>2, <2>1, <2>2, <2>3, <2>4 DEF TypeOK
<1>10. ASSUME NEW t \in Turns PROVE TurnOk(ask[t].at, run[t], row[t], reader[t], facts[t])
  <2>1. ask[t].at = "idle" /\ run[t] = NoRun /\ row[t] = w /\ reader[t] = NoReader /\ facts[t] = <<>>
    BY <1>2, <1>7
  <2>2. /\ NoRun.at = "none" /\ NoRun.said = {} /\ NoRun.held = {} /\ NoRun.item_ids = {}
        /\ NoRun.stopped = "" /\ NoRun.waited = FALSE
    BY DEF NoRun
  <2>3. NoReader.at = "none" /\ NoReader.got = {} /\ NoReader.cards = {}
    BY DEF NoReader
  <2>4. TaskOk(NoRun)
    BY <2>2 DEF TaskOk
  <2>5. RowOk(NoRun, w, <<>>)
    BY <1>6, <2>2 DEF RowOk, Before
  <2>6. ReaderOk("idle", NoRun, w, NoReader)
    BY <2>2, <2>3 DEF ReaderOk
  <2> QED
    BY <2>1, <2>4, <2>5, <2>6 DEF TurnOk
<1> QED
  BY <1>9, <1>10 DEF TurnInv

\* Every turn of every behaviour keeps its task, row, fact and reader in step.
THEOREM TurnsHold == Spec => [](TypeOK /\ TurnInv)
<1>1. TypeOK /\ TurnInv /\ [Next]_vars => TypeOK' /\ TurnInv'
  <2> SUFFICES ASSUME TypeOK, TurnInv, [Next]_vars PROVE TypeOK' /\ TurnInv'
    OBVIOUS
  <2>1. ASSUME NEW p \in Panels, NEW kind \in Kinds, send(p, kind) PROVE TypeOK' /\ TurnInv'
    BY <2>1, SendOk
  <2>2. ASSUME NEW p \in Panels, NEW u \in Customers, SwitchUser(p, u) PROVE TypeOK' /\ TurnInv'
    BY <2>2, SwitchUserOk
  <2>3. ASSUME NEW t \in Turns, start(t) PROVE TypeOK' /\ TurnInv'
    BY <2>3, StartOk
  <2>4. ASSUME NEW t \in Turns, Work(t) PROVE TypeOK' /\ TurnInv'
    BY <2>4, GuardOk, RetrieveOk, GenerateOk, GroundOk, AnswerOk, SettleOk, SettleFailedOk,
       SettleFailedRowOk, CloseOk DEF Work
  <2>5. ASSUME NEW t \in Turns, Browser(t) PROVE TypeOK' /\ TurnInv'
    BY <2>5, FollowOk, SendFailsOk, ReadCardsOk, ResumeOk DEF Browser
  <2>6. ASSUME NEW t \in Turns, ProviderFails(t) PROVE TypeOK' /\ TurnInv'
    BY <2>6, ProviderFailsOk
  <2>7. ASSUME NEW t \in Turns, Cancel(t) PROVE TypeOK' /\ TurnInv'
    BY <2>7, CancelOk
  <2>8. CASE Crash
    BY <2>8, CrashOk
  <2>9. CASE UNCHANGED vars
    BY <2>9 DEF vars, TypeOK, TurnInv
  <2> QED
    BY <2>1, <2>2, <2>3, <2>4, <2>5, <2>6, <2>7, <2>8, <2>9 DEF Next
<1> QED
  BY <1>1, InitOk, PTL DEF Spec

\* A settled answer has exactly one interaction fact, and the fact says how the
\* turn ended: finish_message's guard and its transaction, a lost commit and a
\* second settlement included.
THEOREM FactCorrect == Spec => []FactPerAnswer
<1>1. TypeOK /\ TurnInv => FactPerAnswer
  BY DEF TurnInv, TurnOk, RowOk, FactPerAnswer
<1> QED
  BY <1>1, TurnsHold, PTL

\* A reader the turn waited for and the bus did not fail has read what the row
\* keeps when the terminal frame reaches it, and its cards were retrieved.
THEOREM HeardCorrect == Spec => []HeardWhole
<1>1. TypeOK /\ TurnInv => HeardWhole
  BY DEF TurnInv, TurnOk, ReaderOk, Quiet, HeardWhole
<1> QED
  BY <1>1, TurnsHold, PTL

-----------------------------------------------------------------------------
(* Whose words a turn is shown. *)

Asked(s) == ask[s].at \notin {"idle", "sent"}

\* A conversation's turns were asked by its owner; a turn's window is of its own.
ContextInv ==
    /\ \A s \in Turns : ask[s].at = "sent" => ask[s].user # NoUser
    /\ \A c \in Turns : \A i \in 1..Len(filed[c]) :
          /\ owner[c] # NoUser /\ Asked(filed[c][i])
          /\ ask[filed[c][i]].user = owner[c]
    /\ \A t \in Turns : \A s \in run[t].window :
          Asked(s) /\ Asked(t) /\ ask[s].user = ask[t].user

\* What every step but an ask's beginning and its filing keeps of it.
Kept ==
    /\ UNCHANGED <<owner, filed>>
    /\ \A s \in Turns : /\ run'[s].window = run[s].window /\ ask'[s].user = ask[s].user
                        /\ Asked(s) => Asked(s)'
                        /\ ask'[s].at = "sent" => ask[s].at = "sent"

\* Such a step cannot break it.
LEMMA KeptOk ==
    ASSUME TypeOK, ContextInv, Kept PROVE ContextInv'
<1>1. \A c \in Turns : \A i \in 1..Len(filed[c]) : filed[c][i] \in Turns
  BY DEF TypeOK
<1>2. \A t \in Turns : run[t].window \subseteq Turns
  BY DEF TypeOK, Run
<1> QED
  BY <1>1, <1>2 DEF Kept, ContextInv

\* Publisher._write keeps what the turn was shown.
LEMMA WriteKeeps ==
    ASSUME TypeOK, NEW t \in Turns, NEW r \in Run, r.window = run[t].window,
           NEW pieces \in SUBSET Pieces, NEW next \in Live, NEW broken \in Live,
           _write(t, pieces, r, next, broken)
    PROVE  \A s \in Turns : run'[s].window = run[s].window
<1>1. PICK w : w = [wait_for_reader(t, r) EXCEPT !.said = @ \cup pieces, !.held = {}]
  OBVIOUS
<1>2. w \in Run /\ w.window = r.window
  BY <1>1 DEF wait_for_reader, Run, Mishaps
<1>3. PICK n : n = [w EXCEPT !.at = next]
  OBVIOUS
<1>4. PICK m : m = [w EXCEPT !.at = broken, !.mishaps = w.mishaps \cup {"muted"}]
  OBVIOUS
<1>5. n.window = r.window /\ m.window = r.window
  BY <1>2, <1>3, <1>4 DEF Run
<1>6. run' = [run EXCEPT ![t] = n] \/ run' = [run EXCEPT ![t] = m]
  <2>1. \/ run' = [run EXCEPT ![t] = [w EXCEPT !.at = next]]
        \/ run' = [run EXCEPT ![t] = [w EXCEPT !.at = broken,
                                              !.mishaps = w.mishaps \cup {"muted"}]]
    BY <1>1, Zenon DEF _write
  <2> QED
    BY <1>3, <1>4, <2>1, Zenon
<1>7. run \in [Turns -> Run]
  BY DEF TypeOK
<1> QED
  BY <1>5, <1>6, <1>7

\* A task is replaced by one with its window.
Replaced(t) == \E n : run' = [run EXCEPT ![t] = n] /\ n.window = run[t].window

\* So do the steps that replace one task.
LEMMA ReplacedKeeps ==
    ASSUME TypeOK, NEW t \in Turns, Replaced(t)
    PROVE  \A s \in Turns : run'[s].window = run[s].window
<1>1. run \in [Turns -> Run]
  BY DEF TypeOK
<1> QED
  BY <1>1 DEF Replaced

\* A task that moves on keeps its window.
LEMMA GotoKeeps == ASSUME TypeOK, NEW t \in Turns, NEW at, Goto(t, at) PROVE Replaced(t)
<1>1. run \in [Turns -> Run] /\ run[t] \in Run
  BY DEF TypeOK
<1>2. PICK n : n = [run[t] EXCEPT !.at = at]
  OBVIOUS
<1>3. n.window = run[t].window
  BY <1>1, <1>2 DEF Run
<1>4. run' = [run EXCEPT ![t] = n]
  BY <1>1, <1>2 DEF Goto
<1> QED
  BY <1>3, <1>4 DEF Replaced

\* A task that notes a mishap keeps its window.
LEMMA MishapKeeps ==
    ASSUME TypeOK, NEW t \in Turns, NEW at, NEW mishap,
           run' = [run EXCEPT ![t].at = at, ![t].mishaps = @ \cup {mishap}]
    PROVE  Replaced(t)
<1>1. run \in [Turns -> Run] /\ run[t] \in Run
  BY DEF TypeOK
<1>2. PICK n : n = [run[t] EXCEPT !.at = at, !.mishaps = @ \cup {mishap}]
  OBVIOUS
<1>3. n.window = run[t].window
  BY <1>1, <1>2 DEF Run
<1>4. run' = [run EXCEPT ![t] = n]
  BY <1>1, <1>2
<1> QED
  BY <1>3, <1>4 DEF Replaced

\* No node of the graph changes what the turn was shown.
LEMMA WorkKeeps ==
    ASSUME TypeOK, NEW t \in Turns, Work(t) \/ ProviderFails(t) \/ Cancel(t)
    PROVE  \A s \in Turns : run'[s].window = run[s].window
<1>0. run \in [Turns -> Run] /\ run[t] \in Run
  BY DEF TypeOK
<1>1. CASE guard(t)
  <2>1. PICK n : n = IF safety_check(t)
                     THEN [run[t] EXCEPT !.at = "answer", !.answer = {REFUSAL}, !.stopped = "refused"]
                     ELSE [run[t] EXCEPT !.at = "retrieve"]
    OBVIOUS
  <2>2. n.window = run[t].window
    BY <1>0, <2>1 DEF Run
  <2>3. run' = [run EXCEPT ![t] = n]
    BY <1>0, <1>1, <2>1 DEF guard
  <2> QED
    BY <2>2, <2>3, ReplacedKeeps DEF Replaced
<1>2. CASE retrieve_node(t)
  <2>1. ASSUME NEW found \in retrieve,
               run' = [run EXCEPT ![t] =
                        IF found = {}
                        THEN [@ EXCEPT !.at = "answer", !.answer = {NO_MATCH}, !.stopped = "no_match"]
                        ELSE [@ EXCEPT !.at = "generate", !.candidates = found]]
        PROVE  Replaced(t)
    <3>1. PICK n : n = IF found = {}
                       THEN [run[t] EXCEPT !.at = "answer", !.answer = {NO_MATCH}, !.stopped = "no_match"]
                       ELSE [run[t] EXCEPT !.at = "generate", !.candidates = found]
      OBVIOUS
    <3>2. n.window = run[t].window
      BY <1>0, <3>1 DEF Run
    <3>3. run' = [run EXCEPT ![t] = n]
      BY <1>0, <2>1, <3>1
    <3> QED
      BY <3>2, <3>3 DEF Replaced
  <2>2. Replaced(t)
    BY <1>2, <2>1, GotoKeeps DEF retrieve_node
  <2> QED
    BY <2>2, ReplacedKeeps
<1>3. CASE generate(t)
  <2>1. PICK r : r = [run[t] EXCEPT !.chunks = @ + 1]
    OBVIOUS
  <2>2. run[t].at = "generate" /\ r.spec <= Len(Specs) /\ r.chunks <= MaxChunks
    BY <1>3, <2>1, Zenon DEF generate, Turn
  <2>3. /\ r \in Run /\ r.window = run[t].window /\ r.held = run[t].held
        /\ r.spec \in 1..Len(Specs) /\ r.chunks \in 1..MaxChunks
    <3>1. /\ run[t].spec \in 1..(Len(Specs) + 1) /\ run[t].chunks \in 0..MaxChunks
          /\ r.spec = run[t].spec /\ r.chunks = run[t].chunks + 1
      BY <1>0, <2>1 DEF Run
    <3>2. r.spec \in 1..Len(Specs) /\ r.chunks \in 1..MaxChunks /\ r.chunks \in 0..MaxChunks
      BY <2>2, <3>1, LenIs, BoundsAreNat
    <3> QED
      BY <1>0, <2>1, <3>1, <3>2 DEF Run
  <2>4. PICK piece : piece = Piece(Specs[r.spec], r.chunks)
    OBVIOUS
  <2>5. piece \in Pieces /\ r.held \subseteq Pieces
    <3>1. piece \in Spoken
      BY <2>3, <2>4 DEF Spoken
    <3>2. r.held \subseteq Pieces
      BY <2>3 DEF Run
    <3> QED
      BY <3>1, <3>2, PiecesApart
  <2>6. PICK stripped \in push(r.held, piece) :
          IF stripped.out = {}
          THEN run' = [run EXCEPT ![t] = [r EXCEPT !.held = stripped.held]] /\ UNCHANGED <<reader, faults>>
          ELSE _write(t, stripped.out, r, "generate", "failing")
    BY <1>3, <2>1, <2>4 DEF generate
  <2>7. stripped.out \in SUBSET Pieces
    <3>1. stripped \in push(r.held, piece)
      BY <2>6, Zenon
    <3> QED
      BY <2>5, <3>1 DEF push
  <2>8. CASE stripped.out = {}
    <3>1. PICK n : n = [r EXCEPT !.held = stripped.held]
      OBVIOUS
    <3>2. n.window = run[t].window
      BY <2>3, <3>1 DEF Run
    <3>3. run' = [run EXCEPT ![t] = n]
      BY <2>6, <2>8, <3>1
    <3> QED
      BY <3>2, <3>3, ReplacedKeeps DEF Replaced
  <2>9. CASE stripped.out # {}
    <3>1. "generate" \in Live /\ "failing" \in Live
      BY DEF Live
    <3>2. _write(t, stripped.out, r, "generate", "failing")
      BY <2>6, <2>9
    <3> QED
      BY <2>3, <2>7, <3>1, <3>2, WriteKeeps
  <2> QED
    BY <2>8, <2>9
<1>4. CASE ground(t)
  <2>1. PICK cited \in SUBSET (Passages \cup {NoDish}) :
          run' = [run EXCEPT ![t] = [@ EXCEPT !.at = "answer", !.answer = run[t].said \cup run[t].held,
                                              !.item_ids = validate(cited, run[t].candidates)]]
    BY <1>4 DEF ground
  <2>2. PICK n : n = [run[t] EXCEPT !.at = "answer", !.answer = run[t].said \cup run[t].held,
                                    !.item_ids = validate(cited, run[t].candidates)]
    OBVIOUS
  <2>3. n.window = run[t].window
    BY <1>0, <2>2 DEF Run
  <2>4. run' = [run EXCEPT ![t] = n]
    BY <1>0, <2>1, <2>2
  <2> QED
    BY <2>3, <2>4, ReplacedKeeps DEF Replaced
<1>5. CASE answer(t)
  <2>1. PICK a : a = IF run[t].answer = {} THEN {CITATIONS_ONLY} ELSE run[t].answer
    OBVIOUS
  <2>2. PICK r : r = [run[t] EXCEPT !.answer = IF @ = {} THEN run[t].said \cup a ELSE @]
    OBVIOUS
  <2>3. PICK pieces : pieces = IF r.said = {} THEN r.held \cup a ELSE r.held
    OBVIOUS
  <2>4. a \subseteq Pieces
    BY <1>0, <2>1, PiecesApart DEF Run
  <2>5. r \in Run /\ r.window = run[t].window /\ r.held \subseteq Pieces
    BY <1>0, <2>2, <2>4 DEF Run
  <2>6. pieces \in SUBSET Pieces
    BY <2>3, <2>4, <2>5
  <2>7. IF pieces = {}
        THEN run' = [run EXCEPT ![t] = [r EXCEPT !.at = "settle"]] /\ UNCHANGED <<reader, faults>>
        ELSE _write(t, pieces, r, "settle", "failing")
    BY <1>5, <2>1, <2>2, <2>3 DEF answer
  <2>8. CASE pieces = {}
    <3>1. PICK n : n = [r EXCEPT !.at = "settle"]
      OBVIOUS
    <3>2. n.window = run[t].window
      BY <2>5, <3>1 DEF Run
    <3>3. run' = [run EXCEPT ![t] = n]
      BY <2>7, <2>8, <3>1
    <3> QED
      BY <3>2, <3>3, ReplacedKeeps DEF Replaced
  <2>9. CASE pieces # {}
    <3>1. "settle" \in Live /\ "failing" \in Live
      BY DEF Live
    <3>2. _write(t, pieces, r, "settle", "failing")
      BY <2>7, <2>9
    <3> QED
      BY <2>5, <2>6, <3>1, <3>2, WriteKeeps
  <2> QED
    BY <2>8, <2>9
<1>6. CASE settle(t)
  <2>1. \/ Goto(t, "close") \/ Goto(t, "failing")
        \/ run' = [run EXCEPT ![t].at = "failing", ![t].mishaps = @ \cup {"unheard"}]
    BY <1>6, Zenon DEF settle
  <2> QED
    BY <2>1, GotoKeeps, MishapKeeps, ReplacedKeeps
<1>7. CASE _settle_failed(t)
  <2>1. PICK pieces : pieces = run[t].held \cup {IF run[t].said = {} THEN UNAVAILABLE ELSE TRUNCATED}
    OBVIOUS
  <2>2. pieces \in SUBSET Pieces
    BY <1>0, <2>1, PiecesApart DEF Run
  <2>3. _write(t, pieces, run[t], "unsettled", "close") /\ "unsettled" \in Live /\ "close" \in Live
    BY <1>7, <2>1 DEF _settle_failed, Live
  <2> QED
    BY <1>0, <2>2, <2>3, WriteKeeps
<1>8. CASE SettleFailedRow(t)
  <2>1. \/ Goto(t, "close")
        \/ run' = [run EXCEPT ![t].at = "close", ![t].mishaps = @ \cup {"unwritten"}]
    BY <1>8, Zenon DEF SettleFailedRow
  <2> QED
    BY <2>1, GotoKeeps, MishapKeeps, ReplacedKeeps
<1>9. CASE close(t)
  <2>1. PICK w : w = wait_for_reader(t, run[t])
    OBVIOUS
  <2>2. w.window = run[t].window
    BY <1>0, <2>1 DEF wait_for_reader, Run
  <2>3. PICK n : n = Over(w)
    OBVIOUS
  <2>4. n.window = run[t].window
    BY <2>2, <2>3 DEF Over, NoRun
  <2>5. run' = [run EXCEPT ![t] = n]
    BY <1>0, <1>9, <2>1, <2>3 DEF close
  <2> QED
    BY <2>4, <2>5, ReplacedKeeps DEF Replaced
<1>10. CASE ProviderFails(t)
  <2>1. PICK n : n = IF run[t].chunks = 0 /\ run[t].spec < Len(Specs)
                     THEN [run[t] EXCEPT !.spec = run[t].spec + 1] ELSE [run[t] EXCEPT !.at = "failing"]
    OBVIOUS
  <2>2. n.window = run[t].window
    BY <1>0, <2>1 DEF Run
  <2>3. run' = [run EXCEPT ![t] = n]
    BY <1>10, <2>1 DEF ProviderFails
  <2> QED
    BY <2>2, <2>3, ReplacedKeeps DEF Replaced
<1>11. CASE Cancel(t)
  <2>1. PICK at : at = IF run[t].at \in {"failing", "unsettled"} THEN "close" ELSE "failing"
    OBVIOUS
  <2>2. PICK n : n = [run[t] EXCEPT !.mishaps = @ \cup {"cancelled"}, !.at = at]
    OBVIOUS
  <2>3. n.window = run[t].window
    BY <1>0, <2>2 DEF Run
  <2>4. run' = [run EXCEPT ![t] = n]
    BY <1>0, <1>11, <2>1, <2>2 DEF Cancel
  <2> QED
    BY <2>3, <2>4, ReplacedKeeps DEF Replaced
<1> QED
  BY <1>1, <1>2, <1>3, <1>4, <1>5, <1>6, <1>7, <1>8, <1>9, <1>10, <1>11 DEF Work

\* Nor whose the question is.
LEMMA NextKeeps ==
    ASSUME TypeOK, NEW t \in Turns, Work(t) \/ ProviderFails(t) \/ Cancel(t) \/ Browser(t)
    PROVE  Kept
<1>0. ask \in [Turns -> Ask]
  BY DEF TypeOK
<1>1. CASE Work(t) \/ ProviderFails(t) \/ Cancel(t)
  <2>1. UNCHANGED <<ask, owner, filed>>
    BY <1>1, Zenon DEF Work, guard, retrieve_node, generate, ground, answer, settle,
       _settle_failed, SettleFailedRow, close, ProviderFails, Cancel
  <2> QED
    BY <1>1, <2>1, WorkKeeps DEF Kept, Asked
<1>2. CASE ReadCards(t) \/ resume(t)
  BY <1>2 DEF ReadCards, resume, Kept, Asked
<1>3. CASE follow(t) \/ SendFails(t)
  <2>1. PICK k : k = [ask[t] EXCEPT !.at = "read"]
    OBVIOUS
  <2>2. k.at = "read" /\ k.user = ask[t].user
    BY <1>0, <2>1 DEF Ask
  <2>3. ask' = [ask EXCEPT ![t] = k]
    BY <1>0, <1>3, <2>1 DEF follow, SendFails
  <2>4. ask'[t] = k /\ \A s \in Turns \ {t} : ask'[s] = ask[s]
    BY <1>0, <2>3
  <2>5. UNCHANGED <<owner, filed, run>>
    BY <1>3 DEF follow, SendFails
  <2> QED
    BY <2>2, <2>4, <2>5 DEF Kept, Asked
<1> QED
  BY <1>1, <1>2, <1>3 DEF Browser

\* Nor does the kill of the process.
LEMMA CrashKeeps == ASSUME TypeOK, Crash PROVE Kept
<1>1. ask \in [Turns -> Ask] /\ run \in [Turns -> Run]
  BY DEF TypeOK
<1>2. ASSUME NEW s \in Turns
      PROVE  /\ ask'[s].user = ask[s].user
             /\ ask'[s].at = IF ask[s].at = "sent" THEN "no" ELSE ask[s].at
  <2>1. ask'[s] = [ask[s] EXCEPT !.at = IF @ = "sent" THEN "no" ELSE @]
    BY DEF Crash
  <2> QED
    BY <1>1, <2>1 DEF Ask
<1>3. ASSUME NEW s \in Turns PROVE run'[s].window = run[s].window
  <2>1. run'[s] = IF run[s].at \in Live
                  THEN [Over(run[s]) EXCEPT !.mishaps = @ \cup {"crashed"}] ELSE run[s]
    BY DEF Crash
  <2>2. PICK o : o = Over(run[s])
    OBVIOUS
  <2>3. o.window = run[s].window /\ o \in [DOMAIN NoRun -> {o[x] : x \in DOMAIN NoRun}]
    BY <2>2 DEF Over, NoRun
  <2> QED
    BY <2>1, <2>2, <2>3 DEF NoRun
<1> QED
  BY <1>2, <1>3 DEF Crash, Kept, Asked

\* ensure_conversation lets only the owner in, so history is the owner's.
LEMMA ContextStart ==
    ASSUME TypeOK, TurnInv, ContextInv, NEW t \in Turns, start(t) PROVE ContextInv'
<1> DEFINE c == IF ask[t].conv = 0 THEN t ELSE ask[t].conv
           u == ask[t].user
           AskedThen(s) == ask'[s].at \notin {"idle", "sent"}
<1>1. /\ ask \in [Turns -> Ask] /\ run \in [Turns -> Run]
      /\ owner \in [Turns -> Customers \cup {NoUser}] /\ filed \in [Turns -> Seq(Turns)]
  BY DEF TypeOK
<1>2. ask[t].at = "sent" /\ ask[t] \in Ask /\ u # NoUser
  BY <1>1 DEF start, ContextInv
<1>3. c \in Turns
  <2>1. ask[t].conv \in 0..MaxTurns
    BY <1>2 DEF Ask
  <2> QED
    BY <2>1, BoundsAreNat DEF Turns
<1>4. /\ \A s \in Turns : ask'[s].user = ask[s].user
      /\ \A s \in Turns \ {t} : ask'[s] = ask[s]
      /\ ask'[t].at \in {"ok", "no"}
  <2>1. PICK at \in {"ok", "no"} :
          ask' = [ask EXCEPT ![t].at = at, ![t].conv = c] \/ ask' = [ask EXCEPT ![t].at = at]
    <3>1. \/ ask' = [ask EXCEPT ![t].at = "ok", ![t].conv = c]
          \/ ask' = [ask EXCEPT ![t].at = "no", ![t].conv = c]
          \/ ask' = [ask EXCEPT ![t].at = "no"]
      BY DEF start
    <3> QED
      BY <3>1
  <2>2. PICK k, l : k = [ask[t] EXCEPT !.at = at, !.conv = c] /\ l = [ask[t] EXCEPT !.at = at]
    OBVIOUS
  <2>3. k.at = at /\ k.user = u /\ l.at = at /\ l.user = u
    BY <1>2, <2>2 DEF Ask
  <2>4. ask' = [ask EXCEPT ![t] = k] \/ ask' = [ask EXCEPT ![t] = l]
    BY <1>1, <2>1, <2>2
  <2>5. CASE ask' = [ask EXCEPT ![t] = k]
    BY <1>1, <2>3, <2>5
  <2>6. CASE ask' = [ask EXCEPT ![t] = l]
    BY <1>1, <2>3, <2>6
  <2> QED
    BY <2>4, <2>5, <2>6
<1> HIDE DEF c
<1>5. \A s \in Turns : AskedThen(s) <=> Asked(s) \/ s = t
  BY <1>2, <1>4 DEF Asked, AskedThen
<1> HIDE DEF AskedThen
<1>6. \A x \in Turns : \A i \in 1..Len(filed[x]) : filed[x][i] \in Turns
  BY <1>1
<1>7. \A x \in Turns : run[x].window \subseteq Turns
  BY <1>1 DEF Run
<1>8. CASE ensure_conversation(c, u)
  <2>1. /\ owner' = [owner EXCEPT ![c] = u]
        /\ filed' = [filed EXCEPT ![c] = Append(@, t)]
        /\ run' = [run EXCEPT ![t].at = "guard", ![t].window = history(c)]
    BY <1>8 DEF start, c
  <2>2. \A x \in Turns \ {c} : owner'[x] = owner[x] /\ filed'[x] = filed[x]
    BY <1>1, <2>1
  <2>3. owner'[c] = u /\ filed'[c] = Append(filed[c], t) /\ filed[c] \in Seq(Turns)
    BY <1>1, <1>3, <2>1
  <2>4. /\ Len(filed'[c]) = Len(filed[c]) + 1 /\ filed'[c][Len(filed[c]) + 1] = t
        /\ \A i \in 1..Len(filed[c]) : filed'[c][i] = filed[c][i]
    BY <2>3
  <2>5. \A i \in 1..Len(filed[c]) : Asked(filed[c][i]) /\ ask[filed[c][i]].user = u
    BY <1>3, <1>8 DEF ensure_conversation, ContextInv
  <2>6. run'[t].window = history(c) /\ \A s \in Turns \ {t} : run'[s] = run[s]
    <3>1. PICK n : n = [run[t] EXCEPT !.at = "guard", !.window = history(c)]
      OBVIOUS
    <3>2. run' = [run EXCEPT ![t] = n]
      BY <1>1, <2>1, <3>1
    <3>3. n.window = history(c)
      <4>1. run[t] \in Run
        BY <1>1
      <4> QED
        BY <3>1, <4>1 DEF Run
    <3> QED
      BY <1>1, <3>2, <3>3
  <2>7. \A s \in history(c) : s \in Turns /\ Asked(s) /\ ask[s].user = u
    BY <1>3, <2>5, HistoryIs
  <2>8. ASSUME NEW x \in Turns, NEW i \in 1..Len(filed'[x])
        PROVE  /\ owner'[x] # NoUser /\ AskedThen(filed'[x][i])
               /\ ask'[filed'[x][i]].user = owner'[x]
    <3>1. CASE x # c
      BY <1>4, <1>5, <1>6, <2>2, <2>8, <3>1 DEF ContextInv
    <3>2. CASE x = c
      <4>1. CASE i = Len(filed[c]) + 1
        <5>1. filed'[x][i] = t /\ owner'[x] = u
          BY <2>3, <2>4, <3>2, <4>1
        <5> QED
          BY <1>2, <1>4, <1>5, <5>1
      <4>2. CASE i # Len(filed[c]) + 1
        <5>1. i \in 1..Len(filed[c])
          <6>1. Len(filed[c]) \in Nat
            BY <2>3
          <6> QED
            BY <2>4, <2>8, <3>2, <4>2, <6>1
        <5>2. filed'[x][i] = filed[c][i] /\ filed[c][i] \in Turns
          BY <1>3, <1>6, <2>4, <3>2, <5>1
        <5>3. Asked(filed[c][i]) /\ ask[filed[c][i]].user = u /\ owner'[x] = u
          BY <2>3, <2>5, <3>2, <5>1
        <5>4. AskedThen(filed[c][i]) /\ ask'[filed[c][i]].user = u
          BY <1>4, <1>5, <5>2, <5>3
        <5> QED
          BY <1>2, <5>2, <5>3, <5>4
      <4> QED
        BY <4>1, <4>2
    <3> QED
      BY <3>1, <3>2
  <2>9. ASSUME NEW x \in Turns, NEW s \in run'[x].window
        PROVE  AskedThen(s) /\ AskedThen(x) /\ ask'[s].user = ask'[x].user
    <3>1. CASE x = t
      BY <1>4, <1>5, <2>6, <2>7, <2>9, <3>1
    <3>2. CASE x # t
      BY <1>4, <1>5, <1>7, <2>6, <2>9, <3>2 DEF ContextInv
    <3> QED
      BY <3>1, <3>2
  <2> USE DEF AskedThen
  <2>10. \A s \in Turns : ask'[s].at = "sent" => ask'[s].user # NoUser
    BY <1>4 DEF ContextInv
  <2> QED
    BY <2>8, <2>9, <2>10 DEF ContextInv, Asked
<1>9. CASE ~ensure_conversation(c, u)
  <2>1. UNCHANGED <<owner, filed, run>>
    BY <1>9 DEF start, c
  <2>2. Kept
    BY <1>4, <1>5, <2>1 DEF Kept, Asked
  <2> QED
    BY <2>2, KeptOk
<1> QED
  BY <1>8, <1>9

\* send: a question belongs to the customer who is signed in.
LEMMA ContextSend ==
    ASSUME TypeOK, ContextInv, NEW p \in Panels, NEW kind \in Kinds, send(p, kind)
    PROVE  ContextInv'
<1>1. PICK t \in Turns :
        /\ ask[t].at = "idle"
        /\ ask' = [ask EXCEPT ![t] = [at |-> "sent", panel |-> p, user |-> panel[p].user,
                                      conv |-> panel[p].conv, kind |-> kind]]
  BY DEF send
<1>2. ask \in [Turns -> Ask]
  BY DEF TypeOK
<1>3. /\ ask'[t].at = "sent" /\ ask'[t].user = panel[p].user
      /\ \A s \in Turns \ {t} : ask'[s] = ask[s]
  BY <1>1, <1>2
<1>4. panel[p].user # NoUser /\ UNCHANGED <<owner, filed, run>>
  BY DEF send
<1>5. \A x \in Turns : \A i \in 1..Len(filed[x]) : filed[x][i] \in Turns
  BY DEF TypeOK
<1>6. \A x \in Turns : run[x].window \subseteq Turns
  BY DEF TypeOK, Run
<1> DEFINE AskedThen(s) == ask'[s].at \notin {"idle", "sent"}
<1>7. ~Asked(t)
  BY <1>1 DEF Asked
<1>8. \A s \in Turns : Asked(s) => AskedThen(s) /\ ask'[s].user = ask[s].user
  BY <1>3, <1>7 DEF Asked
<1> HIDE DEF AskedThen
<1>9. \A s \in Turns : ask'[s].at = "sent" => ask'[s].user # NoUser
  BY <1>3, <1>4 DEF ContextInv
<1>10. \A c \in Turns : \A i \in 1..Len(filed[c]) :
          owner[c] # NoUser /\ AskedThen(filed[c][i]) /\ ask'[filed[c][i]].user = owner[c]
  BY <1>5, <1>8 DEF ContextInv
<1>11. \A x \in Turns : \A s \in run[x].window :
          AskedThen(s) /\ AskedThen(x) /\ ask'[s].user = ask'[x].user
  BY <1>6, <1>8 DEF ContextInv
<1> USE DEF AskedThen
<1> QED
  BY <1>4, <1>9, <1>10, <1>11 DEF ContextInv, Asked

\* What a turn is shown of its conversation was asked by the customer who asks
\* now, when a tab keeps the conversation of the one before (ensure_conversation).
THEOREM ContextCorrect == Spec => []OwnContext
<1>1. Init => ContextInv
  <2> SUFFICES ASSUME Init PROVE ContextInv
    OBVIOUS
  <2>1. \A t \in Turns : ask[t].at = "idle"
    BY DEF Init, Start
  <2>2. \A t \in Turns : run[t].window = {} /\ filed[t] = <<>>
    BY DEF Init, Start, NoRun
  <2> QED
    BY <2>1, <2>2 DEF ContextInv
<1>2. TypeOK /\ TurnInv /\ ContextInv /\ [Next]_vars => ContextInv'
  <2> SUFFICES ASSUME TypeOK, TurnInv, ContextInv, [Next]_vars PROVE ContextInv'
    OBVIOUS
  <2>1. ASSUME NEW p \in Panels, NEW kind \in Kinds, send(p, kind) PROVE ContextInv'
    BY <2>1, ContextSend
  <2>2. ASSUME NEW p \in Panels, NEW u \in Customers, SwitchUser(p, u) PROVE ContextInv'
    BY <2>2, KeptOk DEF SwitchUser, Kept, Asked
  <2>3. ASSUME NEW t \in Turns, start(t) PROVE ContextInv'
    BY <2>3, ContextStart
  <2>4. ASSUME NEW t \in Turns, Work(t) \/ ProviderFails(t) \/ Cancel(t) \/ Browser(t)
        PROVE  ContextInv'
    BY <2>4, NextKeeps, KeptOk
  <2>5. CASE Crash
    BY <2>5, CrashKeeps, KeptOk
  <2>6. CASE UNCHANGED vars
    BY <2>6, KeptOk DEF vars, Kept, Asked
  <2> QED
    BY <2>1, <2>2, <2>3, <2>4, <2>5, <2>6 DEF Next
<1>3. ContextInv => OwnContext
  BY DEF ContextInv, OwnContext
<1> QED
  BY <1>1, <1>2, <1>3, TurnsHold, PTL DEF Spec

-----------------------------------------------------------------------------
(* Lists.  What is shown and staged has no closed set of values, so a list  *)
(* is a sequence over its own elements.                                     *)

IsList(s) == s \in Seq(Range(s))

LEMMA ListLen == ASSUME NEW s, IsList(s) PROVE Len(s) \in Nat /\ DOMAIN s = 1 .. Len(s)
BY DEF IsList

LEMMA EmptyList == IsList(<<>>) /\ Len(<<>>) = 0
BY EmptySeq DEF IsList

LEMMA ListAppend ==
    ASSUME NEW s, IsList(s), NEW e
    PROVE  /\ IsList(Append(s, e)) /\ Len(Append(s, e)) = Len(s) + 1
           /\ \A i \in 1 .. Len(s) : Append(s, e)[i] = s[i]
           /\ Append(s, e)[Len(s) + 1] = e
<1>1. PICK T : T = Range(s) \cup {e}
  OBVIOUS
<1>2. s \in Seq(T)
  BY <1>1, SeqMonotonic DEF IsList
<1>3. /\ Append(s, e) \in Seq(T) /\ Len(Append(s, e)) = Len(s) + 1
      /\ \A i \in 1 .. Len(s) : Append(s, e)[i] = s[i]
      /\ Append(s, e)[Len(s) + 1] = e
  BY <1>1, <1>2, AppendProperties
<1>4. IsList(Append(s, e))
  BY <1>3, SeqOfRange DEF IsList
<1> QED
  BY <1>3, <1>4

LEMMA ListConcat ==
    ASSUME NEW s, IsList(s), NEW T, NEW t \in Seq(T)
    PROVE  /\ IsList(s \o t) /\ Len(s \o t) = Len(s) + Len(t)
           /\ \A i \in 1 .. Len(s) + Len(t) :
                 (s \o t)[i] = IF i <= Len(s) THEN s[i] ELSE t[i - Len(s)]
<1>1. PICK U : U = Range(s) \cup T
  OBVIOUS
<1>2. s \in Seq(U) /\ t \in Seq(U)
  BY <1>1, SeqMonotonic DEF IsList
<1>3. /\ s \o t \in Seq(U) /\ Len(s \o t) = Len(s) + Len(t)
      /\ \A i \in 1 .. Len(s) + Len(t) :
            (s \o t)[i] = IF i <= Len(s) THEN s[i] ELSE t[i - Len(s)]
  BY <1>2, ConcatProperties
<1>4. IsList(s \o t)
  BY <1>3, SeqOfRange DEF IsList
<1> QED
  BY <1>3, <1>4

\* A finite set in some order has each of its elements once.
LEMMA SetInOrder ==
    ASSUME NEW S, IsFiniteSet(S)
    PROVE  /\ Cardinality(S) \in Nat
           /\ SetToSeq(S) \in [1 .. Cardinality(S) -> S]
           /\ \A x \in S : \E n \in 1 .. Cardinality(S) : SetToSeq(S)[n] = x
           /\ \A m, n \in 1 .. Cardinality(S) : SetToSeq(S)[m] = SetToSeq(S)[n] => m = n
<1>1. Cardinality(S) \in Nat /\ ExistsBijection(1 .. Cardinality(S), S)
  BY FS_CardinalityType
<1>2. PICK N \in Nat : N = Cardinality(S)
  BY <1>1
<1>3. \E f \in [1 .. N -> S] : IsInjective(f)
  BY <1>1, <1>2 DEF ExistsBijection, Bijection, Injection
<1>4. SetToSeq(S) \in [1 .. N -> S] /\ IsInjective(SetToSeq(S))
  BY <1>2, <1>3 DEF SetToSeq
<1>5. PICK f : f = SetToSeq(S)
  OBVIOUS
<1>6. f \in Injection(1 .. N, S)
  BY <1>4, <1>5 DEF Injection
<1>7. IsFiniteSet(1 .. N) /\ Cardinality(1 .. N) = N
  BY FS_Interval
<1>8. f \in Surjection(1 .. N, S)
  BY <1>2, <1>6, <1>7, FS_Injection
<1>9. /\ \A x \in S : \E n \in 1 .. N : f[n] = x
      /\ \A m, n \in 1 .. N : f[m] = f[n] => m = n
  BY <1>6, <1>8 DEF Injection, Surjection, IsInjective
<1> QED
  BY <1>1, <1>2, <1>4, <1>5, <1>9

-----------------------------------------------------------------------------
(* Recommendations.  Every showing and order has its own instant, so an     *)
(* order's owed credits are settled the moment it is placed; the first      *)
(* handling pays them all and a redelivery finds them paid.                 *)

Handled(o) == \E d \in Dishes : <<o, d>> \in rows
Fact(k, o) == <<"RecommendationAccepted", k, o>>

Shows ==
    /\ clock \in Nat /\ IsList(showings)
    /\ \A k \in DOMAIN showings : showings[k].at \in Nat /\ showings[k].at < clock
Orders ==
    /\ IsFiniteSet(DOMAIN placed) /\ DOMAIN placed \subseteq OrderIds
    /\ \A o \in DOMAIN placed : /\ placed[o].at \in Nat /\ placed[o].at < clock
                                /\ placed[o].dishes \subseteq Dishes /\ placed[o].dishes # {}
History ==
    /\ IsList(ofeed) /\ oread \in Nat
    /\ \A i \in DOMAIN ofeed : ofeed[i] \in DOMAIN placed
    /\ \A e \in rows : \E o \in DOMAIN placed, d \in Dishes : e = <<o, d>>
Tastes ==
    /\ profile = [u \in Users |-> profile[u]]
    /\ \A u \in Users :
          /\ profile[u] # NoProfile => profile[u].rows # {}
          /\ \A e \in profile[u].rows : e[1] \in DOMAIN placed /\ placed[e[1]].user = u
Claims ==
    /\ acceptances \subseteq (DOMAIN showings) \X (DOMAIN placed)
    /\ \A k \in DOMAIN showings, o \in DOMAIN placed :
          <<k, o>> \in acceptances <=> Handled(o) /\ k \in Taken(o)
Facts ==
    /\ IsList(staged)
    /\ \A n \in DOMAIN staged :
          \/ \E k : staged[n] = <<"RecommendationShown", k>>
          \/ \E p \in acceptances : staged[n] = Fact(p[1], p[2])
    /\ \A p \in acceptances : \E n \in DOMAIN staged : staged[n] = Fact(p[1], p[2])
    /\ \A p \in acceptances : \A m, n \in DOMAIN staged :
          staged[m] = Fact(p[1], p[2]) /\ staged[n] = Fact(p[1], p[2]) => m = n

ShopInv == Shows /\ Orders /\ History /\ Tastes /\ Claims /\ Facts

LEMMA ShopInit == PlaneInit => ShopInv
<1> SUFFICES ASSUME PlaneInit PROVE ShopInv
  OBVIOUS
<1>1. RInit /\ DOMAIN <<>> = {}
  BY DEF PlaneInit
<1>2. DOMAIN placed = {}
  BY <1>1 DEF RInit
<1>3. Shows /\ Orders /\ History
  BY <1>1, <1>2, EmptyList, FS_EmptySet DEF Shows, Orders, History, RInit
<1>4. Tastes
  BY <1>1 DEF Tastes, RInit, NoProfile
<1>5. Claims /\ Facts
  BY <1>1, <1>2, EmptyList DEF Claims, Facts, RInit
<1> QED
  BY <1>3, <1>4, <1>5 DEF ShopInv

\* The lists a step leaves alone.
LEMMA ShowsStay ==
    ASSUME Shows, UNCHANGED showings, clock' = clock \/ clock' = clock + 1 PROVE Shows'
BY DEF Shows
LEMMA OrdersStay ==
    ASSUME Orders, Shows, UNCHANGED placed, clock' = clock \/ clock' = clock + 1 PROVE Orders'
BY DEF Orders, Shows
LEMMA HistoryStays == ASSUME History, UNCHANGED <<placed, ofeed, oread, rows>> PROVE History'
BY DEF History
LEMMA TastesStay == ASSUME Tastes, UNCHANGED <<placed, profile>> PROVE Tastes'
BY DEF Tastes
LEMMA ClaimsStay ==
    ASSUME Claims, UNCHANGED <<showings, placed, rows, acceptances>> PROVE Claims'
BY DEF Claims, Handled, Taken, recent_showings
LEMMA FactsStay == ASSUME Facts, UNCHANGED <<acceptances, staged>> PROVE Facts'
BY DEF Facts

\* A showing is later than every order there is, so it takes no credit yet.
LEMMA ShownKeeps ==
    ASSUME ShopInv, NEW u, NEW ds, record_shown(u, ds), clock' = clock + 1,
           UNCHANGED <<placed, ofeed, oread, rows, acceptances, profile>>
    PROVE  ShopInv'
<1>1. CASE UNCHANGED <<showings, staged>>
  BY <1>1, ShowsStay, OrdersStay, HistoryStays, TastesStay, ClaimsStay, FactsStay DEF ShopInv
<1>2. CASE /\ showings' = Append(showings, [user |-> u, dishes |-> ds, at |-> clock])
           /\ staged' = Append(staged, <<"RecommendationShown", Len(showings) + 1>>)
  <2>1. PICK N, new, fact : /\ N = Len(showings) /\ new = [user |-> u, dishes |-> ds, at |-> clock]
                            /\ fact = <<"RecommendationShown", N + 1>>
    OBVIOUS
  <2>2. /\ N \in Nat /\ DOMAIN showings = 1 .. N /\ clock \in Nat
        /\ showings' = Append(showings, new) /\ staged' = Append(staged, fact)
    BY <1>2, <2>1, ListLen DEF ShopInv, Shows
  <2>3. /\ IsList(showings') /\ DOMAIN showings' = 1 .. N + 1
        /\ \A k \in 1 .. N : showings'[k] = showings[k]
        /\ showings'[N + 1] = new
    BY <2>1, <2>2, ListAppend, ListLen DEF ShopInv, Shows
  <2>4. Shows'
    BY <2>1, <2>2, <2>3 DEF ShopInv, Shows
  <2>5. Orders' /\ History' /\ Tastes'
    BY OrdersStay, HistoryStays, TastesStay DEF ShopInv
  <2>6. ASSUME NEW k \in DOMAIN showings', NEW o \in DOMAIN placed
        PROVE  (<<k, o>> \in acceptances <=> Handled(o) /\ k \in Taken(o))'
    <3>1. CASE k \in 1 .. N
      <4>1. (k \in Taken(o))' <=> k \in Taken(o)
        BY <2>2, <2>3, <3>1 DEF Taken, recent_showings
      <4> QED
        BY <2>2, <3>1, <4>1 DEF ShopInv, Claims, Handled
    <3>2. CASE k = N + 1
      <4>1. <<k, o>> \notin acceptances
        BY <2>2, <3>2 DEF ShopInv, Claims
      <4>2. placed[o].at \in Nat /\ placed[o].at < clock /\ showings'[k].at = clock
        BY <2>1, <2>3, <3>2 DEF ShopInv, Orders
      <4>3. ~(k \in Taken(o))'
        BY <2>2, <4>2 DEF Taken, recent_showings
      <4> QED
        BY <4>1, <4>3
    <3> QED
      BY <2>2, <2>3, <3>1, <3>2
  <2>7. Claims'
    BY <2>2, <2>3, <2>6 DEF ShopInv, Claims
  <2>8. PICK M : M = Len(staged) /\ M \in Nat /\ DOMAIN staged = 1 .. M
    BY ListLen DEF ShopInv, Facts
  <2>9. /\ IsList(staged') /\ DOMAIN staged' = 1 .. M + 1
        /\ \A n \in 1 .. M : staged'[n] = staged[n]
        /\ staged'[M + 1] = fact
    BY <2>2, <2>8, ListAppend, ListLen DEF ShopInv, Facts
  <2>10. \A k, o : fact # Fact(k, o)
    BY <2>1 DEF Fact
  <2>11. \A n \in DOMAIN staged' :
            \/ \E k : staged'[n] = <<"RecommendationShown", k>>
            \/ \E p \in acceptances : staged'[n] = Fact(p[1], p[2])
    BY <2>1, <2>8, <2>9 DEF ShopInv, Facts
  <2>12. ASSUME NEW p \in acceptances
         PROVE  /\ \E n \in DOMAIN staged' : staged'[n] = Fact(p[1], p[2])
                /\ \A m, n \in DOMAIN staged' :
                      staged'[m] = Fact(p[1], p[2]) /\ staged'[n] = Fact(p[1], p[2]) => m = n
    <3>1. PICK f : f = Fact(p[1], p[2])
      OBVIOUS
    <3>2. /\ \E n \in 1 .. M : staged[n] = f
          /\ \A m, n \in 1 .. M : staged[m] = f /\ staged[n] = f => m = n
          /\ f # fact
      BY <2>8, <2>10, <3>1 DEF ShopInv, Facts
    <3>3. /\ \E n \in 1 .. M + 1 : staged'[n] = f
          /\ \A m, n \in 1 .. M + 1 : staged'[m] = f /\ staged'[n] = f => m = n
      BY <2>8, <2>9, <3>2
    <3> QED
      BY <2>9, <3>1, <3>3
  <2>13. Facts'
    BY <2>9, <2>11, <2>12 DEF Facts
  <2> QED
    BY <2>4, <2>5, <2>7, <2>13 DEF ShopInv
<1> QED
  BY <1>1, <1>2 DEF record_shown

LEMMA PlacedKeeps == ASSUME ShopInv, NEW u, PlaceOrder(u) PROVE ShopInv'
<1>1. PICK o : o = NextOrder
  OBVIOUS
<1>2. /\ OrderIds # DOMAIN placed /\ clock' = clock + 1 /\ ofeed' = Append(ofeed, o)
      /\ UNCHANGED <<showings, oread, rows, acceptances, staged, profile>>
  BY <1>1 DEF PlaceOrder
<1>3. o \in OrderIds /\ o \notin DOMAIN placed
  BY <1>1, <1>2 DEF NextOrder, ShopInv, Orders
<1>4. /\ DOMAIN placed' = DOMAIN placed \cup {o}
      /\ \A x \in DOMAIN placed : placed'[x] = placed[x]
      /\ placed'[o].at = clock /\ placed'[o].dishes \subseteq Dishes /\ placed'[o].dishes # {}
  <2>1. PICK r \in Branches, ds \in (SUBSET Dishes) \ {{}} :
            placed' = [x \in DOMAIN placed \cup {o} |->
                          IF x = o THEN [user |-> u, place |-> r, dishes |-> ds, at |-> clock]
                          ELSE placed[x]]
    BY <1>1 DEF PlaceOrder
  <2> QED
    BY <1>3, <2>1
<1>5. Shows'
  BY <1>2, ShowsStay DEF ShopInv
<1>6. Orders'
  <2>1. IsFiniteSet(DOMAIN placed')
    BY <1>3, <1>4, FS_AddElement DEF ShopInv, Orders
  <2> QED
    BY <1>2, <1>3, <1>4, <2>1 DEF ShopInv, Orders, Shows
<1>7. History'
  <2>1. PICK N : N = Len(ofeed) /\ N \in Nat /\ DOMAIN ofeed = 1 .. N
    BY ListLen DEF ShopInv, History
  <2>2. /\ IsList(ofeed') /\ DOMAIN ofeed' = 1 .. N + 1
        /\ \A i \in 1 .. N : ofeed'[i] = ofeed[i]
        /\ ofeed'[N + 1] = o
    BY <1>2, <2>1, ListAppend, ListLen DEF ShopInv, History
  <2>3. \A i \in DOMAIN ofeed' : ofeed'[i] \in DOMAIN placed'
    BY <1>4, <2>1, <2>2 DEF ShopInv, History
  <2> QED
    BY <1>2, <1>4, <2>2, <2>3 DEF ShopInv, History
<1>8. Tastes'
  BY <1>2, <1>4 DEF ShopInv, Tastes
<1>9. Claims'
  <2>1. ASSUME NEW k \in DOMAIN showings, NEW x \in DOMAIN placed'
        PROVE  (<<k, x>> \in acceptances <=> Handled(x) /\ k \in Taken(x))'
    <3>1. CASE x \in DOMAIN placed
      <4>1. (k \in Taken(x))' <=> k \in Taken(x)
        BY <1>2, <1>4, <3>1 DEF Taken, recent_showings
      <4> QED
        BY <1>2, <3>1, <4>1 DEF ShopInv, Claims, Handled
    <3>2. CASE x = o
      <4>1. <<k, x>> \notin acceptances
        BY <1>3, <3>2 DEF ShopInv, Claims
      <4>2. ~Handled(x)
        BY <1>3, <3>2 DEF ShopInv, History, Handled
      <4> QED
        BY <1>2, <4>1, <4>2 DEF Handled
    <3> QED
      BY <1>4, <3>1, <3>2
  <2> QED
    BY <1>2, <1>4, <2>1 DEF ShopInv, Claims
<1>10. Facts'
  BY <1>2, FactsStay DEF ShopInv
<1> QED
  BY <1>5, <1>6, <1>7, <1>8, <1>9, <1>10 DEF ShopInv

\* The first handling credits every showing the order took; another finds none.
LEMMA HandledKeeps == ASSUME ShopInv, handle_batch PROVE ShopInv'
<1>1. PICK o : o = ofeed[oread + 1]
  OBVIOUS
<1>2. PICK claimed : claimed = {k \in Taken(o) : <<k, o>> \notin acceptances}
  OBVIOUS
<1>3. PICK new : new = [n \in 1 .. Cardinality(claimed) |->
                          <<"RecommendationAccepted", SetToSeq(claimed)[n], o>>]
  OBVIOUS
<1>4. /\ rows' = rows \cup order_rows(o) /\ oread' = oread + 1
      /\ acceptances' = acceptances \cup {<<k, o>> : k \in claimed}
      /\ staged' = staged \o new
      /\ UNCHANGED <<clock, showings, placed, ofeed, profile>>
  BY <1>1, <1>2, <1>3 DEF handle_batch, record_acceptance
<1>5. o \in DOMAIN placed
  <2>1. DOMAIN ofeed = 1 .. Len(ofeed) /\ Len(ofeed) \in Nat
    BY ListLen DEF ShopInv, History
  <2>2. oread + 1 \in DOMAIN ofeed
    BY <2>1 DEF handle_batch, ShopInv, History
  <2> QED
    BY <1>1, <2>2 DEF ShopInv, History
<1>6. claimed \subseteq DOMAIN showings /\ IsFiniteSet(claimed)
  <2>1. PICK N : N = Len(showings) /\ N \in Nat /\ DOMAIN showings = 1 .. N
    BY ListLen DEF ShopInv, Shows
  <2>2. claimed \subseteq DOMAIN showings
    BY <1>2 DEF Taken, recent_showings
  <2>3. IsFiniteSet(1 .. N)
    BY <2>1, FS_Interval
  <2> QED
    BY <2>1, <2>2, <2>3, FS_Subset
<1>7. Shows' /\ Orders' /\ Tastes'
  BY <1>4, ShowsStay, OrdersStay, TastesStay DEF ShopInv
<1>8. \A e \in order_rows(o) : \E d \in Dishes : e = <<o, d>>
  BY <1>5 DEF order_rows, ShopInv, Orders
<1>9. History'
  BY <1>4, <1>5, <1>8 DEF ShopInv, History
<1>10. \A x : (Handled(x))' <=> Handled(x) \/ x = o
  <2>1. PICK d : d \in placed[o].dishes /\ d \in Dishes
    BY <1>5 DEF ShopInv, Orders
  <2>2. <<o, d>> \in rows'
    BY <1>4, <2>1 DEF order_rows
  <2> QED
    BY <1>4, <1>8, <2>1, <2>2 DEF Handled
<1>11. \A x : (Taken(x))' = Taken(x)
  BY <1>4 DEF Taken, recent_showings
<1>12. Claims'
  <2>1. acceptances' \subseteq (DOMAIN showings) \X (DOMAIN placed)
    BY <1>4, <1>5, <1>6 DEF ShopInv, Claims
  <2>2. ASSUME NEW k \in DOMAIN showings, NEW x \in DOMAIN placed
        PROVE  <<k, x>> \in acceptances' <=> Handled(x)' /\ k \in Taken(x)
    <3>1. <<k, x>> \in acceptances' <=> <<k, x>> \in acceptances \/ (x = o /\ k \in claimed)
      BY <1>4
    <3>2. <<k, x>> \in acceptances <=> Handled(x) /\ k \in Taken(x)
      BY DEF ShopInv, Claims
    <3>3. CASE x # o
      BY <1>10, <3>1, <3>2, <3>3
    <3>4. CASE x = o
      BY <1>2, <1>10, <3>1, <3>2, <3>4
    <3> QED
      BY <3>3, <3>4
  <2> QED
    BY <1>4, <1>11, <2>1, <2>2 DEF Claims
<1>13. PICK c, f : c = Cardinality(claimed) /\ f = SetToSeq(claimed)
  OBVIOUS
<1>14. /\ c \in Nat /\ f \in [1 .. c -> claimed]
       /\ \A x \in claimed : \E n \in 1 .. c : f[n] = x
       /\ \A m, n \in 1 .. c : f[m] = f[n] => m = n
  BY <1>6, <1>13, SetInOrder
<1>15. /\ IsList(staged') /\ Len(staged) \in Nat /\ DOMAIN staged = 1 .. Len(staged)
       /\ DOMAIN staged' = 1 .. Len(staged) + c
       /\ \A i \in 1 .. Len(staged) : staged'[i] = staged[i]
       /\ \A n \in 1 .. c : staged'[Len(staged) + n] = Fact(f[n], o)
  <2>1. PICK T : T = {Fact(f[n], o) : n \in 1 .. c}
    OBVIOUS
  <2>2. new = [n \in 1 .. c |-> Fact(f[n], o)]
    BY <1>3, <1>13 DEF Fact
  <2>3. new \in Seq(T) /\ Len(new) = c
    BY <1>14, <2>1, <2>2
  <2>4. IsList(staged) /\ Len(staged) \in Nat /\ DOMAIN staged = 1 .. Len(staged)
    BY ListLen DEF ShopInv, Facts
  <2>5. /\ IsList(staged \o new) /\ Len(staged \o new) = Len(staged) + Len(new)
        /\ \A i \in 1 .. Len(staged) + Len(new) :
              (staged \o new)[i] = IF i <= Len(staged) THEN staged[i] ELSE new[i - Len(staged)]
    BY <2>3, <2>4, ListConcat
  <2>6. IsList(staged') /\ DOMAIN staged' = 1 .. Len(staged) + c
    BY <1>4, <2>3, <2>5, ListLen
  <2>7. \A i \in 1 .. Len(staged) : staged'[i] = staged[i]
    BY <1>4, <1>14, <2>3, <2>4, <2>5
  <2>8. ASSUME NEW n \in 1 .. c PROVE staged'[Len(staged) + n] = Fact(f[n], o)
    <3>1. Len(staged) + n \in 1 .. Len(staged) + c /\ ~(Len(staged) + n <= Len(staged))
          /\ (Len(staged) + n) - Len(staged) = n
      BY <1>14, <2>4
    <3>2. staged'[Len(staged) + n] = new[n]
      BY <1>4, <2>3, <2>5, <3>1
    <3> QED
      BY <2>2, <3>2
  <2> QED
    BY <2>4, <2>6, <2>7, <2>8
<1>16. PICK M : M = Len(staged) /\ M \in Nat
  BY <1>15
\* Where a place of the longer list comes from.
<1>17. ASSUME NEW n \in DOMAIN staged'
       PROVE  \/ n \in 1 .. M /\ n \in DOMAIN staged /\ staged'[n] = staged[n]
              \/ \E i \in 1 .. c : n = M + i /\ staged'[n] = Fact(f[i], o)
  <2>1. CASE n <= M
    BY <1>15, <1>16, <2>1
  <2>2. CASE ~(n <= M)
    <3>1. n - M \in 1 .. c /\ n = M + (n - M)
      BY <1>14, <1>15, <1>16, <2>2
    <3> QED
      BY <1>15, <1>16, <3>1
  <2> QED
    BY <2>1, <2>2
<1>18. Facts'
  <2>1. ASSUME NEW n \in DOMAIN staged'
        PROVE  \/ \E k : staged'[n] = <<"RecommendationShown", k>>
               \/ \E p \in acceptances' : staged'[n] = Fact(p[1], p[2])
    <3>1. CASE n \in DOMAIN staged /\ staged'[n] = staged[n]
      BY <1>4, <3>1 DEF ShopInv, Facts
    <3>2. ASSUME NEW i \in 1 .. c, staged'[n] = Fact(f[i], o)
          PROVE  \E p \in acceptances' : staged'[n] = Fact(p[1], p[2])
      <4>1. <<f[i], o>> \in acceptances'
        BY <1>4, <1>14
      <4> QED
        BY <3>2, <4>1
    <3> QED
      BY <1>17, <3>1, <3>2
  <2>2. ASSUME NEW p \in acceptances
        PROVE  /\ \E n \in DOMAIN staged' : staged'[n] = Fact(p[1], p[2])
               /\ \A m, n \in DOMAIN staged' :
                     staged'[m] = Fact(p[1], p[2]) /\ staged'[n] = Fact(p[1], p[2]) => m = n
    <3>1. \A i \in 1 .. c : Fact(f[i], o) # Fact(p[1], p[2])
      BY <1>2, <1>14 DEF Fact, ShopInv, Claims
    <3>2. \A n \in DOMAIN staged' : staged'[n] = Fact(p[1], p[2]) =>
              n \in DOMAIN staged /\ staged[n] = Fact(p[1], p[2])
      BY <1>17, <3>1
    <3>3. /\ \E n \in DOMAIN staged : staged[n] = Fact(p[1], p[2])
          /\ \A m, n \in DOMAIN staged :
                staged[m] = Fact(p[1], p[2]) /\ staged[n] = Fact(p[1], p[2]) => m = n
      BY DEF ShopInv, Facts
    <3>4. \E n \in DOMAIN staged' : staged'[n] = Fact(p[1], p[2])
      BY <1>14, <1>15, <3>3
    <3> QED
      BY <3>2, <3>3, <3>4
  <2>3. ASSUME NEW k \in claimed
        PROVE  /\ \E n \in DOMAIN staged' : staged'[n] = Fact(k, o)
               /\ \A m, n \in DOMAIN staged' :
                     staged'[m] = Fact(k, o) /\ staged'[n] = Fact(k, o) => m = n
    <3>1. PICK i \in 1 .. c : f[i] = k
      BY <1>14
    <3>2. M + i \in DOMAIN staged' /\ staged'[M + i] = Fact(k, o)
      BY <1>14, <1>15, <1>16, <3>1
    <3>3. \A n \in DOMAIN staged : staged[n] # Fact(k, o)
      BY <1>2 DEF ShopInv, Facts, Claims, Fact
    <3>4. ASSUME NEW n \in DOMAIN staged', staged'[n] = Fact(k, o) PROVE n = M + i
      <4>1. PICK j \in 1 .. c : n = M + j /\ staged'[n] = Fact(f[j], o)
        BY <1>17, <3>3, <3>4
      <4>2. f[j] = k
        BY <3>4, <4>1 DEF Fact
      <4>3. j = i
        BY <1>14, <3>1, <4>2
      <4> QED
        BY <4>1, <4>3
    <3> QED
      BY <3>2, <3>4
  <2>4. \A p \in acceptances' : p \in acceptances \/ \E k \in claimed : p = <<k, o>>
    BY <1>4
  <2>5. ASSUME NEW p \in acceptances'
        PROVE  /\ \E n \in DOMAIN staged' : staged'[n] = Fact(p[1], p[2])
               /\ \A m, n \in DOMAIN staged' :
                     staged'[m] = Fact(p[1], p[2]) /\ staged'[n] = Fact(p[1], p[2]) => m = n
    <3>1. CASE p \in acceptances
      BY <2>2, <3>1
    <3>2. ASSUME NEW k \in claimed, p = <<k, o>>
          PROVE  /\ \E n \in DOMAIN staged' : staged'[n] = Fact(p[1], p[2])
                 /\ \A m, n \in DOMAIN staged' :
                       staged'[m] = Fact(p[1], p[2]) /\ staged'[n] = Fact(p[1], p[2]) => m = n
      <4>1. p[1] = k /\ p[2] = o
        BY <3>2
      <4> QED
        BY <2>3, <4>1
    <3> QED
      BY <2>4, <3>1, <3>2
  <2> QED
    BY <1>15, <2>1, <2>5 DEF Facts
<1> QED
  BY <1>7, <1>9, <1>12, <1>18 DEF ShopInv

LEMMA CommitKeeps == ASSUME ShopInv, CommitOrders PROVE ShopInv'
<1>1. /\ oread > 0 /\ oread' = 0 /\ ofeed' = SubSeq(ofeed, oread + 1, Len(ofeed))
      /\ UNCHANGED <<clock, showings, placed, rows, acceptances, staged, profile>>
  BY DEF CommitOrders
<1>2. PICK N : N = Len(ofeed) /\ N \in Nat /\ DOMAIN ofeed = 1 .. N
  BY ListLen DEF ShopInv, History
<1>3. /\ oread \in Nat /\ \A i \in 1 .. N : ofeed[i] \in DOMAIN placed
  BY <1>2 DEF ShopInv, History
<1>4. \A i \in oread + 1 .. N : ofeed[i] \in DOMAIN placed
  BY <1>2, <1>3
<1>5. ofeed' \in Seq(DOMAIN placed)
  BY <1>1, <1>2, <1>3, <1>4, SubSeqProperties
<1>6. IsList(ofeed') /\ \A i \in DOMAIN ofeed' : ofeed'[i] \in DOMAIN placed
  BY <1>5, SeqOfRange, ElementOfSeq, LenProperties DEF IsList
<1>7. History'
  BY <1>1, <1>6 DEF ShopInv, History
<1> QED
  BY <1>1, <1>7, ShowsStay, OrdersStay, TastesStay, ClaimsStay, FactsStay DEF ShopInv

LEMMA ProfileKeeps == ASSUME ShopInv, NEW u \in Users, build_profiles(u) PROVE ShopInv'
<1>1. PICK new : new = [rows |-> taste_rows(u), views |-> viewed_restaurants(u)]
  OBVIOUS
<1>2. /\ taste_rows(u) # {} /\ profile' = [profile EXCEPT ![u] = new]
      /\ UNCHANGED <<clock, showings, placed, ofeed, oread, rows, acceptances, staged>>
  BY <1>1 DEF build_profiles
<1>3. /\ profile' = [x \in Users |-> profile'[x]] /\ profile'[u] = new
      /\ \A x \in Users \ {u} : profile'[x] = profile[x]
  BY <1>2 DEF ShopInv, Tastes
<1>4. \A e \in new.rows : e[1] \in DOMAIN placed /\ placed[e[1]].user = u
  BY <1>1 DEF taste_rows, UserOf, ShopInv, History
<1>5. new.rows # {}
  BY <1>1, <1>2
<1>6. Tastes'
  BY <1>2, <1>3, <1>4, <1>5 DEF ShopInv, Tastes
<1> QED
  BY <1>2, <1>6, ShowsStay, OrdersStay, HistoryStays, ClaimsStay, FactsStay DEF ShopInv

\* What the other steps do to the recommender's tables: nothing.
LEMMA ElsewhereKeeps ==
    ASSUME ShopInv, clock' = clock \/ clock' = clock + 1,
           UNCHANGED <<showings, placed, ofeed, rows, acceptances, staged, profile>>,
           oread' = oread \/ oread' = 0
    PROVE  ShopInv'
<1>1. History'
  BY DEF ShopInv, History
<1> QED
  BY <1>1, ShowsStay, OrdersStay, TastesStay, ClaimsStay, FactsStay DEF ShopInv

LEMMA ShoppingKeeps == ASSUME ShopInv, Shopping PROVE ShopInv'
<1>1. CASE Tick
  BY <1>1, ElsewhereKeeps DEF Tick
<1>2. ASSUME NEW u, recommendations(u) PROVE ShopInv'
  <2>1. \E ds : record_shown(u, ds)
    BY <1>2 DEF recommendations
  <2> QED
    BY <1>2, <2>1, ShownKeeps DEF recommendations
<1>3. ASSUME NEW u, _record_answer_shown(u) PROVE ShopInv'
  <2>1. \E ds : record_shown(u, ds)
    BY <1>3 DEF _record_answer_shown
  <2> QED
    BY <1>3, <2>1, ShownKeeps DEF _record_answer_shown
<1>4. ASSUME NEW u, NEW r, record_views(u, r) PROVE ShopInv'
  BY <1>4, ElsewhereKeeps DEF record_views
<1> QED
  BY <1>1, <1>2, <1>3, <1>4, PlacedKeeps DEF Shopping

LEMMA FeedingKeeps == ASSUME ShopInv, Feeding \/ Redelivered PROVE ShopInv'
<1>1. CASE Redelivered
  BY <1>1, ElsewhereKeeps DEF Redelivered
<1> QED
  BY <1>1, HandledKeeps, CommitKeeps, ProfileKeeps DEF Feeding

LEMMA StudioAside == ASSUME SNext PROVE UNCHANGED rvars
<1>1. CASE Asking
  BY <1>1 DEF Asking, draft_menu_items, summarise_feedback, _business_draft, AskedFor, Beside
<1>2. CASE Writing
  BY <1>2 DEF Writing, Enqueue, _run_job, run_draft, run_summary, DraftComplete, park, Worker
<1>3. CASE Pressing
  BY <1>3 DEF Pressing, publish, decline, retry, Press, Beside
<1>4. CASE Answering
  BY <1>4 DEF Answering, list_drafts, patchItem, approve, approve_decide, reject, reject_decide,
              replay, replay_draft, Console
<1>5. CASE SFaults
  BY <1>5 DEF SFaults, EnqueueFails, PermanentFailure, autoretry, ParkFails, WorkerLost,
              CallFails, ReplyLost, SwitchGeneration, ReviewGone, Beside
<1> QED
  BY <1>1, <1>2, <1>3, <1>4, <1>5 DEF SNext

LEMMA ShopKeeps == ASSUME ShopInv, [PlaneNext]_plane PROVE ShopInv'
<1>1. UNCHANGED rvars => ShopInv'
  BY ElsewhereKeeps DEF rvars
<1>2. CASE UNCHANGED plane \/ Indexes \/ SNext
  BY <1>1, <1>2, StudioAside DEF plane, Indexes
<1>3. CASE Recommends
  BY <1>3, ShoppingKeeps, FeedingKeeps DEF Recommends
<1> QED
  BY <1>2, <1>3 DEF PlaneNext

LEMMA ShopHolds == PlaneSpec => []ShopInv
BY ShopInit, ShopKeeps, PTL DEF PlaneSpec

\* Every order that was handled, however often it was delivered, is credited
\* exactly once to each showing it could have come from, and to no other (the
\* window of recent_showings, the claim of record_acceptance).
THEOREM CreditCorrect == PlaneSpec => []CreditedOnce
<1>1. ShopInv => CreditedOnce
  <2> SUFFICES ASSUME ShopInv, NEW o \in DOMAIN placed, NEW k \in DOMAIN showings
               PROVE  Count(Fact(k, o)) =
                          IF /\ showings[k].user = placed[o].user
                             /\ showings[k].dishes \cap placed[o].dishes # {}
                             /\ placed[o].at - showings[k].at \in 0 .. WINDOW
                             /\ Handled(o)
                          THEN 1 ELSE 0
    BY DEF CreditedOnce, Fact, Handled
  <2>1. /\ showings[k].at \in Nat /\ placed[o].at \in Nat /\ WINDOW \in Nat
    BY LimitAssumption DEF ShopInv, Shows, Orders
  <2>2. k \in Taken(o) <=>
            /\ showings[k].user = placed[o].user
            /\ showings[k].dishes \cap placed[o].dishes # {}
            /\ placed[o].at - showings[k].at \in 0 .. WINDOW
    BY <2>1 DEF Taken, recent_showings
  <2>3. <<k, o>> \in acceptances <=> Handled(o) /\ k \in Taken(o)
    BY DEF ShopInv, Claims
  <2>4. CASE <<k, o>> \in acceptances
    <3>1. PICK n \in DOMAIN staged : staged[n] = Fact(k, o)
      BY <2>4 DEF ShopInv, Facts
    <3>2. \A m \in DOMAIN staged : staged[m] = Fact(k, o) => m = n
      BY <2>4, <3>1 DEF ShopInv, Facts
    <3>3. {m \in DOMAIN staged : staged[m] = Fact(k, o)} = {n}
      BY <3>1, <3>2
    <3>4. Count(Fact(k, o)) = 1
      BY <3>3, FS_Singleton DEF Count
    <3> QED
      BY <2>2, <2>3, <2>4, <3>4
  <2>5. CASE <<k, o>> \notin acceptances
    <3>1. {m \in DOMAIN staged : staged[m] = Fact(k, o)} = {}
      BY <2>5 DEF ShopInv, Facts, Claims, Fact
    <3>2. Count(Fact(k, o)) = 0
      BY <3>1, FS_EmptySet DEF Count
    <3> QED
      BY <2>2, <2>3, <2>5, <3>2
  <2> QED
    BY <2>4, <2>5
<1> QED
  BY <1>1, ShopHolds, PTL

\* A list called personal rests on at least MIN_ORDERS orders of its customer
\* (Taste.thin over what taste_rows read).
THEOREM PersonalCorrect == PlaneSpec => []PersonalNeedsOrders
<1>1. ShopInv => PersonalNeedsOrders
  <2> SUFFICES ASSUME ShopInv, NEW u \in Users, Basis(u) = "taste"
               PROVE  Cardinality({o \in DOMAIN placed : placed[o].user = u}) >= MIN_ORDERS
    BY DEF PersonalNeedsOrders
  <2>1. PICK mine, of : /\ mine = {o \in DOMAIN placed : placed[o].user = u}
                        /\ of = OrdersOf(profile[u].rows)
    OBVIOUS
  <2>2. ~(Cardinality(of) < MIN_ORDERS)
    BY <2>1 DEF Basis, thin, build
  <2>3. of \subseteq mine
    BY <2>1 DEF OrdersOf, ShopInv, Tastes
  <2>4. IsFiniteSet(mine)
    BY <2>1, FS_Subset DEF ShopInv, Orders
  <2>5. /\ Cardinality(of) \in Nat /\ Cardinality(mine) \in Nat
        /\ Cardinality(of) <= Cardinality(mine)
    BY <2>3, <2>4, FS_Subset, FS_CardinalityType
  <2> QED
    BY <2>1, <2>2, <2>5, LimitAssumption
<1> QED
  BY <1>1, ShopHolds, PTL

\* A customer who has a taste profile keeps one, whatever leaves the menu (a
\* pass of build_profiles skips who has no rows left).
THEOREM ProfileCorrect == PlaneSpec => ProfileKept
<1>1. ShopInv /\ ShopInv' /\ [PlaneNext]_plane =>
          [\A u \in Users : profile[u] # NoProfile => profile'[u].rows # {}]_rvars
  <2> SUFFICES ASSUME ShopInv, ShopInv', [PlaneNext]_plane, NEW u \in Users,
                      profile[u] # NoProfile
               PROVE  profile'[u].rows # {}
    OBVIOUS
  <2>1. profile'[u] # NoProfile
    <3>1. CASE \E x \in Users : build_profiles(x)
      <4>1. PICK x \in Users : build_profiles(x)
        BY <3>1
      <4>2. PICK new : new = [rows |-> taste_rows(x), views |-> viewed_restaurants(x)]
        OBVIOUS
      <4>3. profile' = [profile EXCEPT ![x] = new] /\ new.rows # {}
        BY <4>1, <4>2 DEF build_profiles
      <4>4. profile'[u] = profile[u] \/ profile'[u] = new
        BY <4>3 DEF ShopInv, Tastes
      <4> QED
        BY <4>3, <4>4 DEF NoProfile
    <3>2. CASE UNCHANGED profile
      BY <3>2
    <3>3. UNCHANGED rvars => UNCHANGED profile
      BY DEF rvars
    <3>4. CASE UNCHANGED plane \/ Indexes \/ SNext
      BY <3>2, <3>3, <3>4, StudioAside DEF plane, Indexes
    <3>5. CASE Recommends
      <4>1. Feeding => UNCHANGED profile \/ \E x \in Users : build_profiles(x)
        BY DEF Feeding, handle_batch, CommitOrders
      <4>2. Redelivered \/ Shopping => UNCHANGED profile
        BY DEF Redelivered, Shopping, Tick, recommendations, _record_answer_shown, PlaceOrder,
               record_views
      <4> QED
        BY <3>1, <3>2, <3>5, <4>1, <4>2 DEF Recommends
    <3> QED
      BY <3>4, <3>5 DEF PlaneNext
  <2> QED
    BY <2>1 DEF ShopInv, Tastes
<1> QED
  BY <1>1, ShopHolds, PTL DEF PlaneSpec, ProfileKept

-----------------------------------------------------------------------------
(* The studio.  A row's moves are guarded by its status, so what a person   *)
(* decided is final; and a console records a dish's copy only after its own *)
(* PATCH of the menu went through.                                          *)

IsRow(x) == x = [status |-> x.status, kind |-> x.kind, place |-> x.place, target |-> x.target,
                 content |-> x.content, published |-> x.published]
IsTab(x) == x = [seen |-> x.seen, draft |-> x.draft, text |-> x.text, at |-> x.at]

Desk ==
    /\ drafts = [d \in Drafts |-> drafts[d]] /\ \A d \in Drafts : IsRow(drafts[d])
    /\ tab = [a \in Tabs |-> tab[a]] /\ \A a \in Tabs : IsTab(tab[a])
    /\ shipped = [d \in Drafts |-> shipped[d]]

\* Who holds a draft in hand holds one there is, and records what was written.
InHand(a) ==
    /\ tab[a].at # "idle" => /\ tab[a].draft \in Drafts
                             /\ drafts[tab[a].draft].status # "none"
    /\ \A d \in Drafts : tab[a].seen[d] # "none" => drafts[d].status # "none"
    /\ tab[a].at \in {"approve", "publish"} /\ drafts[tab[a].draft].kind = "menu_item" =>
          tab[a].text \in shipped[tab[a].draft]

Confirmed(m) ==
    /\ m[1] \in Drafts /\ m[2] \in Decided
    /\ drafts[m[1]].status = m[2]
    /\ m[2] = "published" => drafts[m[1]].published = m[3]

StudioInv ==
    /\ Desk /\ (\A a \in Tabs : InHand(a)) /\ (\A m \in told : Confirmed(m))
    /\ PublishedWasShipped

LEMMA StudioInit == PlaneInit => StudioInv
<1> SUFFICES ASSUME PlaneInit PROVE StudioInv
  OBVIOUS
<1>1. PICK corpus : SInit(corpus)
  BY DEF PlaneInit
<1>2. /\ drafts = [d \in Drafts |-> NoRow] /\ tab = [a \in Tabs |-> NoTab] /\ told = {}
      /\ shipped = [d \in Drafts |-> {}]
  BY <1>1 DEF SInit
<1>3. Desk
  BY <1>2 DEF Desk, IsRow, IsTab, NoRow, NoTab
<1>4. \A a \in Tabs : InHand(a)
  BY <1>2 DEF InHand, NoTab
<1>5. PublishedWasShipped
  BY <1>2 DEF PublishedWasShipped, NoRow
<1> QED
  BY <1>2, <1>3, <1>4, <1>5 DEF StudioInv

\* How a row moves.
Created(d) ==
    drafts[d].status = "none" /\ drafts'[d].status = "queued"
Written(d) ==
    /\ drafts[d].status \in {"queued", "parked"} /\ drafts'[d].status \in {"queued", "drafted", "parked"}
    /\ drafts'[d].kind = drafts[d].kind
Declined(d) ==
    /\ drafts[d].status = "drafted" /\ drafts'[d].status = "rejected"
    /\ drafts'[d].kind = drafts[d].kind
Recorded(d) ==
    /\ drafts[d].status = "drafted" /\ drafts'[d].status = "published"
    /\ drafts'[d].kind = drafts[d].kind
    /\ \E a \in Tabs : /\ tab[a].at = "publish" /\ tab[a].draft = d
                       /\ drafts'[d].published = tab[a].text
DraftMove(d) ==
    \/ drafts'[d] = drafts[d] \/ Created(d) \/ Written(d) \/ Declined(d) \/ Recorded(d)
DraftsMove ==
    /\ drafts' = [d \in Drafts |-> drafts'[d]]
    /\ \A d \in Drafts : IsRow(drafts'[d]) /\ DraftMove(d)

LEMMA DraftsStay == ASSUME Desk, UNCHANGED drafts PROVE DraftsMove
BY DEF Desk, DraftsMove, DraftMove

LEMMA MoveWrites ==
    ASSUME Desk, NEW d, NEW expected, NEW entry, _move(d, expected, entry),
           d \in Drafts => IsRow(entry),
           d \in Drafts /\ drafts[d].status = expected /\ drafts'[d] = entry => DraftMove(d)
    PROVE  DraftsMove
<1>1. CASE drafts' = drafts
  BY <1>1, DraftsStay
<1>2. CASE drafts[d].status = expected /\ drafts' = [drafts EXCEPT ![d] = entry]
  <2>1. CASE d \in Drafts
    BY <1>2, <2>1 DEF Desk, DraftsMove, DraftMove
  <2>2. CASE d \notin Drafts
    BY <1>2, <2>2, DraftsStay DEF Desk
  <2> QED
    BY <2>1, <2>2
<1> QED
  BY <1>1, <1>2 DEF _move

LEMMA Creates ==
    ASSUME Desk, NEW d \in Drafts, NEW kind, NEW r, NEW i, create(d, kind, r, i)
    PROVE  DraftsMove
<1>1. PICK entry : entry = [NoRow EXCEPT !.status = "queued", !.kind = kind, !.place = r, !.target = i]
  OBVIOUS
<1>2. IsRow(entry) /\ entry.status = "queued"
  BY <1>1 DEF IsRow, NoRow
<1>3. drafts[d].status = "none" /\ drafts' = [drafts EXCEPT ![d] = entry]
  BY <1>1 DEF create
<1> QED
  BY <1>2, <1>3 DEF Desk, DraftsMove, DraftMove, Created

\* How a console moves.
Seeing(a) ==
    \A d \in Drafts : \/ tab'[a].seen[d] = tab[a].seen[d]
                      \/ tab'[a].seen[d] = drafts'[d].status
Idles(a) == tab'[a].at = "idle" /\ Seeing(a)
Picks(a) ==
    /\ tab'[a].draft \in Drafts /\ tab[a].seen[tab'[a].draft] # "none"
    /\ tab'[a].seen = tab[a].seen /\ drafts' = drafts
    /\ tab'[a].at \in {"approve", "publish"} => drafts[tab'[a].draft].kind # "menu_item"
Goes(a) ==
    /\ tab[a].at # "idle"
    /\ tab'[a].draft = tab[a].draft /\ tab'[a].text = tab[a].text /\ tab'[a].seen = tab[a].seen
    /\ \/ tab'[a].at \notin {"approve", "publish"}
       \/ tab[a].at \in {"approve", "publish"}
       \/ tab[a].text \in shipped'[tab[a].draft]
TabMove(a) == tab'[a] = tab[a] \/ Idles(a) \/ Picks(a) \/ Goes(a)
TabsMove ==
    /\ tab' = [a \in Tabs |-> tab'[a]]
    /\ \A a \in Tabs : IsTab(tab'[a]) /\ TabMove(a)

Ships ==
    /\ shipped' = [d \in Drafts |-> shipped'[d]]
    /\ \A d \in Drafts : \A t \in shipped[d] : t \in shipped'[d]
Tells == \A m \in told' : m \in told \/ Confirmed(m)'

StudioMove == DraftsMove /\ TabsMove /\ Ships /\ Tells

LEMMA TabsStay == ASSUME Desk, UNCHANGED tab PROVE TabsMove
BY DEF Desk, TabsMove, TabMove

LEMMA ShipsStay == ASSUME Desk, UNCHANGED shipped PROVE Ships
BY DEF Desk, Ships

LEMMA DraftKept ==
    ASSUME DraftsMove, NEW d \in Drafts, drafts[d].status # "none"
    PROVE  /\ drafts'[d].status # "none" /\ drafts'[d].kind = drafts[d].kind
           /\ drafts[d].status \in Decided => drafts'[d] = drafts[d]
BY DEF DraftsMove, DraftMove, Created, Written, Declined, Recorded, Decided

LEMMA MoveInHand == ASSUME StudioInv, StudioMove, NEW a \in Tabs PROVE InHand(a)'
<1>1. InHand(a) /\ TabMove(a) /\ DraftsMove /\ Ships
  BY DEF StudioInv, StudioMove, TabsMove
<1>2. \A d \in Drafts : tab'[a].seen[d] # "none" => drafts'[d].status # "none"
  <2> SUFFICES ASSUME NEW d \in Drafts, tab'[a].seen[d] # "none" PROVE drafts'[d].status # "none"
    OBVIOUS
  <2>1. tab'[a].seen[d] = tab[a].seen[d] \/ tab'[a].seen[d] = drafts'[d].status
    BY <1>1 DEF TabMove, Idles, Picks, Goes, Seeing
  <2> QED
    BY <1>1, <2>1, DraftKept DEF InHand
<1>3. CASE tab'[a] = tab[a] \/ Goes(a)
  <2>1. /\ tab'[a].draft = tab[a].draft /\ tab'[a].text = tab[a].text
        /\ tab'[a].at # "idle" => tab[a].at # "idle"
    BY <1>3 DEF Goes
  <2>2. CASE tab'[a].at = "idle"
    BY <1>2, <2>2 DEF InHand
  <2>3. CASE tab'[a].at # "idle"
    <3>1. /\ tab[a].draft \in Drafts /\ drafts[tab[a].draft].status # "none"
      BY <1>1, <2>1, <2>3 DEF InHand
    <3>2. /\ drafts'[tab[a].draft].status # "none"
          /\ drafts'[tab[a].draft].kind = drafts[tab[a].draft].kind
      BY <1>1, <3>1, DraftKept
    <3>3. /\ tab'[a].at \in {"approve", "publish"}
          /\ drafts'[tab[a].draft].kind = "menu_item"
          => tab[a].text \in shipped'[tab[a].draft]
      BY <1>1, <1>3, <3>1, <3>2 DEF InHand, Goes, Ships
    <3> QED
      BY <1>2, <2>1, <3>1, <3>2, <3>3 DEF InHand
  <2> QED
    BY <2>2, <2>3
<1>4. CASE Idles(a)
  BY <1>2, <1>4 DEF InHand, Idles
<1>5. CASE Picks(a)
  BY <1>1, <1>2, <1>5 DEF InHand, Picks
<1> QED
  BY <1>1, <1>3, <1>4, <1>5 DEF TabMove

LEMMA MoveShipped == ASSUME StudioInv, StudioMove PROVE PublishedWasShipped'
<1> SUFFICES ASSUME NEW d \in Drafts, drafts'[d].status = "published",
                    drafts'[d].kind = "menu_item"
             PROVE  drafts'[d].published \in shipped'[d]
  BY DEF PublishedWasShipped
<1>1. DraftMove(d) /\ \A t \in shipped[d] : t \in shipped'[d]
  BY DEF StudioMove, DraftsMove, Ships
<1>2. CASE drafts'[d] = drafts[d]
  BY <1>1, <1>2 DEF StudioInv, PublishedWasShipped
<1>3. CASE Recorded(d)
  <2>1. PICK a \in Tabs : /\ tab[a].at = "publish" /\ tab[a].draft = d
                          /\ drafts'[d].published = tab[a].text
    BY <1>3 DEF Recorded
  <2>2. InHand(a) /\ drafts[d].kind = "menu_item"
    BY <1>3 DEF StudioInv, Recorded
  <2> QED
    BY <1>1, <2>1, <2>2 DEF InHand
<1> QED
  BY <1>1, <1>2, <1>3 DEF DraftMove, Created, Written, Declined

LEMMA MoveKeeps == ASSUME StudioInv, StudioMove PROVE StudioInv'
<1>1. Desk'
  BY DEF StudioMove, DraftsMove, TabsMove, Ships, Desk, IsRow, IsTab
<1>2. \A m \in told' : Confirmed(m)'
  <2> SUFFICES ASSUME NEW m \in told' PROVE Confirmed(m)'
    OBVIOUS
  <2>1. CASE m \in told
    <3>1. Confirmed(m)
      BY <2>1 DEF StudioInv
    <3>2. drafts[m[1]].status # "none" /\ DraftsMove
      BY <3>1 DEF Confirmed, Decided, StudioMove
    <3>3. drafts'[m[1]] = drafts[m[1]]
      BY <3>1, <3>2, DraftKept DEF Confirmed
    <3> QED
      BY <3>1, <3>3 DEF Confirmed
  <2> QED
    BY <2>1 DEF StudioMove, Tells
<1> QED
  BY <1>1, <1>2, MoveInHand, MoveShipped DEF StudioInv

-----------------------------------------------------------------------------
(* What the calls do, one by one. *)

LEMMA AnswerMoves ==
    ASSUME StudioInv, NEW a \in Tabs, NEW what, Answer(a, what),
           what \in Decided =>
               /\ tab[a].draft \in Drafts /\ drafts'[tab[a].draft].status = what
               /\ what = "published" => drafts'[tab[a].draft].published = tab[a].text
    PROVE  TabsMove /\ Tells
<1>1. tab = [b \in Tabs |-> tab[b]] /\ \A b \in Tabs : IsTab(tab[b])
  BY DEF StudioInv, Desk
<1>2. PICK new : new = IF what \in {"refused", "failed"} THEN tab[a].seen
                       ELSE [d \in Drafts |-> drafts'[d].status]
  OBVIOUS
<1>3. tab' = [tab EXCEPT ![a].at = "idle", ![a].text = Gone, ![a].seen = new]
  BY <1>2 DEF Answer
<1>4. /\ tab' = [b \in Tabs |-> tab'[b]]
      /\ \A b \in Tabs \ {a} : tab'[b] = tab[b]
      /\ IsTab(tab'[a]) /\ tab'[a].at = "idle" /\ tab'[a].seen = new
  <2>1. PICK old : old = tab[a] /\ IsTab(old)
    BY <1>1
  <2>2. /\ tab' = [b \in Tabs |-> tab'[b]]
        /\ \A b \in Tabs \ {a} : tab'[b] = tab[b]
        /\ tab'[a] = [old EXCEPT !.at = "idle", !.text = Gone, !.seen = new]
    BY <1>1, <1>3, <2>1
  <2>3. tab'[a] = [seen |-> new, draft |-> old.draft, text |-> Gone, at |-> "idle"]
    BY <2>1, <2>2 DEF IsTab
  <2> QED
    BY <2>2, <2>3 DEF IsTab
<1>5. Seeing(a)
  BY <1>2, <1>4 DEF Seeing
<1>6. Tells
  BY DEF Answer, Tells, Confirmed
<1> QED
  BY <1>1, <1>4, <1>5, <1>6 DEF TabsMove, TabMove, Idles

LEMMA GoMoves ==
    ASSUME Desk, NEW a \in Tabs, NEW at, ConsoleAt(a, at), tab[a].at # "idle",
           \/ at \notin {"approve", "publish"} \/ tab[a].at \in {"approve", "publish"}
           \/ tab[a].text \in shipped'[tab[a].draft]
    PROVE  TabsMove
<1>1. tab = [b \in Tabs |-> tab[b]] /\ \A b \in Tabs : IsTab(tab[b])
  BY DEF Desk
<1>2. /\ tab' = [b \in Tabs |-> tab'[b]]
      /\ \A b \in Tabs \ {a} : tab'[b] = tab[b]
      /\ tab'[a] = [tab[a] EXCEPT !.at = at]
  BY <1>1 DEF ConsoleAt
<1>3. /\ IsTab(tab'[a]) /\ tab'[a].at = at /\ tab'[a].draft = tab[a].draft
      /\ tab'[a].text = tab[a].text /\ tab'[a].seen = tab[a].seen
  BY <1>1, <1>2 DEF IsTab
<1>4. Goes(a)
  BY <1>3 DEF Goes
<1> QED
  BY <1>1, <1>2, <1>3, <1>4 DEF TabsMove, TabMove

LEMMA PressMoves ==
    ASSUME Desk, NEW a \in Tabs, NEW d \in Drafts, NEW at, NEW t, Press(a, d, at, t),
           tab[a].seen[d] # "none",
           at \in {"approve", "publish"} => drafts[d].kind # "menu_item"
    PROVE  StudioMove
<1>1. tab = [b \in Tabs |-> tab[b]] /\ \A b \in Tabs : IsTab(tab[b])
  BY DEF Desk
<1>2. /\ tab' = [tab EXCEPT ![a].at = at, ![a].draft = d, ![a].text = t]
      /\ drafts' = drafts /\ shipped' = shipped /\ told' = told
  BY DEF Press
<1>3. /\ tab' = [b \in Tabs |-> tab'[b]]
      /\ \A b \in Tabs \ {a} : tab'[b] = tab[b]
      /\ IsTab(tab'[a]) /\ tab'[a].at = at /\ tab'[a].draft = d
      /\ tab'[a].seen = tab[a].seen
  <2>1. PICK old : old = tab[a] /\ IsTab(old)
    BY <1>1
  <2>2. /\ tab' = [b \in Tabs |-> tab'[b]]
        /\ \A b \in Tabs \ {a} : tab'[b] = tab[b]
        /\ tab'[a] = [old EXCEPT !.at = at, !.draft = d, !.text = t]
    BY <1>1, <1>2, <2>1
  <2>3. tab'[a] = [seen |-> old.seen, draft |-> d, text |-> t, at |-> at]
    BY <2>1, <2>2 DEF IsTab
  <2> QED
    BY <2>1, <2>2, <2>3 DEF IsTab
<1>4. Picks(a)
  BY <1>2, <1>3 DEF Picks
<1>5. TabsMove
  BY <1>1, <1>3, <1>4 DEF TabsMove, TabMove
<1> QED
  BY <1>2, <1>5, DraftsStay, ShipsStay DEF StudioMove, Tells

\* The steps that leave the rows, the consoles and the menu's copy alone.
LEMMA ElsewhereMoves ==
    ASSUME StudioInv, UNCHANGED <<drafts, tab, told, shipped>> PROVE StudioMove
BY DraftsStay, TabsStay, ShipsStay DEF StudioInv, StudioMove, Tells

LEMMA AskMoves == ASSUME StudioInv, Asking PROVE StudioMove
<1>1. PICK d \in Drafts : \/ draft_menu_items(d) \/ summarise_feedback(d)
                          \/ \E kind \in {"promotion", "engagement"} : _business_draft(d, kind)
  BY DEF Asking
<1>2. AskedFor /\ \E kind, r, i : create(d, kind, r, i)
  <2>1. CASE draft_menu_items(d)
    BY <2>1 DEF draft_menu_items
  <2>2. CASE summarise_feedback(d)
    BY <2>2 DEF summarise_feedback
  <2>3. CASE \E kind \in {"promotion", "engagement"} : _business_draft(d, kind)
    BY <2>3 DEF _business_draft
  <2> QED
    BY <1>1, <2>1, <2>2, <2>3
<1>3. UNCHANGED <<tab, told, shipped>> /\ Desk
  BY <1>2 DEF AskedFor, StudioInv
<1>4. DraftsMove
  BY <1>2, <1>3, Creates
<1> QED
  BY <1>3, <1>4, TabsStay, ShipsStay DEF StudioMove, Tells

\* A worker's write of a row that is still queued.
LEMMA JobMoves ==
    ASSUME StudioInv, NEW d, NEW entry, _move(d, "queued", entry), NEW status \in {"drafted", "parked"},
           d \in Drafts => IsRow(entry) /\ entry.status = status /\ entry.kind = drafts[d].kind,
           UNCHANGED <<tab, told, shipped>>
    PROVE  StudioMove
<1>1. d \in Drafts /\ drafts[d].status = "queued" /\ drafts'[d] = entry => DraftMove(d)
  BY DEF DraftMove, Written
<1>2. Desk
  BY DEF StudioInv
<1>3. DraftsMove
  BY <1>1, <1>2, MoveWrites
<1> QED
  BY <1>2, <1>3, TabsStay, ShipsStay DEF StudioMove, Tells

LEMMA CompleteMoves == ASSUME StudioInv, NEW j, DraftComplete(j) PROVE StudioMove
<1>1. PICK d : d = jobs[j].draft
  OBVIOUS
<1>2. PICK entry : entry = [drafts[d] EXCEPT !.status = "drafted", !.content = jobs[j].text]
  OBVIOUS
<1>3. _move(d, "queued", entry) /\ UNCHANGED <<tab, told, shipped>>
  BY <1>1, <1>2 DEF DraftComplete, Worker
<1>4. d \in Drafts => IsRow(entry) /\ entry.status = "drafted" /\ entry.kind = drafts[d].kind
  <2> SUFFICES ASSUME d \in Drafts
               PROVE  IsRow(entry) /\ entry.status = "drafted" /\ entry.kind = drafts[d].kind
    OBVIOUS
  <2>1. PICK old, t : old = drafts[d] /\ IsRow(old) /\ t = jobs[j].text
    BY DEF StudioInv, Desk
  <2>2. entry = [old EXCEPT !.status = "drafted", !.content = t]
    BY <1>1, <1>2, <2>1
  <2>3. entry = [status |-> "drafted", kind |-> old.kind, place |-> old.place,
               target |-> old.target, content |-> t, published |-> old.published]
    BY <2>1, <2>2 DEF IsRow
  <2> QED
    BY <2>1, <2>3 DEF IsRow
<1> QED
  BY <1>3, <1>4, JobMoves

LEMMA ParkMoves == ASSUME StudioInv, NEW j, park(j) PROVE StudioMove
<1>1. PICK d : d = jobs[j].draft
  OBVIOUS
<1>2. PICK entry : entry = [drafts[d] EXCEPT !.status = "parked"]
  OBVIOUS
<1>3. _move(d, "queued", entry) /\ UNCHANGED <<tab, told, shipped>>
  BY <1>1, <1>2 DEF park, Worker
<1>4. d \in Drafts => IsRow(entry) /\ entry.status = "parked" /\ entry.kind = drafts[d].kind
  BY <1>2 DEF StudioInv, Desk, IsRow
<1> QED
  BY <1>3, <1>4, JobMoves

LEMMA WriteMoves == ASSUME StudioInv, Writing PROVE StudioMove
<1>1. CASE \E d \in Drafts : Enqueue(d)
  BY <1>1, ElsewhereMoves DEF Enqueue
<1>2. ASSUME NEW j \in Jobs, _run_job(j) PROVE StudioMove
  BY <1>2, ElsewhereMoves DEF _run_job, Worker
<1>3. ASSUME NEW j \in Jobs, run_draft(j) PROVE StudioMove
  BY <1>3, ElsewhereMoves DEF run_draft, Worker
<1>4. ASSUME NEW j \in Jobs, run_summary(j) PROVE StudioMove
  BY <1>4, ElsewhereMoves DEF run_summary, Worker
<1> QED
  BY <1>1, <1>2, <1>3, <1>4, CompleteMoves, ParkMoves DEF Writing

LEMMA PressingMoves == ASSUME StudioInv, Pressing PROVE StudioMove
<1>1. PICK a \in Tabs : publish(a) \/ decline(a) \/ retry(a)
  BY DEF Pressing
<1>2. Desk
  BY DEF StudioInv
<1>3. CASE publish(a)
  <2>1. PICK d \in Drafts, t \in Texts :
            Reviewable(a, d) /\ Press(a, d, IF drafts[d].kind = "menu_item" THEN "patch" ELSE "approve", t)
    BY <1>3 DEF publish
  <2>2. PICK at : at = IF drafts[d].kind = "menu_item" THEN "patch" ELSE "approve"
    OBVIOUS
  <2> QED
    BY <1>2, <2>1, <2>2, PressMoves DEF Reviewable
<1>4. CASE decline(a)
  <2>1. PICK d \in Drafts : Reviewable(a, d) /\ Press(a, d, "reject", Gone)
    BY <1>4 DEF decline
  <2> QED
    BY <1>2, <2>1, PressMoves DEF Reviewable
<1>5. CASE retry(a)
  <2>1. PICK d \in Drafts : tab[a].seen[d] = "parked" /\ Press(a, d, "replay", Gone)
    BY <1>5 DEF retry
  <2> QED
    BY <1>2, <2>1, PressMoves
<1> QED
  BY <1>1, <1>3, <1>4, <1>5

LEMMA ListMoves == ASSUME StudioInv, NEW a \in Tabs, list_drafts(a) PROVE StudioMove
<1>1. /\ tab = [b \in Tabs |-> tab[b]] /\ (\A b \in Tabs : IsTab(tab[b])) /\ Desk
      /\ tab[a].at = "idle"
  BY DEF StudioInv, Desk, list_drafts
<1>2. PICK new : new = [d \in Drafts |-> drafts[d].status]
  OBVIOUS
<1>3. tab' = [tab EXCEPT ![a].seen = new] /\ UNCHANGED <<drafts, told, shipped>>
  BY <1>2 DEF list_drafts
<1>4. /\ tab' = [b \in Tabs |-> tab'[b]]
      /\ \A b \in Tabs \ {a} : tab'[b] = tab[b]
      /\ IsTab(tab'[a]) /\ tab'[a].at = "idle" /\ tab'[a].seen = new
  BY <1>1, <1>3 DEF IsTab
<1>5. Idles(a)
  BY <1>2, <1>3, <1>4 DEF Idles, Seeing
<1>6. TabsMove
  BY <1>1, <1>4, <1>5 DEF TabsMove, TabMove
<1> QED
  BY <1>1, <1>3, <1>6, DraftsStay, ShipsStay DEF StudioMove, Tells

\* What a console does to no row and no menu: an answer read off the row, or
\* on to the next call.
LEMMA AnswerOnly ==
    ASSUME StudioInv, NEW a \in Tabs, NEW what, Answer(a, what), UNCHANGED <<drafts, shipped>>,
           what \in Decided =>
               /\ tab[a].draft \in Drafts /\ drafts[tab[a].draft].status = what
               /\ what = "published" => drafts[tab[a].draft].published = tab[a].text
    PROVE  StudioMove
<1>1. TabsMove /\ Tells
  BY AnswerMoves
<1> QED
  BY <1>1, DraftsStay, ShipsStay DEF StudioMove, StudioInv

LEMMA GoOnly ==
    ASSUME StudioInv, NEW a \in Tabs, NEW at, ConsoleAt(a, at), tab[a].at # "idle",
           \/ at \notin {"approve", "publish"} \/ tab[a].at \in {"approve", "publish"},
           UNCHANGED <<drafts, told, shipped>>
    PROVE  StudioMove
<1>1. Desk
  BY DEF StudioInv
<1>2. TabsMove
  BY <1>1, GoMoves
<1> QED
  BY <1>1, <1>2, DraftsStay, ShipsStay DEF StudioMove, Tells

LEMMA PatchMoves == ASSUME StudioInv, NEW a \in Tabs, patchItem(a) PROVE StudioMove
<1>1. PICK d : d = tab[a].draft
  OBVIOUS
<1>2. tab[a].at = "patch" /\ drafts' = drafts /\ d \in Drafts /\ Desk
  BY <1>1 DEF patchItem, StudioInv, InHand
<1>3. CASE Found(drafts[d].place, drafts[d].target)
  <2>1. /\ shipped' = [shipped EXCEPT ![d] = @ \cup {tab[a].text}]
        /\ ConsoleAt(a, "approve") /\ UNCHANGED told
    BY <1>1, <1>3 DEF patchItem
  <2>2. Ships /\ tab[a].text \in shipped'[d]
    BY <1>2, <2>1 DEF Desk, Ships
  <2>3. TabsMove
    BY <1>1, <1>2, <2>1, <2>2, GoMoves
  <2> QED
    BY <1>2, <2>1, <2>2, <2>3, DraftsStay DEF StudioMove, Tells
<1>4. CASE ~Found(drafts[d].place, drafts[d].target)
  <2>1. Answer(a, "failed") /\ UNCHANGED shipped
    BY <1>1, <1>4 DEF patchItem
  <2> QED
    BY <1>2, <2>1, AnswerOnly DEF Decided
<1> QED
  BY <1>3, <1>4

LEMMA ReadMoves ==
    ASSUME StudioInv, NEW a \in Tabs, approve(a) \/ reject(a) \/ replay(a) PROVE StudioMove
<1>1. CASE approve(a)
  <2>1. /\ tab[a].at = "approve" /\ UNCHANGED <<drafts, shipped>> /\ tab[a].draft \in Drafts
    BY <1>1 DEF approve, StudioInv, InHand
  <2>2. \/ /\ drafts[tab[a].draft].status = "published"
           /\ drafts[tab[a].draft].published = tab[a].text /\ Answer(a, "published")
        \/ Answer(a, "refused")
        \/ ConsoleAt(a, "publish") /\ UNCHANGED told
    BY <1>1 DEF approve
  <2>3. CASE /\ drafts[tab[a].draft].status = "published"
             /\ drafts[tab[a].draft].published = tab[a].text /\ Answer(a, "published")
    BY <2>1, <2>3, AnswerOnly
  <2>4. CASE Answer(a, "refused")
    BY <2>1, <2>4, AnswerOnly DEF Decided
  <2>5. CASE ConsoleAt(a, "publish") /\ UNCHANGED told
    BY <2>1, <2>5, GoOnly
  <2> QED
    BY <2>2, <2>3, <2>4, <2>5
<1>2. CASE reject(a)
  <2>1. /\ tab[a].at = "reject" /\ UNCHANGED <<drafts, shipped>> /\ tab[a].draft \in Drafts
    BY <1>2 DEF reject, StudioInv, InHand
  <2>2. \/ drafts[tab[a].draft].status = "rejected" /\ Answer(a, "rejected")
        \/ Answer(a, "refused")
        \/ ConsoleAt(a, "decline") /\ UNCHANGED told
    BY <1>2 DEF reject
  <2>3. CASE drafts[tab[a].draft].status = "rejected" /\ Answer(a, "rejected")
    BY <2>1, <2>3, AnswerOnly
  <2>4. CASE Answer(a, "refused")
    BY <2>1, <2>4, AnswerOnly DEF Decided
  <2>5. CASE ConsoleAt(a, "decline") /\ UNCHANGED told
    BY <2>1, <2>5, GoOnly
  <2> QED
    BY <2>2, <2>3, <2>4, <2>5
<1>3. CASE replay(a)
  <2>1. tab[a].at = "replay" /\ UNCHANGED <<drafts, shipped>>
    BY <1>3 DEF replay
  <2>2. Answer(a, "refused") \/ (ConsoleAt(a, "requeue") /\ UNCHANGED told)
    BY <1>3 DEF replay
  <2>3. CASE Answer(a, "refused")
    BY <2>1, <2>3, AnswerOnly DEF Decided
  <2>4. CASE ConsoleAt(a, "requeue") /\ UNCHANGED told
    BY <2>1, <2>4, GoOnly
  <2> QED
    BY <2>2, <2>3, <2>4
<1> QED
  BY <1>1, <1>2, <1>3

\* The guarded writes: the row says what was decided when the write took.
LEMMA RecordMoves ==
    ASSUME StudioInv, NEW a \in Tabs, tab[a].at = "publish",
           _move(tab[a].draft, "drafted",
                 [drafts[tab[a].draft] EXCEPT !.status = "published", !.published = tab[a].text])
    PROVE  /\ DraftsMove /\ tab[a].draft \in Drafts
           /\ drafts[tab[a].draft].status = "drafted" =>
                 /\ drafts'[tab[a].draft].status = "published"
                 /\ drafts'[tab[a].draft].published = tab[a].text
<1>1. PICK d, old, t : d = tab[a].draft /\ old = drafts[d] /\ t = tab[a].text
  OBVIOUS
<1>2. d \in Drafts /\ IsRow(old) /\ Desk
  BY <1>1 DEF StudioInv, InHand, Desk
<1>3. PICK entry : entry = [old EXCEPT !.status = "published", !.published = t]
  OBVIOUS
<1>4. entry = [status |-> "published", kind |-> old.kind, place |-> old.place,
             target |-> old.target, content |-> old.content, published |-> t]
  BY <1>2, <1>3 DEF IsRow
<1>5. /\ IsRow(entry) /\ entry.status = "published" /\ entry.published = t /\ entry.kind = old.kind
  BY <1>4 DEF IsRow
<1>6. _move(d, "drafted", entry)
  BY <1>1, <1>3
<1>7. d \in Drafts /\ drafts[d].status = "drafted" /\ drafts'[d] = entry => DraftMove(d)
  BY <1>1, <1>5 DEF DraftMove, Recorded
<1>8. DraftsMove
  BY <1>2, <1>5, <1>6, <1>7, MoveWrites
<1>9. drafts[d].status = "drafted" => drafts'[d] = entry
  BY <1>2, <1>6 DEF _move, Desk
<1> QED
  BY <1>1, <1>2, <1>5, <1>8, <1>9

\* Declining and queueing again: one field of the row, from the status it had.
LEMMA StatusMoves ==
    ASSUME StudioInv, NEW d \in Drafts, NEW entry,
           \/ /\ _move(d, "drafted", entry) /\ entry.status = "rejected"
           \/ /\ _move(d, "parked", entry) /\ entry.status = "queued",
           IsRow(entry), entry.kind = drafts[d].kind
    PROVE  DraftsMove
<1>1. Desk
  BY DEF StudioInv
<1>2. CASE _move(d, "drafted", entry) /\ entry.status = "rejected"
  <2>1. drafts[d].status = "drafted" /\ drafts'[d] = entry => DraftMove(d)
    BY <1>2 DEF DraftMove, Declined
  <2> QED
    BY <1>1, <1>2, <2>1, MoveWrites
<1>3. CASE _move(d, "parked", entry) /\ entry.status = "queued"
  <2>1. drafts[d].status = "parked" /\ drafts'[d] = entry => DraftMove(d)
    BY <1>3 DEF DraftMove, Written
  <2> QED
    BY <1>1, <1>3, <2>1, MoveWrites
<1> QED
  BY <1>2, <1>3

LEMMA RowEdit ==
    ASSUME StudioInv, NEW d \in Drafts, NEW status, NEW entry,
           entry = [drafts[d] EXCEPT !.status = status]
    PROVE  IsRow(entry) /\ entry.status = status /\ entry.kind = drafts[d].kind
<1>1. PICK old : old = drafts[d] /\ IsRow(old)
  BY DEF StudioInv, Desk
<1> QED
  BY <1>1 DEF IsRow

LEMMA ApproveMoves == ASSUME StudioInv, NEW a \in Tabs, approve_decide(a) PROVE StudioMove
<1>1. PICK d, t : d = tab[a].draft /\ t = tab[a].text
  OBVIOUS
<1>2. /\ tab[a].at = "publish" /\ UNCHANGED shipped
      /\ _move(d, "drafted", [drafts[d] EXCEPT !.status = "published", !.published = t])
      /\ Answer(a, IF drafts[d].status = "drafted" THEN "published" ELSE "refused")
  BY <1>1 DEF approve_decide, _decide
<1>3. /\ DraftsMove /\ d \in Drafts
      /\ drafts[d].status = "drafted" => /\ drafts'[d].status = "published"
                                         /\ drafts'[d].published = t
  BY <1>1, <1>2, RecordMoves
<1>4. CASE drafts[d].status = "drafted"
  <2>1. Answer(a, "published")
    BY <1>2, <1>4
  <2>2. TabsMove /\ Tells
    BY <1>1, <1>3, <1>4, <2>1, AnswerMoves
  <2> QED
    BY <1>2, <1>3, <2>2, ShipsStay DEF StudioMove, StudioInv
<1>5. CASE drafts[d].status # "drafted"
  <2>1. Answer(a, "refused")
    BY <1>2, <1>5
  <2>2. TabsMove /\ Tells
    BY <2>1, AnswerMoves DEF Decided
  <2> QED
    BY <1>2, <1>3, <2>2, ShipsStay DEF StudioMove, StudioInv
<1> QED
  BY <1>4, <1>5

LEMMA RejectMoves == ASSUME StudioInv, NEW a \in Tabs, reject_decide(a) PROVE StudioMove
<1>1. PICK d : d = tab[a].draft
  OBVIOUS
<1>2. PICK entry : entry = [drafts[d] EXCEPT !.status = "rejected", !.published = Gone]
  OBVIOUS
<1>3. /\ tab[a].at = "decline" /\ UNCHANGED shipped /\ _move(d, "drafted", entry)
      /\ Answer(a, IF drafts[d].status = "drafted" THEN "rejected" ELSE "refused")
  BY <1>1, <1>2 DEF reject_decide, _decide
<1>4. d \in Drafts /\ Desk
  BY <1>1, <1>3 DEF StudioInv, InHand
<1>5. IsRow(entry) /\ entry.status = "rejected" /\ entry.kind = drafts[d].kind
  <2>1. PICK old : old = drafts[d] /\ IsRow(old)
    BY <1>4 DEF Desk
  <2>2. entry = [status |-> "rejected", kind |-> old.kind, place |-> old.place,
               target |-> old.target, content |-> old.content, published |-> Gone]
    BY <1>2, <2>1 DEF IsRow
  <2> QED
    BY <2>1, <2>2 DEF IsRow
<1>6. DraftsMove
  BY <1>3, <1>4, <1>5, StatusMoves
<1>7. CASE drafts[d].status = "drafted"
  <2>1. Answer(a, "rejected") /\ drafts'[d] = entry
    BY <1>3, <1>4, <1>7 DEF _move, Desk
  <2>2. TabsMove /\ Tells
    BY <1>1, <1>4, <1>5, <2>1, AnswerMoves
  <2> QED
    BY <1>3, <1>4, <1>6, <2>2, ShipsStay DEF StudioMove
<1>8. CASE drafts[d].status # "drafted"
  <2>1. Answer(a, "refused")
    BY <1>3, <1>8
  <2>2. TabsMove /\ Tells
    BY <2>1, AnswerMoves DEF Decided
  <2> QED
    BY <1>3, <1>4, <1>6, <2>2, ShipsStay DEF StudioMove
<1> QED
  BY <1>7, <1>8

LEMMA RequeueMoves == ASSUME StudioInv, NEW a \in Tabs, replay_draft(a) PROVE StudioMove
<1>1. PICK d : d = tab[a].draft
  OBVIOUS
<1>2. PICK entry : entry = [drafts[d] EXCEPT !.status = "queued"]
  OBVIOUS
<1>3. /\ tab[a].at = "requeue" /\ UNCHANGED shipped /\ _move(d, "parked", entry)
  BY <1>1, <1>2 DEF replay_draft
<1>4. PICK what \in {"queued", "refused"} : Answer(a, what)
  BY DEF replay_draft
<1>5. d \in Drafts /\ Desk
  BY <1>1, <1>3 DEF StudioInv, InHand
<1>6. IsRow(entry) /\ entry.status = "queued" /\ entry.kind = drafts[d].kind
  BY <1>2, <1>5, RowEdit
<1>7. DraftsMove
  BY <1>3, <1>5, <1>6, StatusMoves
<1>8. TabsMove /\ Tells
  BY <1>4, AnswerMoves DEF Decided
<1> QED
  BY <1>3, <1>5, <1>7, <1>8, ShipsStay DEF StudioMove

LEMMA AnsweringMoves == ASSUME StudioInv, Answering PROVE StudioMove
BY ListMoves, PatchMoves, ReadMoves, ApproveMoves, RejectMoves, RequeueMoves DEF Answering

LEMMA ReplyLostMoves == ASSUME StudioInv, NEW a \in Tabs, ReplyLost(a) PROVE StudioMove
<1>1. PICK d, t : d = tab[a].draft /\ t = tab[a].text
  OBVIOUS
<1>2. Answer(a, "failed") /\ Desk
  BY DEF ReplyLost, StudioInv
<1>3. TabsMove /\ Tells
  BY <1>2, AnswerMoves DEF Decided
<1>4. CASE /\ tab[a].at = "patch" /\ shipped' = [shipped EXCEPT ![d] = @ \cup {t}]
           /\ UNCHANGED drafts
  <2>1. Ships
    BY <1>2, <1>4 DEF Desk, Ships
  <2> QED
    BY <1>2, <1>3, <1>4, <2>1, DraftsStay DEF StudioMove
<1>5. CASE /\ tab[a].at = "publish" /\ UNCHANGED shipped
           /\ _move(d, "drafted", [drafts[d] EXCEPT !.status = "published", !.published = t])
  <2>1. DraftsMove
    BY <1>1, <1>5, RecordMoves
  <2> QED
    BY <1>2, <1>3, <1>5, <2>1, ShipsStay DEF StudioMove
<1>6. CASE /\ tab[a].at = "decline" /\ UNCHANGED shipped
           /\ _move(d, "drafted", [drafts[d] EXCEPT !.status = "rejected"])
  <2>1. PICK entry : entry = [drafts[d] EXCEPT !.status = "rejected"]
    OBVIOUS
  <2>2. d \in Drafts
    BY <1>1, <1>6 DEF StudioInv, InHand
  <2>3. IsRow(entry) /\ entry.status = "rejected" /\ entry.kind = drafts[d].kind
    BY <2>1, <2>2, RowEdit
  <2>4. DraftsMove
    BY <1>6, <2>1, <2>2, <2>3, StatusMoves
  <2> QED
    BY <1>2, <1>3, <1>6, <2>4, ShipsStay DEF StudioMove
<1>7. \/ /\ tab[a].at = "patch" /\ shipped' = [shipped EXCEPT ![d] = @ \cup {t}]
         /\ UNCHANGED drafts
      \/ /\ tab[a].at = "publish" /\ UNCHANGED shipped
         /\ _move(d, "drafted", [drafts[d] EXCEPT !.status = "published", !.published = t])
      \/ /\ tab[a].at = "decline" /\ UNCHANGED shipped
         /\ _move(d, "drafted", [drafts[d] EXCEPT !.status = "rejected"])
  BY <1>1 DEF ReplyLost
<1> QED
  BY <1>4, <1>5, <1>6, <1>7

LEMMA MishapMoves == ASSUME StudioInv, SFaults PROVE StudioMove
<1>1. ASSUME NEW d, EnqueueFails(d) PROVE StudioMove
  BY <1>1, ElsewhereMoves DEF EnqueueFails
<1>2. ASSUME NEW j, PermanentFailure(j) PROVE StudioMove
  BY <1>2, ElsewhereMoves DEF PermanentFailure
<1>3. ASSUME NEW j, autoretry(j) PROVE StudioMove
  BY <1>3, ElsewhereMoves DEF autoretry
<1>4. ASSUME NEW j, ParkFails(j) PROVE StudioMove
  BY <1>4, ElsewhereMoves DEF ParkFails
<1>5. ASSUME NEW j, WorkerLost(j) PROVE StudioMove
  BY <1>5, ElsewhereMoves DEF WorkerLost
<1>6. ASSUME NEW a \in Tabs, CallFails(a) PROVE StudioMove
  BY <1>6, AnswerOnly DEF CallFails, Decided
<1>7. CASE SwitchGeneration
  BY <1>7, ElsewhereMoves DEF SwitchGeneration
<1>8. CASE ReviewGone
  BY <1>8, ElsewhereMoves DEF ReviewGone
<1> QED
  BY <1>1, <1>2, <1>3, <1>4, <1>5, <1>6, <1>7, <1>8, ReplyLostMoves DEF SFaults

LEMMA StudioStep == ASSUME StudioInv, [PlaneNext]_plane PROVE StudioMove
<1>1. CASE UNCHANGED plane
  BY <1>1, ElsewhereMoves DEF plane, svars
<1>2. CASE Indexes \/ Recommends
  BY <1>2, ElsewhereMoves DEF Indexes, Recommends, svars
<1>3. CASE SNext
  BY <1>3, AskMoves, WriteMoves, PressingMoves, AnsweringMoves, MishapMoves DEF SNext
<1> QED
  BY <1>1, <1>2, <1>3 DEF PlaneNext

\* A dish's copy recorded as published had been written to the menu by a
\* console first, whatever call failed or lost its answer (PartnerStudio
\* publishes, then records).
THEOREM ShippedCorrect == PlaneSpec => []PublishedWasShipped
<1>1. StudioInv => PublishedWasShipped
  BY DEF StudioInv
<1>2. StudioInv /\ [PlaneNext]_plane => StudioInv'
  BY StudioStep, MoveKeeps
<1> QED
  BY <1>1, <1>2, StudioInit, PTL DEF PlaneSpec

\* Whoever was told "published" or "rejected" reads a row that says so, with
\* their text; who lost the race was told so (approve, reject and _decide).
THEOREM ToldCorrect == PlaneSpec => []ToldTheTruth
<1>1. StudioInv => ToldTheTruth
  BY DEF StudioInv, Confirmed, ToldTheTruth
<1>2. StudioInv /\ [PlaneNext]_plane => StudioInv'
  BY StudioStep, MoveKeeps
<1> QED
  BY <1>1, <1>2, StudioInit, PTL DEF PlaneSpec

\* What a person decided stays as decided: no late delivery, retry or second
\* console changes the row (the guards of complete, park and _decide).
THEOREM DecisionFinal == PlaneSpec => DecisionStands
<1>1. StudioInv /\ [PlaneNext]_plane =>
          [\A d \in Drafts : drafts[d].status \in Decided => drafts'[d] = drafts[d]]_svars
  <2> SUFFICES ASSUME StudioInv, [PlaneNext]_plane, NEW d \in Drafts,
                      drafts[d].status \in Decided
               PROVE  drafts'[d] = drafts[d]
    OBVIOUS
  <2>1. DraftsMove
    BY StudioStep DEF StudioMove
  <2> QED
    BY <2>1, DraftKept DEF Decided
<1>2. StudioInv /\ [PlaneNext]_plane => StudioInv'
  BY StudioStep, MoveKeeps
<1> QED
  BY <1>1, <1>2, StudioInit, PTL DEF PlaneSpec, DecisionStands

-----------------------------------------------------------------------------
(* The jobs.  A row's messages are counted over its life: one from the time *)
(* it is queued until a worker ends it, and one more for each redelivery.   *)

IsJob(x) == x = [draft |-> x.draft, at |-> x.at, retries |-> x.retries, text |-> x.text]

Hands ==
    /\ jobs = [j \in Jobs |-> jobs[j]]
    /\ \A j \in Jobs : IsJob(jobs[j]) /\ (jobs[j].at # "free" => jobs[j].draft \in Drafts)
Crew ==
    /\ Hands
    /\ sending \subseteq Drafts /\ extra \in [Drafts -> Nat]

JobLimit(d) ==
    /\ IsFiniteSet(LiveJobs(d))
    /\ drafts[d].status = "none" => LiveJobs(d) = {} /\ d \notin sending
    /\ Cardinality(LiveJobs(d)) + (IF d \in sending THEN 1 ELSE 0)
          <= extra[d] + (IF drafts[d].status \in {"none", "queued"} THEN 1 ELSE 0)
HasJob(d) == drafts[d].status = "queued" => d \in sending \cup lost \/ LiveJobs(d) # {}

CrewInv == Crew /\ \A d \in Drafts : JobLimit(d) /\ HasJob(d)

LEMMA CrewInit == PlaneInit => CrewInv
<1> SUFFICES ASSUME PlaneInit PROVE CrewInv
  OBVIOUS
<1>1. PICK corpus : SInit(corpus)
  BY DEF PlaneInit
<1>2. /\ drafts = [d \in Drafts |-> NoRow] /\ jobs = [j \in Jobs |-> FreeJob] /\ sending = {}
      /\ extra = [d \in Drafts |-> 0]
  BY <1>1 DEF SInit
<1>3. Crew
  BY <1>2 DEF Crew, Hands, IsJob, FreeJob
<1>4. ASSUME NEW d \in Drafts PROVE JobLimit(d) /\ HasJob(d)
  <2>1. LiveJobs(d) = {} /\ drafts[d].status = "none"
    BY <1>2 DEF LiveJobs, FreeJob, NoRow
  <2> QED
    BY <1>2, <2>1, FS_EmptySet DEF JobLimit, HasJob
<1> QED
  BY <1>3, <1>4 DEF CrewInv

\* What a step may mean for a row.
SameCrew(d) == LiveJobs(d)' = LiveJobs(d)
SameSending(d) == d \in sending' <=> d \in sending
SameLoss(d) == d \in lost => d \in lost'
SameStatus(d) == drafts'[d].status = drafts[d].status

Quieter(d) ==
    /\ SameCrew(d) /\ SameSending(d) /\ extra'[d] = extra[d] /\ SameLoss(d)
    /\ SameStatus(d) \/ (/\ drafts[d].status = "drafted" /\ drafts'[d].status \in Decided)
Queues(d) ==
    /\ SameCrew(d) /\ extra'[d] = extra[d] /\ d \in sending'
    /\ drafts[d].status \in {"none", "parked"} /\ drafts'[d].status = "queued"
Sends(d) ==
    /\ d \in sending /\ d \notin sending' /\ extra'[d] = extra[d] /\ SameStatus(d)
    /\ \E j : j \notin LiveJobs(d) /\ LiveJobs(d)' = LiveJobs(d) \cup {j}
Fails(d) ==
    /\ d \in sending /\ d \notin sending' /\ d \in lost' /\ SameCrew(d)
    /\ extra'[d] = extra[d] /\ SameStatus(d)
Ends(d) ==
    /\ SameSending(d) /\ extra'[d] = extra[d] /\ drafts'[d].status # "none"
    /\ \E j \in LiveJobs(d) : LiveJobs(d)' = LiveJobs(d) \ {j}
    /\ drafts'[d].status = "queued" => d \in lost' /\ drafts[d].status = "queued"
Doubles(d) ==
    /\ SameSending(d) /\ extra'[d] = extra[d] + 1 /\ SameStatus(d) /\ LiveJobs(d) # {}
    /\ \E j : j \notin LiveJobs(d) /\ LiveJobs(d)' = LiveJobs(d) \cup {j}
CrewMove(d) ==
    Quieter(d) \/ Queues(d) \/ Sends(d) \/ Fails(d) \/ Ends(d) \/ Doubles(d)

LEMMA CrewKept ==
    ASSUME CrewInv, NEW d \in Drafts, CrewMove(d) PROVE JobLimit(d)' /\ HasJob(d)'
<1> DEFINE n == Cardinality(LiveJobs(d))
<1>1. /\ JobLimit(d) /\ HasJob(d) /\ IsFiniteSet(LiveJobs(d)) /\ n \in Nat /\ extra[d] \in Nat
  BY FS_CardinalityType DEF CrewInv, JobLimit, Crew
<1>2. CASE Quieter(d)
  <2>1. LiveJobs(d)' = LiveJobs(d) /\ (d \in sending' <=> d \in sending) /\ extra'[d] = extra[d]
    BY <1>2 DEF Quieter, SameCrew, SameSending
  <2>2. Cardinality(LiveJobs(d))' = n
    BY <2>1
  <2>3. \/ drafts'[d].status = drafts[d].status
        \/ drafts[d].status = "drafted" /\ drafts'[d].status \notin {"none", "queued"}
    BY <1>2 DEF Quieter, SameStatus, Decided
  <2>4. JobLimit(d)'
    BY <1>1, <2>1, <2>2, <2>3 DEF JobLimit
  <2>5. HasJob(d)'
    BY <1>1, <1>2, <2>1, <2>3 DEF HasJob, Quieter, SameLoss
  <2> QED
    BY <2>4, <2>5
<1>7. CASE Queues(d)
  <2>1. /\ LiveJobs(d)' = LiveJobs(d) /\ Cardinality(LiveJobs(d))' = n
        /\ d \in sending' /\ extra'[d] = extra[d]
        /\ drafts'[d].status = "queued" /\ drafts[d].status \in {"none", "parked"}
    BY <1>7 DEF Queues, SameCrew
  <2>2. CASE drafts[d].status = "none"
    <3>1. LiveJobs(d) = {} /\ n = 0
      BY <1>1, <2>2, FS_EmptySet DEF JobLimit
    <3> QED
      BY <1>1, <2>1, <3>1 DEF JobLimit, HasJob
  <2>3. CASE drafts[d].status = "parked"
    <3>1. n <= extra[d]
      BY <1>1, <2>3 DEF JobLimit
    <3> QED
      BY <1>1, <2>1, <3>1 DEF JobLimit, HasJob
  <2> QED
    BY <2>1, <2>2, <2>3
<1>3. CASE Sends(d)
  <2>1. PICK j : j \notin LiveJobs(d) /\ LiveJobs(d)' = LiveJobs(d) \cup {j}
    BY <1>3 DEF Sends
  <2>2. IsFiniteSet(LiveJobs(d))' /\ Cardinality(LiveJobs(d))' = n + 1
    BY <1>1, <2>1, FS_AddElement
  <2> QED
    BY <1>1, <1>3, <2>1, <2>2 DEF Sends, SameStatus, JobLimit, HasJob
<1>4. CASE Fails(d)
  BY <1>1, <1>4 DEF Fails, SameCrew, SameStatus, JobLimit, HasJob
<1>5. CASE Ends(d)
  <2>1. PICK j \in LiveJobs(d) : LiveJobs(d)' = LiveJobs(d) \ {j}
    BY <1>5 DEF Ends
  <2>2. IsFiniteSet(LiveJobs(d))' /\ Cardinality(LiveJobs(d))' = n - 1
    BY <1>1, <2>1, FS_RemoveElement
  <2>3. drafts[d].status # "none"
    BY <1>1, <2>1 DEF JobLimit
  <2> QED
    BY <1>1, <1>5, <2>2, <2>3 DEF Ends, SameSending, JobLimit, HasJob
<1>6. CASE Doubles(d)
  <2>1. PICK j : j \notin LiveJobs(d) /\ LiveJobs(d)' = LiveJobs(d) \cup {j}
    BY <1>6 DEF Doubles
  <2>2. IsFiniteSet(LiveJobs(d))' /\ Cardinality(LiveJobs(d))' = n + 1
    BY <1>1, <2>1, FS_AddElement
  <2> QED
    BY <1>1, <1>6, <2>1, <2>2 DEF Doubles, SameSending, SameStatus, JobLimit, HasJob
<1> QED
  BY <1>2, <1>3, <1>4, <1>5, <1>6, <1>7 DEF CrewMove

\* The workers' hands: a job worked on, ended, taken up.
LEMMA HandsStay == ASSUME Hands, UNCHANGED jobs PROVE Hands' /\ \A d : SameCrew(d)
BY DEF Hands, SameCrew, LiveJobs

LEMMA HandsWork ==
    ASSUME Hands, NEW j \in Jobs, NEW new, IsJob(new), jobs' = [jobs EXCEPT ![j] = new],
           jobs[j].at # "free", new.at # "free", new.draft = jobs[j].draft
    PROVE  Hands' /\ \A d : SameCrew(d)
<1>1. jobs' = [i \in Jobs |-> jobs'[i]] /\ jobs'[j] = new /\ \A i \in Jobs \ {j} : jobs'[i] = jobs[i]
  BY DEF Hands
<1>2. Hands'
  BY <1>1 DEF Hands
<1>3. \A d : SameCrew(d)
  BY <1>1 DEF SameCrew, LiveJobs
<1> QED
  BY <1>2, <1>3

LEMMA HandsEnd ==
    ASSUME Hands, NEW j \in Jobs, NEW x, x = jobs[j].draft, End(j), jobs[j].at # "free"
    PROVE  /\ Hands' /\ j \in LiveJobs(x) /\ LiveJobs(x)' = LiveJobs(x) \ {j}
           /\ \A d : d # x => SameCrew(d)
<1>1. /\ jobs' = [i \in Jobs |-> jobs'[i]] /\ \A i \in Jobs \ {j} : jobs'[i] = jobs[i]
      /\ IsJob(jobs'[j]) /\ jobs'[j].at = "free"
  <2>1. IsJob(FreeJob) /\ FreeJob.at = "free"
    BY DEF FreeJob, IsJob
  <2>2. jobs' = [i \in Jobs |-> jobs'[i]] /\ jobs'[j] = FreeJob /\ \A i \in Jobs \ {j} : jobs'[i] = jobs[i]
    BY DEF Hands, End
  <2> QED
    BY <2>1, <2>2
<1>2. Hands'
  BY <1>1 DEF Hands
<1>3. j \in LiveJobs(x) /\ LiveJobs(x)' = LiveJobs(x) \ {j} /\ \A d : d # x => SameCrew(d)
  BY <1>1 DEF SameCrew, LiveJobs
<1> QED
  BY <1>2, <1>3

LEMMA HandsTake ==
    ASSUME Hands, NEW x \in Drafts, _enqueue_draft(x)
    PROVE  /\ Hands' /\ \A d : d # x => SameCrew(d)
           /\ \E j : j \notin LiveJobs(x) /\ LiveJobs(x)' = LiveJobs(x) \cup {j}
<1>1. PICK j \in Jobs : /\ jobs[j].at = "free"
                        /\ jobs' = [jobs EXCEPT ![j] = [FreeJob EXCEPT !.draft = x, !.at = "queue"]]
  BY DEF _enqueue_draft
<1>2. PICK new : new = [FreeJob EXCEPT !.draft = x, !.at = "queue"]
  OBVIOUS
<1>3. new = [draft |-> x, at |-> "queue", retries |-> 0, text |-> Gone]
  BY <1>2 DEF FreeJob
<1>4. IsJob(new) /\ new.draft = x /\ new.at = "queue"
  BY <1>3 DEF IsJob
<1>5. /\ jobs' = [i \in Jobs |-> jobs'[i]] /\ jobs'[j] = new
      /\ \A i \in Jobs \ {j} : jobs'[i] = jobs[i]
  BY <1>1, <1>2 DEF Hands
<1>6. Hands'
  BY <1>4, <1>5 DEF Hands
<1>7. j \notin LiveJobs(x) /\ LiveJobs(x)' = LiveJobs(x) \cup {j}
  BY <1>1, <1>4, <1>5 DEF LiveJobs
<1>8. \A d : d # x => SameCrew(d)
  BY <1>1, <1>4, <1>5 DEF SameCrew, LiveJobs
<1> QED
  BY <1>6, <1>7, <1>8

\* A job's stage alone.
LEMMA StageWorks ==
    ASSUME Hands, NEW j \in Jobs, jobs[j].at # "free", NEW at, at # "free",
           \/ JobAt(j, at)
           \/ \E t : jobs' = [jobs EXCEPT ![j].at = at, ![j].text = t]
           \/ jobs' = [jobs EXCEPT ![j].at = at, ![j].retries = @ + 1]
    PROVE  Hands' /\ \A d : SameCrew(d)
<1>1. PICK old : old = jobs[j] /\ IsJob(old)
  BY DEF Hands
<1>2. CASE JobAt(j, at)
  <2>1. PICK new : new = [old EXCEPT !.at = at]
    OBVIOUS
  <2>2. jobs' = [jobs EXCEPT ![j] = new]
    BY <1>1, <1>2, <2>1 DEF JobAt
  <2>3. new = [draft |-> old.draft, at |-> at, retries |-> old.retries, text |-> old.text]
    BY <1>1, <2>1 DEF IsJob
  <2>4. IsJob(new) /\ new.at = at /\ new.draft = old.draft
    BY <2>3 DEF IsJob
  <2> QED
    BY <1>1, <2>2, <2>4, HandsWork
<1>3. ASSUME NEW t, jobs' = [jobs EXCEPT ![j].at = at, ![j].text = t]
      PROVE  Hands' /\ \A d : SameCrew(d)
  <2>1. PICK new : new = [old EXCEPT !.at = at, !.text = t]
    OBVIOUS
  <2>2. jobs' = [jobs EXCEPT ![j] = new]
    BY <1>1, <1>3, <2>1 DEF Hands
  <2>3. new = [draft |-> old.draft, at |-> at, retries |-> old.retries, text |-> t]
    BY <1>1, <2>1 DEF IsJob
  <2>4. IsJob(new) /\ new.at = at /\ new.draft = old.draft
    BY <2>3 DEF IsJob
  <2> QED
    BY <1>1, <2>2, <2>4, HandsWork
<1>4. CASE jobs' = [jobs EXCEPT ![j].at = at, ![j].retries = @ + 1]
  <2>1. PICK new : new = [old EXCEPT !.at = at, !.retries = @ + 1]
    OBVIOUS
  <2>2. jobs' = [jobs EXCEPT ![j] = new]
    BY <1>1, <1>4, <2>1 DEF Hands
  <2>3. new = [draft |-> old.draft, at |-> at, retries |-> old.retries + 1, text |-> old.text]
    BY <1>1, <2>1 DEF IsJob
  <2>4. IsJob(new) /\ new.at = at /\ new.draft = old.draft
    BY <2>3 DEF IsJob
  <2> QED
    BY <1>1, <2>2, <2>4, HandsWork
<1> QED
  BY <1>2, <1>3, <1>4

-----------------------------------------------------------------------------
(* The steps, for the jobs. *)

CrewStep == Crew' /\ \A d \in Drafts : CrewMove(d)

\* Nothing that a row's jobs depend on changes.
LEMMA NobodyMoves ==
    ASSUME CrewInv, UNCHANGED <<drafts, jobs, sending, lost, extra>> PROVE CrewStep
<1>1. Crew
  BY DEF CrewInv
<1>2. Hands' /\ \A d : SameCrew(d)
  BY <1>1, HandsStay DEF Crew
<1> QED
  BY <1>1, <1>2 DEF CrewStep, Crew, CrewMove, Quieter, SameSending, SameLoss, SameStatus

\* A job changes its stage.
LEMMA StagesMove ==
    ASSUME CrewInv, UNCHANGED <<drafts, sending, lost, extra>>, Hands' /\ \A d : SameCrew(d)
    PROVE  CrewStep
BY DEF CrewInv, CrewStep, Crew, CrewMove, Quieter, SameSending, SameLoss, SameStatus

LEMMA AskCrew == ASSUME StudioInv, CrewInv, Asking PROVE CrewStep
<1>1. PICK x \in Drafts : \/ draft_menu_items(x) \/ summarise_feedback(x)
                          \/ \E kind \in {"promotion", "engagement"} : _business_draft(x, kind)
  BY DEF Asking
<1>2. AskedFor /\ \E kind, r, i : create(x, kind, r, i)
  <2>1. CASE draft_menu_items(x)
    BY <2>1 DEF draft_menu_items
  <2>2. CASE summarise_feedback(x)
    BY <2>2 DEF summarise_feedback
  <2>3. CASE \E kind \in {"promotion", "engagement"} : _business_draft(x, kind)
    BY <2>3 DEF _business_draft
  <2> QED
    BY <1>1, <2>1, <2>2, <2>3
<1>3. PICK kind, r, i : create(x, kind, r, i)
  BY <1>2
<1>4. PICK entry : entry = [NoRow EXCEPT !.status = "queued", !.kind = kind, !.place = r, !.target = i]
  OBVIOUS
<1>5. entry.status = "queued"
  BY <1>4 DEF NoRow
<1>6. /\ drafts[x].status = "none" /\ drafts' = [drafts EXCEPT ![x] = entry]
      /\ sending' = sending \cup {x} /\ UNCHANGED <<jobs, lost, extra>>
  BY <1>2, <1>3, <1>4 DEF create, AskedFor
<1>7. Crew /\ Desk
  BY DEF CrewInv, StudioInv
<1>8. Hands' /\ \A d : SameCrew(d)
  BY <1>6, <1>7, HandsStay DEF Crew
<1>9. drafts'[x].status = "queued" /\ \A d \in Drafts \ {x} : drafts'[d] = drafts[d]
  BY <1>5, <1>6, <1>7 DEF Desk
<1>10. Queues(x)
  BY <1>6, <1>8, <1>9, <1>7 DEF Queues, Crew
<1>11. ASSUME NEW d \in Drafts \ {x} PROVE Quieter(d)
  BY <1>6, <1>8, <1>9 DEF Quieter, SameSending, SameLoss, SameStatus
<1> QED
  BY <1>6, <1>7, <1>8, <1>10, <1>11 DEF CrewStep, CrewMove, Crew

LEMMA EnqueueCrew ==
    ASSUME CrewInv, NEW x \in Drafts, Enqueue(x) PROVE CrewStep
<1>1. /\ x \in sending /\ _enqueue_draft(x) /\ sending' = sending \ {x}
      /\ UNCHANGED <<drafts, lost, extra>> /\ Crew
  BY DEF Enqueue, CrewInv
<1>2. /\ Hands' /\ \A d : d # x => SameCrew(d)
      /\ \E j : j \notin LiveJobs(x) /\ LiveJobs(x)' = LiveJobs(x) \cup {j}
  BY <1>1, HandsTake DEF Crew
<1>3. Sends(x)
  BY <1>1, <1>2 DEF Sends, SameStatus
<1>4. ASSUME NEW d \in Drafts \ {x} PROVE Quieter(d)
  BY <1>1, <1>2 DEF Quieter, SameSending, SameLoss, SameStatus
<1> QED
  BY <1>1, <1>2, <1>3, <1>4 DEF CrewStep, CrewMove, Crew

LEMMA EnqueueFailsCrew ==
    ASSUME CrewInv, NEW x \in Drafts, EnqueueFails(x) PROVE CrewStep
<1>1. /\ x \in sending /\ sending' = sending \ {x} /\ lost' = lost \cup {x}
      /\ UNCHANGED <<drafts, jobs, extra>> /\ Crew
  BY DEF EnqueueFails, CrewInv
<1>2. Hands' /\ \A d : SameCrew(d)
  BY <1>1, HandsStay DEF Crew
<1>3. Fails(x)
  BY <1>1, <1>2 DEF Fails, SameStatus
<1>4. ASSUME NEW d \in Drafts \ {x} PROVE Quieter(d)
  BY <1>1, <1>2 DEF Quieter, SameSending, SameLoss, SameStatus
<1> QED
  BY <1>1, <1>2, <1>3, <1>4 DEF CrewStep, CrewMove, Crew

\* A job ends: its row was written, was not to be written, or the fault that
\* ended it is counted.
LEMMA EndsCrew ==
    ASSUME CrewInv, NEW j \in Jobs, NEW x, x = jobs[j].draft, jobs[j].at # "free", End(j),
           UNCHANGED <<sending, extra>>,
           \A d \in Drafts \ {x} : drafts'[d].status = drafts[d].status,
           \A d \in Drafts : SameLoss(d),
           drafts'[x].status # "none",
           drafts'[x].status = "queued" => x \in lost' /\ drafts[x].status = "queued"
    PROVE  CrewStep
<1>1. Crew /\ x \in Drafts
  BY DEF CrewInv, Crew, Hands
<1>2. /\ Hands' /\ j \in LiveJobs(x) /\ LiveJobs(x)' = LiveJobs(x) \ {j}
      /\ \A d : d # x => SameCrew(d)
  BY <1>1, HandsEnd DEF Crew
<1>3. Ends(x)
  BY <1>2 DEF Ends, SameSending
<1>4. ASSUME NEW d \in Drafts \ {x} PROVE Quieter(d)
  BY <1>2 DEF Quieter, SameSending, SameStatus
<1> QED
  BY <1>1, <1>2, <1>3, <1>4 DEF CrewStep, CrewMove, Crew

LEMMA LiveRow ==
    ASSUME CrewInv, NEW j \in Jobs, jobs[j].at # "free"
    PROVE  jobs[j].draft \in Drafts /\ drafts[jobs[j].draft].status # "none"
<1>1. PICK x : x = jobs[j].draft
  OBVIOUS
<1>2. x \in Drafts /\ j \in LiveJobs(x)
  BY <1>1 DEF CrewInv, Crew, Hands, LiveJobs
<1> QED
  BY <1>1, <1>2 DEF CrewInv, JobLimit

LEMMA RunCrew == ASSUME CrewInv, NEW j \in Jobs, _run_job(j) PROVE CrewStep
<1>1. /\ jobs[j].at = "queue" /\ UNCHANGED <<drafts, sending, lost, extra>> /\ Hands
  BY DEF _run_job, Worker, CrewInv, Crew
<1>2. CASE \E at \in {"park", "write"} : JobAt(j, at)
  BY <1>1, <1>2, StageWorks, StagesMove
<1>3. CASE End(j) /\ drafts[jobs[j].draft].status # "queued"
  <2>1. PICK x : x = jobs[j].draft
    OBVIOUS
  <2>2. drafts[x].status \notin {"none", "queued"}
    BY <1>1, <1>3, <2>1, LiveRow
  <2> QED
    BY <1>1, <1>3, <2>1, <2>2, EndsCrew DEF SameLoss
<1> QED
  BY <1>2, <1>3 DEF _run_job

LEMMA GenerateWorks ==
    ASSUME Hands, NEW j \in Jobs, jobs[j].at # "free", generate_copy(j)
    PROVE  Hands' /\ \A d : SameCrew(d)
<1>1. JobAt(j, "park") \/ \E t : jobs' = [jobs EXCEPT ![j].at = "complete", ![j].text = t]
  BY DEF generate_copy
<1> QED
  BY <1>1, StageWorks

LEMMA WritesCrew ==
    ASSUME CrewInv, NEW j \in Jobs, run_draft(j) \/ run_summary(j) PROVE CrewStep
<1>1. /\ jobs[j].at = "write" /\ UNCHANGED <<drafts, sending, lost, extra>> /\ Hands
      /\ JobAt(j, "park") \/ generate_copy(j)
  BY DEF run_draft, run_summary, Worker, CrewInv, Crew
<1>2. Hands' /\ \A d : SameCrew(d)
  BY <1>1, StageWorks, GenerateWorks
<1> QED
  BY <1>1, <1>2, StagesMove

\* A worker's write ends its job, and the row is no longer queued.
LEMMA FinishCrew ==
    ASSUME StudioInv, CrewInv, NEW j \in Jobs, jobs[j].at # "free", End(j),
           UNCHANGED <<sending, extra, lost>>,
           NEW entry, entry.status \in {"drafted", "parked"}, _move(jobs[j].draft, "queued", entry)
    PROVE  CrewStep
<1>1. PICK x : x = jobs[j].draft
  OBVIOUS
<1>2. x \in Drafts /\ drafts[x].status # "none" /\ Desk
  BY <1>1, LiveRow DEF StudioInv
<1>3. _move(x, "queued", entry)
  BY <1>1
<1>4. CASE drafts[x].status = "queued"
  <2>1. drafts'[x] = entry /\ \A d \in Drafts \ {x} : drafts'[d] = drafts[d]
    BY <1>2, <1>3, <1>4 DEF _move, Desk
  <2> QED
    BY <1>1, <2>1, EndsCrew DEF SameLoss
<1>5. CASE drafts[x].status # "queued"
  <2>1. drafts' = drafts
    BY <1>3, <1>5 DEF _move
  <2> QED
    BY <1>1, <1>2, <1>5, <2>1, EndsCrew DEF SameLoss
<1> QED
  BY <1>4, <1>5

LEMMA CompleteCrew ==
    ASSUME StudioInv, CrewInv, NEW j \in Jobs, DraftComplete(j) \/ park(j) PROVE CrewStep
<1>1. PICK d : d = jobs[j].draft
  OBVIOUS
<1>2. /\ jobs[j].at # "free" /\ End(j) /\ UNCHANGED <<sending, extra, lost>>
  BY DEF DraftComplete, park, Worker
<1>3. d \in Drafts
  BY <1>1, <1>2, LiveRow
<1>4. CASE DraftComplete(j)
  <2>1. PICK entry : entry = [drafts[d] EXCEPT !.status = "drafted", !.content = jobs[j].text]
    OBVIOUS
  <2>2. entry.status = "drafted"
    <3>1. PICK old, t : old = drafts[d] /\ IsRow(old) /\ t = jobs[j].text
      BY <1>3 DEF StudioInv, Desk
    <3>2. entry = [old EXCEPT !.status = "drafted", !.content = t]
      BY <2>1, <3>1
    <3>3. entry = [status |-> "drafted", kind |-> old.kind, place |-> old.place,
                 target |-> old.target, content |-> t, published |-> old.published]
      BY <3>1, <3>2 DEF IsRow
    <3> QED
      BY <3>3
  <2>3. _move(d, "queued", entry)
    BY <1>1, <1>4, <2>1 DEF DraftComplete
  <2> QED
    BY <1>1, <1>2, <2>2, <2>3, FinishCrew
<1>5. CASE park(j)
  <2>1. PICK entry : entry = [drafts[d] EXCEPT !.status = "parked"]
    OBVIOUS
  <2>2. entry.status = "parked"
    BY <1>3, <2>1, RowEdit
  <2>3. _move(d, "queued", entry)
    BY <1>1, <1>5, <2>1 DEF park
  <2> QED
    BY <1>1, <1>2, <2>2, <2>3, FinishCrew
<1> QED
  BY <1>4, <1>5

LEMMA WritingCrew == ASSUME StudioInv, CrewInv, Writing PROVE CrewStep
BY EnqueueCrew, RunCrew, WritesCrew, CompleteCrew DEF Writing

LEMMA JobFaultsCrew ==
    ASSUME CrewInv, NEW j \in Jobs, PermanentFailure(j) \/ autoretry(j) \/ ParkFails(j) \/ WorkerLost(j)
    PROVE  CrewStep
<1>1. Hands
  BY DEF CrewInv, Crew
<1>2. CASE PermanentFailure(j)
  BY <1>1, <1>2, StageWorks, StagesMove DEF PermanentFailure
<1>3. CASE autoretry(j)
  <2>1. /\ jobs[j].at = "write" /\ UNCHANGED <<drafts, sending, lost, extra>>
        /\ JobAt(j, "park") \/ jobs' = [jobs EXCEPT ![j].at = "queue", ![j].retries = @ + 1]
    BY <1>3 DEF autoretry
  <2> QED
    BY <1>1, <2>1, StageWorks, StagesMove
<1>4. CASE ParkFails(j)
  <2>1. PICK x : x = jobs[j].draft
    OBVIOUS
  <2>2. /\ jobs[j].at = "park" /\ End(j) /\ lost' = lost \cup {x}
        /\ UNCHANGED <<drafts, sending, extra>>
    BY <1>4, <2>1 DEF ParkFails
  <2>3. drafts[x].status # "none"
    BY <2>1, <2>2, LiveRow
  <2> QED
    BY <2>1, <2>2, <2>3, EndsCrew DEF SameLoss
<1>5. CASE WorkerLost(j)
  <2>1. jobs[j].at # "free" /\ UNCHANGED <<drafts, sending, lost>>
    BY <1>5 DEF WorkerLost
  <2>2. CASE jobs' = [jobs EXCEPT ![j].at = "queue", ![j].text = Gone] /\ UNCHANGED extra
    BY <1>1, <2>1, <2>2, StageWorks, StagesMove
  <2>3. CASE /\ _enqueue_draft(jobs[j].draft)
             /\ extra' = [extra EXCEPT ![jobs[j].draft] = @ + 1]
    <3>1. PICK x : x = jobs[j].draft
      OBVIOUS
    <3>2. /\ x \in Drafts /\ j \in LiveJobs(x) /\ extra \in [Drafts -> Nat]
      BY <2>1, <3>1 DEF CrewInv, Crew, Hands, LiveJobs
    <3>3. /\ Hands' /\ \A d : d # x => SameCrew(d)
          /\ \E i : i \notin LiveJobs(x) /\ LiveJobs(x)' = LiveJobs(x) \cup {i}
      BY <1>1, <2>3, <3>1, <3>2, HandsTake
    <3>4. /\ extra' \in [Drafts -> Nat] /\ extra'[x] = extra[x] + 1
          /\ \A d \in Drafts \ {x} : extra'[d] = extra[d]
      BY <2>3, <3>1, <3>2
    <3>5. Doubles(x)
      BY <2>1, <3>2, <3>3, <3>4 DEF Doubles, SameSending, SameStatus
    <3>6. ASSUME NEW d \in Drafts \ {x} PROVE Quieter(d)
      BY <2>1, <3>3, <3>4 DEF Quieter, SameSending, SameLoss, SameStatus
    <3> QED
      BY <2>1, <3>3, <3>4, <3>5, <3>6 DEF CrewStep, CrewMove, Crew, CrewInv
  <2> QED
    BY <1>5, <2>2, <2>3 DEF WorkerLost
<1> QED
  BY <1>2, <1>3, <1>4, <1>5

\* A person's decision takes a row out of `drafted`; a replay queues a parked one.
LEMMA DecisionCrew ==
    ASSUME StudioInv, CrewInv, UNCHANGED <<jobs, sending, lost, extra>>,
           NEW x \in Drafts, NEW entry, entry.status \in Decided, _move(x, "drafted", entry)
    PROVE  CrewStep
<1>1. Crew /\ Desk
  BY DEF CrewInv, StudioInv
<1>2. Hands' /\ \A d : SameCrew(d)
  BY <1>1, HandsStay DEF Crew
<1>3. \A d \in Drafts : \/ drafts'[d] = drafts[d]
                        \/ drafts[d].status = "drafted" /\ drafts'[d].status \in Decided
  BY <1>1 DEF _move, Desk
<1>4. ASSUME NEW d \in Drafts PROVE Quieter(d)
  BY <1>2, <1>3 DEF Quieter, SameSending, SameLoss, SameStatus
<1> QED
  BY <1>1, <1>2, <1>4 DEF CrewStep, CrewMove, Crew

LEMMA DecideCrew ==
    ASSUME StudioInv, CrewInv, NEW a \in Tabs, tab[a].at # "idle",
           UNCHANGED <<jobs, sending, lost, extra>>,
           NEW status \in Decided, NEW content, _decide(a, status, content)
    PROVE  CrewStep
<1>1. PICK x : x = tab[a].draft
  OBVIOUS
<1>2. x \in Drafts
  BY <1>1 DEF StudioInv, InHand
<1>3. PICK entry : entry = [drafts[x] EXCEPT !.status = status, !.published = content]
  OBVIOUS
<1>4. _move(x, "drafted", entry)
  BY <1>1, <1>3 DEF _decide
<1>5. entry.status = status
  <2>1. PICK old : old = drafts[x] /\ IsRow(old)
    BY <1>2 DEF StudioInv, Desk
  <2>2. entry = [old EXCEPT !.status = status, !.published = content]
    BY <1>3, <2>1
  <2>3. entry = [status |-> status, kind |-> old.kind, place |-> old.place,
               target |-> old.target, content |-> old.content, published |-> content]
    BY <2>1, <2>2 DEF IsRow
  <2> QED
    BY <2>3
<1> QED
  BY <1>2, <1>4, <1>5, DecisionCrew

LEMMA RequeueCrew == ASSUME StudioInv, CrewInv, NEW a \in Tabs, replay_draft(a) PROVE CrewStep
<1>1. PICK x : x = tab[a].draft
  OBVIOUS
<1>2. PICK entry : entry = [drafts[x] EXCEPT !.status = "queued"]
  OBVIOUS
<1>3. /\ tab[a].at = "requeue" /\ _move(x, "parked", entry) /\ UNCHANGED <<jobs, extra>>
      /\ IF drafts[x].status = "parked" THEN sending' = sending \cup {x} /\ lost' = lost \ {x}
         ELSE UNCHANGED <<sending, lost>>
  BY <1>1, <1>2 DEF replay_draft
<1>4. x \in Drafts /\ Crew /\ Desk
  BY <1>1, <1>3 DEF StudioInv, InHand, CrewInv
<1>5. Hands' /\ \A d : SameCrew(d)
  BY <1>3, <1>4, HandsStay DEF Crew
<1>6. CASE drafts[x].status # "parked"
  <2>1. drafts' = drafts /\ UNCHANGED <<sending, lost>>
    BY <1>3, <1>6 DEF _move
  <2> QED
    BY <1>3, <2>1, NobodyMoves
<1>7. CASE drafts[x].status = "parked"
  <2>1. drafts'[x] = entry /\ entry.status = "queued" /\ \A d \in Drafts \ {x} : drafts'[d] = drafts[d]
    BY <1>2, <1>3, <1>4, <1>7, RowEdit DEF _move, Desk
  <2>2. Queues(x)
    BY <1>3, <1>4, <1>5, <1>7, <2>1 DEF Queues, Crew
  <2>3. ASSUME NEW d \in Drafts \ {x} PROVE Quieter(d)
    BY <1>3, <1>5, <1>7, <2>1 DEF Quieter, SameSending, SameLoss, SameStatus
  <2> QED
    BY <1>3, <1>4, <1>5, <1>7, <2>2, <2>3 DEF CrewStep, CrewMove, Crew
<1> QED
  BY <1>6, <1>7

LEMMA AnsweringCrew == ASSUME StudioInv, CrewInv, Answering PROVE CrewStep
<1>1. PICK a \in Tabs :
          \/ list_drafts(a) \/ patchItem(a) \/ approve(a) \/ approve_decide(a)
          \/ reject(a) \/ reject_decide(a) \/ replay(a) \/ replay_draft(a)
  BY DEF Answering
<1>2. CASE list_drafts(a) \/ patchItem(a)
  BY <1>2, NobodyMoves DEF list_drafts, patchItem, Console
<1>3. CASE approve(a) \/ reject(a) \/ replay(a)
  BY <1>3, NobodyMoves DEF approve, reject, replay, Console
<1>4. CASE approve_decide(a)
  BY <1>4, DecideCrew DEF approve_decide, Console, Decided
<1>5. CASE reject_decide(a)
  BY <1>5, DecideCrew DEF reject_decide, Console, Decided
<1> QED
  BY <1>1, <1>2, <1>3, <1>4, <1>5, RequeueCrew

LEMMA ReplyLostCrew == ASSUME StudioInv, CrewInv, NEW a \in Tabs, ReplyLost(a) PROVE CrewStep
<1>1. PICK x, t : x = tab[a].draft /\ t = tab[a].text
  OBVIOUS
<1>2. UNCHANGED <<jobs, sending, lost, extra>> /\ tab[a].at # "idle"
  BY DEF ReplyLost
<1>3. x \in Drafts
  BY <1>1, <1>2 DEF StudioInv, InHand
<1>4. \/ UNCHANGED drafts
      \/ _move(x, "drafted", [drafts[x] EXCEPT !.status = "published", !.published = t])
      \/ _move(x, "drafted", [drafts[x] EXCEPT !.status = "rejected"])
  BY <1>1 DEF ReplyLost
<1>5. CASE UNCHANGED drafts
  BY <1>2, <1>5, NobodyMoves
<1>6. CASE _move(x, "drafted", [drafts[x] EXCEPT !.status = "published", !.published = t])
  <2>1. PICK entry : entry = [drafts[x] EXCEPT !.status = "published", !.published = t]
    OBVIOUS
  <2>2. entry.status = "published"
    <3>1. PICK old : old = drafts[x] /\ IsRow(old)
      BY <1>3 DEF StudioInv, Desk
    <3>2. entry = [old EXCEPT !.status = "published", !.published = t]
      BY <2>1, <3>1
    <3>3. entry = [status |-> "published", kind |-> old.kind, place |-> old.place,
                 target |-> old.target, content |-> old.content, published |-> t]
      BY <3>1, <3>2 DEF IsRow
    <3> QED
      BY <3>3
  <2>3. entry.status \in Decided
    BY <2>2 DEF Decided
  <2> QED
    BY <1>2, <1>3, <1>6, <2>1, <2>3, DecisionCrew
<1>7. CASE _move(x, "drafted", [drafts[x] EXCEPT !.status = "rejected"])
  <2>1. PICK entry : entry = [drafts[x] EXCEPT !.status = "rejected"]
    OBVIOUS
  <2>2. entry.status \in Decided
    BY <1>3, <2>1, RowEdit DEF Decided
  <2> QED
    BY <1>2, <1>3, <1>7, <2>1, <2>2, DecisionCrew
<1> QED
  BY <1>4, <1>5, <1>6, <1>7

LEMMA FaultsCrew == ASSUME StudioInv, CrewInv, SFaults PROVE CrewStep
<1>1. CASE SwitchGeneration \/ ReviewGone
  BY <1>1, NobodyMoves DEF SwitchGeneration, ReviewGone
<1>2. CASE \E a \in Tabs : CallFails(a)
  BY <1>2, NobodyMoves DEF CallFails
<1> QED
  BY <1>1, <1>2, EnqueueFailsCrew, JobFaultsCrew, ReplyLostCrew DEF SFaults

LEMMA PressingCrew == ASSUME CrewInv, Pressing PROVE CrewStep
<1>1. \E a, d, at, t : Press(a, d, at, t)
  BY DEF Pressing, publish, decline, retry
<1> QED
  BY <1>1, NobodyMoves DEF Press

LEMMA PlaneCrew == ASSUME StudioInv, CrewInv, [PlaneNext]_plane PROVE CrewInv'
<1>1. UNCHANGED plane \/ Indexes \/ Recommends => CrewStep
  BY NobodyMoves DEF plane, svars, Indexes, Recommends
<1>2. SNext => CrewStep
  BY AskCrew, WritingCrew, PressingCrew, AnsweringCrew, FaultsCrew DEF SNext
<1>3. CrewStep
  BY <1>1, <1>2 DEF PlaneNext
<1>4. ASSUME NEW d \in Drafts PROVE JobLimit(d)' /\ HasJob(d)'
  BY <1>3, CrewKept DEF CrewStep
<1> QED
  BY <1>3, <1>4 DEF CrewStep, CrewInv

LEMMA CrewHolds == PlaneSpec => [](StudioInv /\ CrewInv)
<1>1. StudioInv /\ [PlaneNext]_plane => StudioInv'
  BY StudioStep, MoveKeeps
<1>2. StudioInv /\ CrewInv /\ [PlaneNext]_plane => CrewInv'
  BY PlaneCrew
<1> QED
  BY <1>1, <1>2, StudioInit, CrewInit, PTL DEF PlaneSpec

\* A queued row has a job or is about to be sent one, unless a recorded fault
\* took it (_run_job's three arms, replay).
THEOREM QueuedCorrect == PlaneSpec => []QueuedHasJob
<1>1. CrewInv => QueuedHasJob
  BY DEF CrewInv, HasJob, QueuedHasJob
<1> QED
  BY <1>1, CrewHolds, PTL

\* One job at a time writes a row, but for the broker's own redeliveries: only
\* the replay that moved a parked row sends another (DraftStore.replay).
THEOREM OneJobCorrect == PlaneSpec => []OneJobEach
<1>1. CrewInv => OneJobEach
  <2> SUFFICES ASSUME CrewInv, NEW d \in Drafts
               PROVE  Cardinality(LiveJobs(d)) + (IF d \in sending THEN 1 ELSE 0) <= 1 + extra[d]
    BY DEF OneJobEach
  <2>1. JobLimit(d) /\ extra[d] \in Nat
    BY DEF CrewInv, Crew
  <2>2. Cardinality(LiveJobs(d)) \in Nat
    BY <2>1, FS_CardinalityType DEF JobLimit
  <2> QED
    BY <2>1, <2>2 DEF JobLimit
<1> QED
  BY <1>1, CrewHolds, PTL
=============================================================================
