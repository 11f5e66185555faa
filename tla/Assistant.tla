----------------------------- MODULE Assistant -----------------------------
(***************************************************************************)
(* The assistant's chat lane: a browser panel asks, ai-assistant files the *)
(* question and its empty answer row in one transaction, and a detached    *)
(* turn runs the graph (guard, retrieve, generate, ground), streams tokens *)
(* over a pub/sub channel nobody stores, and settles the row and the       *)
(* interaction fact together.  A ticket from the ask opens the stream;     *)
(* there is no resume.                                                     *)
(*                                                                         *)
(* A text is the set of its pieces: a chunk of a provider, or one of the   *)
(* fixed sentences.  A conversation is named by the turn that opened it.   *)
(***************************************************************************)
EXTENDS Naturals, FiniteSets, Sequences

CONSTANTS
    MaxTurns,      \* questions asked
    Panels,        \* browser tabs
    Customers,     \* customers who sign in on them
    NoUser,        \* nobody is signed in
    Passages,      \* what retrieval can find
    NoDish,        \* a dish no menu has: what a model may still cite
    Specs,         \* registered providers, in failover order
    MaxChunks,     \* text chunks of one generation
    HistoryLimit,  \* settings.history_limit: rows, this turn's own two among them
    MaxFaults,     \* outages, lost answers, dropped sockets, kills
    MaxSwitches    \* changes of the signed-in customer

ASSUME BoundsAreNat ==
    /\ MaxTurns \in Nat /\ MaxChunks \in Nat \ {0} /\ HistoryLimit \in Nat /\ MaxFaults \in Nat
    /\ MaxSwitches \in Nat
ASSUME NamesApart == Panels # {} /\ NoUser \notin Customers /\ NoDish \notin Passages
ASSUME SpecsAreNamed == Specs \in Seq(STRING)

Turns == 1..MaxTurns

VARIABLES
    panel,   \* what a tab holds: who is signed in, its conversation, its stream
    ask,     \* one POST /v1/assistant/messages: whose, where from, its answer
    owner,   \* conversations.user_id, per conversation
    filed,   \* turns of each conversation, in created_at order
    run,     \* the detached task of a turn
    row,     \* the assistant row in messages
    facts,   \* interaction facts staged in the outbox, per turn
    reader,  \* the one stream a turn's ticket opens
    faults,
    switches

vars == <<panel, ask, owner, filed, run, row, facts, reader, faults, switches>>

-----------------------------------------------------------------------------
(* Texts, rows and states. *)

Piece(who, n) == <<who, n>>
REFUSAL == Piece("refusal", 0)
NO_MATCH == Piece("no match", 0)
CITATIONS_ONLY == Piece("citations only", 0)
TRUNCATED == Piece("truncated", 0)
UNAVAILABLE == Piece("unavailable", 0)

Spoken == {Piece(Specs[i], n) : i \in 1..Len(Specs), n \in 1..MaxChunks}
Pieces == Spoken \cup {REFUSAL, NO_MATCH, CITATIONS_ONLY, TRUNCATED, UNAVAILABLE}

\* policy._verdict of a question: a condition with personal framing, or not.
Kinds == {"plain", "condition"}

Live == {"guard", "retrieve", "generate", "answer", "settle", "failing",
         "unsettled", "close"}

Mishaps == {"alone", "muted", "unheard", "cancelled", "crashed", "unwritten"}

Panel == [user : Customers \cup {NoUser}, conv : 0..MaxTurns, live : 0..MaxTurns, busy : BOOLEAN]
Ask == [at : {"idle", "sent", "ok", "no", "read"}, panel : Panels, user : Customers \cup {NoUser},
        conv : 0..MaxTurns, kind : Kinds]
Run == [at : {"none", "over"} \cup Live, window : SUBSET Turns, spec : 1..(Len(Specs) + 1),
        chunks : 0..MaxChunks, candidates : SUBSET Passages, said : SUBSET Pieces,
        held : SUBSET Pieces, answer : SUBSET Pieces, item_ids : SUBSET Passages,
        stopped : {"", "refused", "no_match"}, waited : BOOLEAN, mishaps : SUBSET Mishaps]
Row == [status : {"none", "streaming", "complete", "failed"}, content : SUBSET Pieces,
        item_ids : SUBSET Passages]
Reader == [at : {"none", "attached", "ended", "lost"},
           got : SUBSET Pieces, item_ids : SUBSET Passages, cards : SUBSET Passages]
Outcomes == {"answered", "refused", "no_match", "failed"}

TypeOK ==
    /\ panel \in [Panels -> Panel]
    /\ ask \in [Turns -> Ask]
    /\ owner \in [Turns -> Customers \cup {NoUser}]
    /\ filed \in [Turns -> Seq(Turns)]
    /\ run \in [Turns -> Run]
    /\ row \in [Turns -> Row]
    /\ facts \in [Turns -> Seq(Outcomes)]
    /\ reader \in [Turns -> Reader]
    /\ faults \in 0..MaxFaults /\ switches \in 0..MaxSwitches

NoRun == [at |-> "none", window |-> {}, spec |-> 1, chunks |-> 0, candidates |-> {},
          said |-> {}, held |-> {}, answer |-> {}, item_ids |-> {}, stopped |-> "",
          waited |-> FALSE, mishaps |-> {}]

\* A finished task: its locals are gone.
Over(r) == [NoRun EXCEPT !.at = "over", !.window = r.window, !.candidates = r.candidates,
                         !.mishaps = r.mishaps]

NoReader == [at |-> "none", got |-> {}, item_ids |-> {}, cards |-> {}]
Lost == [NoReader EXCEPT !.at = "lost"]

SignedOut(u) == [user |-> u, conv |-> 0, live |-> 0, busy |-> FALSE]

Start(f, s) ==
    /\ \E u \in Customers : panel = [p \in Panels |-> SignedOut(u)]
    /\ ask \in [Turns -> {[at |-> "idle", panel |-> p, user |-> NoUser, conv |-> 0,
                           kind |-> "plain"] : p \in {CHOOSE q \in Panels : TRUE}}]
    /\ owner = [c \in Turns |-> NoUser]
    /\ filed = [c \in Turns |-> <<>>]
    /\ run = [t \in Turns |-> NoRun]
    /\ row = [t \in Turns |-> [status |-> "none", content |-> {}, item_ids |-> {}]]
    /\ facts = [t \in Turns |-> <<>>]
    /\ reader = [t \in Turns |-> NoReader]
    /\ faults = f /\ switches = s

Init == Start(0, 0)

Fault == faults < MaxFaults /\ faults' = faults + 1

-----------------------------------------------------------------------------
(* The panel.  One question at a time, one EventSource at a time; a change *)
(* of `sub` clears everything the panel holds, an ask in flight excepted.  *)

\* send: the handler up to its await.
send(p, kind) ==
    /\ panel[p].user # NoUser /\ ~panel[p].busy
    /\ \E t \in Turns :
        /\ ask[t].at = "idle" /\ \A s \in Turns : s < t => ask[s].at # "idle"
        /\ ask' = [ask EXCEPT ![t] = [at |-> "sent", panel |-> p, user |-> panel[p].user,
                                      conv |-> panel[p].conv, kind |-> kind]]
    /\ panel' = [panel EXCEPT ![p].busy = TRUE]
    /\ UNCHANGED <<owner, filed, run, row, facts, reader, faults, switches>>

\* esRef.current?.close(): the old stream is aborted, and says nothing more.
Close(t) == IF t = 0 THEN reader
            ELSE [reader EXCEPT ![t] = IF @.at = "attached" THEN Lost ELSE @]

\* GETDEL the ticket, which is for this channel and unspent, and subscribe.
stream_answer(r) == [r EXCEPT !.at = "attached"]

\* send after its await, and follow: the conversation is the started one and
\* the panel follows the answer, whoever is signed in by now.
follow(t) ==
    LET p == ask[t].panel IN
    /\ ask[t].at = "ok"
    /\ ask' = [ask EXCEPT ![t].at = "read"]
    /\ panel' = [panel EXCEPT ![p].conv = ask[t].conv, ![p].live = t]
    /\ reader' = [Close(panel[p].live) EXCEPT ![t] = stream_answer(@)]
    /\ UNCHANGED <<owner, filed, run, row, facts, faults, switches>>

SendFails(t) ==
    /\ ask[t].at = "no"
    /\ ask' = [ask EXCEPT ![t].at = "read"]
    /\ panel' = [panel EXCEPT ![ask[t].panel].busy = FALSE]
    /\ UNCHANGED <<owner, filed, run, row, facts, reader, faults, switches>>

\* useEffect on [sub].
SwitchUser(p, u) ==
    /\ u # panel[p].user
    /\ switches < MaxSwitches /\ switches' = switches + 1
    /\ panel' = [panel EXCEPT ![p] = SignedOut(u)]
    /\ reader' = Close(panel[p].live)
    /\ UNCHANGED <<ask, owner, filed, run, row, facts, faults>>

\* CardService: the dishes the row cites, for its owner, priced now.
for_message(t, u) == IF owner[ask[t].conv] = u THEN row[t].item_ids ELSE {}

\* The chunk listener at the terminal frame: the cards are a second read.
ReadCards(t) ==
    /\ reader[t].at = "ended" /\ panel[ask[t].panel].live = t
    /\ panel' = [panel EXCEPT ![ask[t].panel].live = 0, ![ask[t].panel].busy = FALSE]
    /\ reader' = [reader EXCEPT ![t].cards = for_message(t, panel[ask[t].panel].user)]
    /\ UNCHANGED <<ask, owner, filed, run, row, facts, faults, switches>>

\* onerror and the server's `reconnect` frame: resume asks for a ticket at a
\* route ai-assistant does not serve, and the panel gives the turn up.
resume(t) ==
    /\ reader[t].at = "attached" /\ panel[ask[t].panel].live = t
    /\ \/ Fault
       \/ run[t].at = "over" /\ UNCHANGED faults   \* the stream's lifetime
    /\ reader' = [reader EXCEPT ![t] = Lost]
    /\ panel' = [panel EXCEPT ![ask[t].panel].busy = FALSE]
    /\ UNCHANGED <<ask, owner, filed, run, row, facts, switches>>

-----------------------------------------------------------------------------
(* ChatService.start and the routes. *)

\* INSERT .. ON CONFLICT DO UPDATE .. WHERE user_id = the caller's.
ensure_conversation(c, u) == owner[c] \in {NoUser, u}

\* The last HistoryLimit rows with this turn's question and empty answer among
\* them: the turns before it that the guard and the model are shown.
history(c) ==
    LET earlier == filed[c]
        n == HistoryLimit \div 2
        first == IF Len(earlier) + 1 > n THEN Len(earlier) + 2 - n ELSE 1
    IN {earlier[i] : i \in first..Len(earlier)}

\* One transaction, then the task, then the ticket; a bus that cannot take the
\* ticket fails the request with the turn already running.
start(t) ==
    LET c == IF ask[t].conv = 0 THEN t ELSE ask[t].conv IN
    /\ ask[t].at = "sent"
    /\ IF ensure_conversation(c, ask[t].user)
       THEN /\ owner' = [owner EXCEPT ![c] = ask[t].user]
            /\ filed' = [filed EXCEPT ![c] = Append(@, t)]
            /\ row' = [row EXCEPT ![t].status = "streaming"]
            /\ run' = [run EXCEPT ![t].at = "guard", ![t].window = history(c)]
            /\ \/ ask' = [ask EXCEPT ![t].at = "ok", ![t].conv = c] /\ UNCHANGED faults
               \/ ask' = [ask EXCEPT ![t].at = "no", ![t].conv = c] /\ Fault
       ELSE /\ ask' = [ask EXCEPT ![t].at = "no"]
            /\ UNCHANGED <<owner, filed, row, run, faults>>
    /\ UNCHANGED <<panel, facts, reader, switches>>

-----------------------------------------------------------------------------
(* run_turn: the graph's nodes, then the row. *)

Turn(t, at) == run[t].at = at
Goto(t, at) == run' = [run EXCEPT ![t].at = at]

\* safety_check over the question and the history the turn was started with.
safety_check(t) ==
    \/ ask[t].kind = "condition"
    \/ \E s \in run[t].window : ask[s].kind = "condition"

guard(t) ==
    /\ Turn(t, "guard")
    /\ run' = [run EXCEPT ![t] =
                IF safety_check(t)
                THEN [@ EXCEPT !.at = "answer", !.answer = {REFUSAL}, !.stopped = "refused"]
                ELSE [@ EXCEPT !.at = "retrieve"]]
    /\ UNCHANGED <<panel, ask, owner, filed, row, facts, reader, faults, switches>>

\* PostgresRetriever: embed, rank, fuse, hydrate.  Whatever it can find.
retrieve == SUBSET Passages

\* Nothing found is answered without a model.
retrieve_node(t) ==
    /\ Turn(t, "retrieve")
    /\ \/ \E found \in retrieve :
            run' = [run EXCEPT ![t] =
                     IF found = {}
                     THEN [@ EXCEPT !.at = "answer", !.answer = {NO_MATCH}, !.stopped = "no_match"]
                     ELSE [@ EXCEPT !.at = "generate", !.candidates = found]]
          /\ UNCHANGED faults
       \/ Goto(t, "failing") /\ Fault
    /\ UNCHANGED <<panel, ask, owner, filed, row, facts, reader, switches>>

\* wait_for_reader, once, before the first frame: somebody listens, or the
\* wait times out and the turn speaks into an empty room.
wait_for_reader(t, r) ==
    IF r.waited \/ reader[t].at = "attached" THEN [r EXCEPT !.waited = TRUE]
    ELSE [r EXCEPT !.waited = TRUE, !.mishaps = @ \cup {"alone"}]

\* Publisher._write: the text is kept, then published; `next` is where the turn
\* goes when the bus takes it and `broken` where its exception is caught.
_write(t, pieces, r, next, broken) ==
    LET w == [wait_for_reader(t, r) EXCEPT !.said = @ \cup pieces, !.held = {}] IN
    /\ \/ /\ run' = [run EXCEPT ![t] = [w EXCEPT !.at = next]]
          /\ reader' = [reader EXCEPT ![t].got = IF reader[t].at = "attached"
                                                 THEN @ \cup pieces ELSE @]
          /\ UNCHANGED faults
       \/ /\ run' = [run EXCEPT ![t] = [w EXCEPT !.at = broken, !.mishaps = w.mishaps \cup {"muted"}]]
          /\ Fault /\ UNCHANGED reader

\* Stripper.push: all of the text goes out with what was held, or it was a
\* marker, or its tail may still become one and is held.
push(held, piece) == {[out |-> held \cup {piece}, held |-> {}], [out |-> {}, held |-> held],
                      [out |-> {}, held |-> held \cup {piece}]}

\* router.stream yields a chunk and Publisher.emit writes what is safe of it.
generate(t) ==
    LET r == [run[t] EXCEPT !.chunks = @ + 1]
        piece == Piece(Specs[r.spec], r.chunks)
    IN
    /\ Turn(t, "generate") /\ r.spec <= Len(Specs) /\ r.chunks <= MaxChunks
    /\ \E stripped \in push(r.held, piece) :
        IF stripped.out = {}
        THEN run' = [run EXCEPT ![t] = [r EXCEPT !.held = stripped.held]] /\ UNCHANGED <<reader, faults>>
        ELSE _write(t, stripped.out, r, "generate", "failing")
    /\ UNCHANGED <<panel, ask, owner, filed, row, facts, switches>>

\* router.stream: the next provider takes over before the first chunk, the
\* error goes to the turn after it; no provider, or generation off, is an error.
ProviderFails(t) ==
    LET r == run[t] IN
    /\ Turn(t, "generate")
    /\ run' = [run EXCEPT ![t] = IF r.chunks = 0 /\ r.spec < Len(Specs)
                                 THEN [r EXCEPT !.spec = r.spec + 1]
                                 ELSE [r EXCEPT !.at = "failing"]]
    /\ UNCHANGED <<panel, ask, owner, filed, row, facts, reader, faults, switches>>

\* Every marker is stripped; the ids that were retrieved are kept.
validate(cited, allowed) == cited \cap allowed

\* When the stream ends: whatever the model cited.
ground(t) ==
    /\ Turn(t, "generate") /\ run[t].spec <= Len(Specs)
    /\ \E cited \in SUBSET (Passages \cup {NoDish}) :
        run' = [run EXCEPT ![t] = [@ EXCEPT !.at = "answer", !.answer = run[t].said \cup run[t].held,
                                            !.item_ids = validate(cited, run[t].candidates)]]
    /\ UNCHANGED <<panel, ask, owner, filed, row, facts, reader, faults, switches>>

\* Mutant: an answer no token carried is not sent, only the held tail is.
AnswerFlushOnly(t) ==
    LET a == IF run[t].answer = {} THEN {CITATIONS_ONLY} ELSE run[t].answer
        r == [run[t] EXCEPT !.answer = IF @ = {} THEN run[t].said \cup a ELSE @]
    IN
    /\ Turn(t, "answer")
    /\ IF r.held = {}
       THEN run' = [run EXCEPT ![t] = [r EXCEPT !.at = "settle"]] /\ UNCHANGED <<reader, faults>>
       ELSE _write(t, r.held, r, "settle", "failing")
    /\ UNCHANGED <<panel, ask, owner, filed, row, facts, switches>>

\* The answer no token carried, then what the stripper still holds.
answer(t) ==
    LET a == IF run[t].answer = {} THEN {CITATIONS_ONLY} ELSE run[t].answer
        r == [run[t] EXCEPT !.answer = IF @ = {} THEN run[t].said \cup a ELSE @]
        pieces == IF r.said = {} THEN r.held \cup a ELSE r.held
    IN
    /\ Turn(t, "answer")
    /\ IF pieces = {}
       THEN run' = [run EXCEPT ![t] = [r EXCEPT !.at = "settle"]] /\ UNCHANGED <<reader, faults>>
       ELSE _write(t, pieces, r, "settle", "failing")
    /\ UNCHANGED <<panel, ask, owner, filed, row, facts, switches>>

\* Mutant: the update without its guard.
FinishUnguarded(t, status, content, item_ids, outcome) ==
    /\ row' = [row EXCEPT ![t] = [status |-> status, content |-> content, item_ids |-> item_ids]]
    /\ facts' = [facts EXCEPT ![t] = Append(@, outcome)]

\* UPDATE .. WHERE status = 'streaming', with the fact in its transaction.
finish_message(t, status, content, item_ids, outcome) ==
    IF row[t].status = "streaming"
    THEN /\ row' = [row EXCEPT ![t] = [status |-> status, content |-> content,
                                       item_ids |-> item_ids]]
         /\ facts' = [facts EXCEPT ![t] = Append(@, outcome)]
    ELSE UNCHANGED <<row, facts>>

\* Then record_shown notes the cited dishes, best effort.
settle(t) ==
    LET r == run[t]
        outcome == IF r.stopped = "" THEN "answered" ELSE r.stopped
    IN
    /\ Turn(t, "settle")
    /\ \/ /\ finish_message(t, "complete", r.answer, r.item_ids, outcome)
          /\ Goto(t, "close") /\ UNCHANGED faults
       \/ /\ finish_message(t, "complete", r.answer, r.item_ids, outcome)  \* reply lost
          /\ run' = [run EXCEPT ![t].at = "failing", ![t].mishaps = @ \cup {"unheard"}]
          /\ Fault
       \/ Goto(t, "failing") /\ Fault /\ UNCHANGED <<row, facts>>
    /\ UNCHANGED <<panel, ask, owner, filed, reader, switches>>

\* Mutant: the reader is told and the row is left.
ApologyOnly(t) ==
    /\ Turn(t, "failing")
    /\ _write(t, run[t].held \cup {IF run[t].said = {} THEN UNAVAILABLE ELSE TRUNCATED},
              run[t], "close", "close")
    /\ UNCHANGED <<panel, ask, owner, filed, row, facts, switches>>

\* _settle_failed: the apology first, then the row.  An error here leaves by
\* the `finally`.
_settle_failed(t) ==
    /\ Turn(t, "failing")
    /\ _write(t, run[t].held \cup {IF run[t].said = {} THEN UNAVAILABLE ELSE TRUNCATED},
              run[t], "unsettled", "close")
    /\ UNCHANGED <<panel, ask, owner, filed, row, facts, switches>>

SettleFailedRow(t) ==
    /\ Turn(t, "unsettled")
    /\ \/ /\ finish_message(t, "failed", run[t].said, {}, "failed")
          /\ Goto(t, "close") /\ UNCHANGED faults
       \/ /\ run' = [run EXCEPT ![t].at = "close", ![t].mishaps = @ \cup {"unwritten"}]
          /\ Fault /\ UNCHANGED <<row, facts>>
    /\ UNCHANGED <<panel, ask, owner, filed, reader, switches>>

\* Publisher.close in the `finally`: the terminal frame, or the bus refuses it.
close(t) ==
    /\ Turn(t, "close")
    /\ run' = [run EXCEPT ![t] = Over(wait_for_reader(t, @))]
    /\ \/ /\ reader' = [reader EXCEPT ![t] = IF @.at = "attached"
                                             THEN [@ EXCEPT !.at = "ended", !.item_ids = run[t].item_ids]
                                             ELSE @]
          /\ UNCHANGED faults
       \/ Fault /\ UNCHANGED reader
    /\ UNCHANGED <<panel, ask, owner, filed, row, facts, switches>>

\* The loop closes under the turn: CancelledError settles it as failed, and
\* inside that handler goes straight to the `finally`.
Cancel(t) ==
    /\ run[t].at \in Live \ {"close"}
    /\ Fault
    /\ run' = [run EXCEPT ![t].mishaps = @ \cup {"cancelled"},
                          ![t].at = IF @ \in {"failing", "unsettled"} THEN "close" ELSE "failing"]
    /\ UNCHANGED <<panel, ask, owner, filed, row, facts, reader, switches>>

\* The process is killed: its turns and its requests with it; its streams end
\* at the browser by resume.
Crash ==
    /\ \E t \in Turns : run[t].at \in Live
    /\ Fault
    /\ run' = [t \in Turns |-> IF run[t].at \in Live
                               THEN [Over(run[t]) EXCEPT !.mishaps = @ \cup {"crashed"}]
                               ELSE run[t]]
    /\ ask' = [t \in Turns |-> [ask[t] EXCEPT !.at = IF @ = "sent" THEN "no" ELSE @]]
    /\ UNCHANGED <<panel, owner, filed, row, facts, reader, switches>>

-----------------------------------------------------------------------------
(* The specification.  The event loop runs what it holds and a request is *)
(* answered; a customer, a fault and a provider's failure promise nothing. *)

Work(t) ==
    \/ guard(t) \/ retrieve_node(t) \/ generate(t) \/ ground(t) \/ answer(t) \/ settle(t)
    \/ _settle_failed(t) \/ SettleFailedRow(t) \/ close(t)

Browser(t) == follow(t) \/ SendFails(t) \/ ReadCards(t) \/ resume(t)

Next ==
    \/ \E p \in Panels : \/ \E kind \in Kinds : send(p, kind)
                         \/ \E u \in Customers : SwitchUser(p, u)
    \/ \E t \in Turns : \/ start(t) \/ Work(t) \/ Browser(t) \/ ProviderFails(t) \/ Cancel(t)
    \/ Crash

\* Behaviours are finite, so one condition is enough: something that can run does.
Fairness ==
    WF_vars(\E t \in Turns : start(t) \/ Work(t) \/ Browser(t) \/ ProviderFails(t))

Spec == Init /\ [][Next]_vars /\ Fairness

-----------------------------------------------------------------------------
(* Properties. *)

\* A settled answer has exactly one interaction fact and the fact says how it
\* ended; an unsettled one has none (stage_interaction beside the guarded
\* finish_message), a commit whose reply was lost and a second settlement included.
FactPerAnswer ==
    \A t \in Turns :
        facts[t] = CASE row[t].status \in {"none", "streaming"} -> <<>>
                     [] row[t].status = "failed" -> <<"failed">>
                     [] row[t].status = "complete" ->
                          <<CASE row[t].content = {REFUSAL} -> "refused"
                              [] row[t].content = {NO_MATCH} -> "no_match"
                              [] OTHER -> "answered">>

\* No answer is spliced from two providers, failovers, held tails and apologies
\* included (ModelRouter.stream's one rule).
OneVoice ==
    \A t \in Turns :
        Cardinality({p[1] : p \in (run[t].said \cup run[t].held \cup row[t].content) \cap Spoken}) <= 1

\* A reader the turn waited for, given the terminal frame, has read every word the
\* row keeps, and nothing else but the note that the answer stopped; the row is
\* settled, and the cards it then reads are dishes retrieval found.
HeardWhole ==
    \A t \in Turns :
        reader[t].at = "ended" /\ run[t].mishaps \cap {"alone", "muted"} = {} =>
            /\ \/ row[t].status \in {"complete", "failed"}
               \/ run[t].mishaps \cap {"unwritten", "cancelled"} # {}
            /\ row[t].content \subseteq reader[t].got
            /\ row[t].status = "complete" =>
                 /\ reader[t].got \ row[t].content \subseteq {TRUNCATED}
                 /\ reader[t].item_ids = row[t].item_ids
            /\ reader[t].cards \subseteq run[t].candidates

\* What a turn is shown of its conversation was asked by the same customer, a
\* panel that still holds another customer's conversation id included.
OwnContext ==
    \A t \in Turns : \A s \in run[t].window : ask[s].user = ask[t].user

\* The turn after a disclosed condition never reaches a model, one asked while
\* the first is still running or after it broke included.
GuardArmedNext ==
    \A c \in Turns : \A i \in 1..(Len(filed[c]) - 1) :
        ask[filed[c][i]].kind = "condition" => run[filed[c][i + 1]].candidates = {}

\* A turn whose process, bus and database hold settles its row, whoever reads it.
TurnSettles ==
    \A t \in Turns :
        (row[t].status = "streaming") ~>
            \/ row[t].status # "streaming"
            \/ run[t].mishaps \cap {"crashed", "cancelled", "muted", "unwritten"} # {}

\* The panel never stays busy: an answer, a refusal, a dropped stream and a dead
\* server all give the question box back.
PanelFrees == \A p \in Panels : panel[p].busy ~> ~panel[p].busy

\* The rule the guard's comments state, which the code does not meet (README):
\* a declared condition keeps the guard armed for the rest of the conversation.
GuardStaysArmed ==
    \A c \in Turns : \A i, j \in 1..Len(filed[c]) :
        i < j /\ ask[filed[c][i]].kind = "condition" => run[filed[c][j]].candidates = {}
=============================================================================
