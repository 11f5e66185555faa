-------------------------------- MODULE Live --------------------------------
(***************************************************************************)
(* Live views: the order page and the notification bell.  Rows are the     *)
(* record; after its commit a writer publishes a hint on a Redis channel,  *)
(* a ticketed SSE stream relays it, and the page fetches again.  While its *)
(* stream is open a page does not poll.  Every part may fail on its own:   *)
(* the bus, the ticket, the stream, the writer before its hint, a GET.     *)
(***************************************************************************)
EXTENDS Naturals, Sequences, FiniteSets

CONSTANTS
    Notices,        \* notifications one recipient is sent
    MaxMoves,       \* status moves of the order; the last one is TERMINAL
    MaxMishaps,     \* outages, dropped connections, failed requests
    MaxTaps         \* taps on the bell

ASSUME LiveBounds == MaxMoves \in Nat \ {0} /\ MaxMishaps \in Nat /\ MaxTaps \in Nat
\* No notification is named as a tap is.
ASSUME NoticesHaveNames == Notices \cap {"none", "all", "settled"} = {}

VARIABLES
    view,       \* the page that is open: "track", "bell" or "none"
    status,     \* orders.status, as moves made
    rows,       \* notifications: a row's id -> "absent", "unread", "read"
    deliveries, \* deliveries of each order event still to come
    due,        \* commits whose hint is not published yet
    bus,        \* Redis: "up" or "down"
    ticket,     \* the page's ticket key is in Redis
    serving,    \* the server's stream: "none", "first" or "subscribed"
    pipe,       \* hints the subscription holds
    wire,       \* SSE events on their way to the page
    step,       \* where the page's connect() is
    streaming,  \* the page's flag: the poll idles
    fetch,      \* a GET of the page is on its way
    answer,     \* what it has read: nothing yet, or one snapshot
    shown,      \* the data the page renders: nothing yet, or one snapshot
    tap,        \* a read-marking request of the bell
    taps,       \* taps left
    mishaps,    \* mishaps left
    missed      \* a hint or an answer is known to be lost (history)

liveVars == <<view, status, rows, deliveries, due, bus, ticket, serving, pipe, wire, step,
              streaming, fetch, answer, shown, tap, taps, mishaps, missed>>

-----------------------------------------------------------------------------
RowStates == {"absent", "unread", "read"}
Steps == {"idle", "ticket", "bought", "opened", "gap", "retry", "gave_up"}

\* TERMINAL of the stream and TERMINAL_STATUSES of the page.
Terminal(s) == s = MaxMoves
Hint(s) == IF Terminal(s) THEN "end" ELSE "move"

\* What a GET answers: the order, or the inbox.
Truth == [status |-> status, rows |-> rows]
Snapshots == {<<>>} \cup {<<t>> : t \in [status : 0..MaxMoves, rows : [Notices -> RowStates]]}

Finished(snapshot) == view = "track" /\ snapshot # <<>> /\ Terminal(snapshot[1].status)

LiveTypeOK ==
    /\ view \in {"track", "bell", "none"}
    /\ status \in 0..MaxMoves
    /\ rows \in [Notices -> RowStates]
    /\ deliveries \in [Notices -> 0..2]
    /\ due \in Seq({"move", "end"}) /\ pipe \in Seq({"move", "end"})
    /\ bus \in {"up", "down"}
    /\ ticket \in BOOLEAN /\ streaming \in BOOLEAN /\ fetch \in BOOLEAN /\ missed \in BOOLEAN
    /\ serving \in {"none", "first", "subscribed"}
    /\ wire \in Seq({"open", "hint", "reconnect", "eof"})
    /\ step \in Steps
    /\ answer \in Snapshots /\ shown \in Snapshots
    /\ tap \in {"none", "all", "settled"} \cup Notices
    /\ taps \in 0..MaxTaps /\ mishaps \in 0..MaxMishaps

\* A page just mounted: its first GET is on its way, connect() has not run.
LiveInit(v) ==
    /\ view = v
    /\ status = 0
    /\ rows = [n \in Notices |-> "absent"]
    /\ deliveries = [n \in Notices |-> IF v = "bell" THEN 2 ELSE 0]
    /\ due = <<>> /\ pipe = <<>> /\ wire = <<>>
    /\ bus = "up" /\ ticket = FALSE /\ serving = "none"
    /\ step = "idle" /\ streaming = FALSE
    /\ fetch = (v # "none") /\ answer = <<>> /\ shown = <<>>
    /\ tap = "none" /\ taps = (IF v = "bell" THEN MaxTaps ELSE 0)
    /\ mishaps = (IF v = "none" THEN 0 ELSE MaxMishaps) /\ missed = FALSE

record == <<view, status, rows, deliveries>>
server == <<ticket, serving, pipe>>
page == <<step, streaming, shown>>
get == <<fetch, answer>>
people == <<tap, taps>>

Mishap == mishaps > 0 /\ mishaps' = mishaps - 1

-----------------------------------------------------------------------------
(* Writers.  The hint follows the commit and fails open. *)

\* Fault: the hint leaves before the commit it announces.
EarlyHint ==
    /\ view = "track" /\ ~Terminal(status)
    /\ \/ /\ due = <<>> /\ due' = <<"hinted">>
          /\ pipe' = IF serving = "subscribed" /\ bus = "up" THEN Append(pipe, Hint(status + 1)) ELSE pipe
          /\ missed' = (missed \/ serving # "subscribed" \/ bus = "down")
          /\ UNCHANGED status
       \/ /\ due = <<"hinted">> /\ due' = <<>> /\ status' = status + 1
          /\ UNCHANGED <<pipe, missed>>
    /\ UNCHANGED <<view, rows, deliveries, bus, ticket, serving, wire, page, get, people, mishaps>>

\* transition(), begin_cancel_from and create_order: one row, one hint owed.
OrderMoves ==
    /\ view = "track" /\ ~Terminal(status)
    /\ status' = status + 1
    /\ due' = Append(due, Hint(status + 1))
    /\ UNCHANGED <<view, rows, deliveries, bus, server, wire, page, get, people, mishaps, missed>>

\* The id is made of the event and the recipient: ON CONFLICT DO NOTHING.
insert_notification(n) == IF rows[n] = "absent" THEN [rows EXCEPT ![n] = "unread"] ELSE rows

\* A redelivery inserts nothing and hints again.
InboxHandlerOrder(n) ==
    /\ deliveries[n] > 0
    /\ deliveries' = [deliveries EXCEPT ![n] = @ - 1]
    /\ rows' = insert_notification(n)
    /\ due' = Append(due, "move")
    /\ UNCHANGED <<view, status, bus, server, wire, page, get, people, mishaps, missed>>

\* publish_status and publish_hint: heard by a subscriber, or by nobody.
publish ==
    /\ due # <<>>
    /\ due' = Tail(due)
    /\ IF bus = "up" /\ serving = "subscribed"
       THEN pipe' = Append(pipe, Head(due)) /\ UNCHANGED missed
       ELSE missed' = TRUE /\ UNCHANGED pipe
    /\ UNCHANGED <<record, bus, ticket, serving, wire, page, get, people, mishaps>>

\* The writer dies between its commit and its hint.
HintLost ==
    /\ due # <<>> /\ Mishap
    /\ due' = Tail(due) /\ missed' = TRUE
    /\ UNCHANGED <<record, bus, server, wire, page, get, people>>

-----------------------------------------------------------------------------
(* The stream. *)

\* put_ticket: the order is the caller's, or the inbox is.
issue_ticket ==
    /\ step = "ticket" /\ bus = "up"
    /\ ticket' = TRUE /\ step' = "bought"
    /\ UNCHANGED <<record, due, bus, serving, pipe, wire, streaming, shown, get, people, mishaps, missed>>

TicketExpires ==
    /\ ticket /\ Mishap
    /\ ticket' = FALSE
    /\ UNCHANGED <<record, due, bus, serving, pipe, wire, page, get, people, missed>>

\* consume_ticket, by GETDEL: a spent or expired ticket is a 401.
Redeem ==
    /\ step = "bought" /\ bus = "up"
    /\ ticket' = FALSE /\ step' = "opened"
    /\ UNCHANGED <<record, due, bus, pipe, streaming, shown, get, people, mishaps, missed>>
Unauthorized == ~ticket /\ wire' = <<"eof">> /\ UNCHANGED serving
Opens(events, next) == ticket /\ wire' = events /\ serving' = next

\* Fault: the tracking stream starts with nothing to say, like the bell's.
StreamBlank == view = "track" /\ Redeem /\ (Unauthorized \/ Opens(<<"open">>, "first"))

\* The order's status is read and sent before the subscription, and the stream
\* of a finished order ends there.
stream_order ==
    /\ view = "track" /\ Redeem
    /\ \/ Unauthorized
       \/ Terminal(status) /\ Opens(<<"open", "hint", "eof">>, "none")
       \/ ~Terminal(status) /\ Opens(<<"open", "hint">>, "first")

stream_bell == view = "bell" /\ Redeem /\ (Unauthorized \/ Opens(<<"open">>, "first"))

subscription ==
    /\ serving = "first" /\ bus = "up"
    /\ serving' = "subscribed"
    /\ UNCHANGED <<record, due, bus, ticket, pipe, wire, page, get, people, mishaps, missed>>

\* The end of a stream, by the server or by the network: onerror at the page.
Ends(events) == serving' = "none" /\ pipe' = <<>> /\ wire' = wire \o events

\* stream_events relays one message; a terminal one closes the stream.
relay ==
    /\ serving = "subscribed" /\ pipe # <<>>
    /\ IF Head(pipe) = "end"
       THEN Ends(<<"hint", "eof">>)
       ELSE pipe' = Tail(pipe) /\ wire' = Append(wire, "hint") /\ UNCHANGED serving
    /\ UNCHANGED <<record, due, bus, ticket, page, get, people, mishaps, missed>>

\* The jittered deadline comes before the next message is looked at.
lifetime ==
    /\ serving = "subscribed"
    /\ Ends(<<"reconnect">>)
    /\ missed' = (missed \/ pipe # <<>>)
    /\ UNCHANGED <<record, due, bus, ticket, page, get, people, mishaps>>

\* A dead bus breaks the generator; the network breaks any stream.
StreamBreaks ==
    /\ serving # "none"
    /\ \/ bus = "down" /\ UNCHANGED mishaps
       \/ bus = "up" /\ Mishap
    /\ Ends(<<"eof">>) /\ missed' = TRUE
    /\ UNCHANGED <<record, due, bus, ticket, page, get, people>>

BusFails ==
    /\ bus = "up" /\ Mishap
    /\ bus' = "down" /\ ticket' = FALSE
    /\ UNCHANGED <<record, due, serving, pipe, wire, page, get, people, missed>>

BusReturns ==
    /\ bus = "down" /\ bus' = "up"
    /\ UNCHANGED <<record, due, server, wire, page, get, people, mishaps, missed>>

-----------------------------------------------------------------------------
(* The page. *)

\* The effect: the order page waits for an order that is still moving, the bell
\* only for a signed-in user.  Timers come back to the same function.
connect ==
    /\ \/ step = "idle" /\ (view = "bell" \/ (view = "track" /\ shown # <<>> /\ ~Finished(shown)))
       \/ step \in {"gap", "retry"}
    /\ step' = "ticket"
    /\ UNCHANGED <<record, due, bus, server, wire, streaming, shown, get, people, mishaps, missed>>

\* Fault: the flag is left as the last stream set it.
GivesUpStreaming ==
    /\ step = "ticket"
    /\ \/ bus = "down" /\ UNCHANGED mishaps
       \/ bus = "up" /\ Mishap
    /\ step' = "gave_up"
    /\ UNCHANGED <<record, due, bus, server, wire, streaming, shown, get, people, missed>>

\* catch: no ticket, no further attempt; the poll carries on.
NoTicket ==
    /\ step = "ticket"
    /\ \/ bus = "down" /\ UNCHANGED mishaps
       \/ bus = "up" /\ Mishap
    /\ step' = "gave_up" /\ streaming' = FALSE
    /\ UNCHANGED <<record, due, bus, server, wire, shown, get, people, missed>>

\* The ticket request refreshed the access token: new claims, and the bell's
\* effect starts again.
ClaimsChange ==
    /\ view = "bell" /\ step = "ticket" /\ streaming
    /\ streaming' = FALSE
    /\ UNCHANGED <<record, due, bus, server, wire, step, shown, get, people, mishaps, missed>>

\* A stream refused by a dead Redis is a failed EventSource.
StreamRefused ==
    /\ step = "bought" /\ bus = "down"
    /\ step' = "opened" /\ wire' = <<"eof">>
    /\ UNCHANGED <<record, due, bus, server, streaming, shown, get, people, mishaps, missed>>

\* invalidateQueries: an answer on its way is dropped and asked for again,
\* unless it is the page's first, which is waited for.
Refetch ==
    IF shown = <<>> /\ fetch
    THEN UNCHANGED get /\ missed' = (missed \/ answer # <<>>)
    ELSE fetch' = TRUE /\ answer' = <<>> /\ UNCHANGED missed

Event(name) == step = "opened" /\ wire # <<>> /\ Head(wire) = name

onopen ==
    /\ Event("open")
    /\ streaming' = TRUE /\ wire' = Tail(wire)
    /\ UNCHANGED <<record, due, bus, server, step, shown, get, people, mishaps, missed>>

onhint ==
    /\ Event("hint")
    /\ wire' = Tail(wire) /\ Refetch
    /\ UNCHANGED <<record, due, bus, server, page, people, mishaps>>

onreconnect ==
    /\ Event("reconnect")
    /\ wire' = <<>> /\ step' = "gap"
    /\ UNCHANGED <<record, due, bus, server, streaming, shown, get, people, mishaps, missed>>

onerror ==
    /\ Event("eof")
    /\ wire' = <<>> /\ step' = "retry" /\ streaming' = FALSE
    /\ UNCHANGED <<record, due, bus, server, shown, get, people, mishaps, missed>>

\* refetchInterval: off while streaming, and off for good at a finished order.
poll ==
    /\ view # "none" /\ ~streaming /\ ~fetch /\ ~Finished(shown)
    /\ fetch' = TRUE
    /\ UNCHANGED <<record, due, bus, server, wire, page, answer, people, mishaps, missed>>

\* get_order, or the inbox with its unread count.
serve ==
    /\ fetch /\ answer = <<>>
    /\ answer' = <<Truth>> /\ missed' = FALSE
    /\ UNCHANGED <<record, due, bus, server, wire, page, fetch, people, mishaps>>

\* A finished order ends the effect: timers cleared, the stream closed.
fetched ==
    /\ answer # <<>>
    /\ shown' = answer /\ fetch' = FALSE /\ answer' = <<>>
    /\ IF Finished(answer)
       THEN /\ step' = "idle" /\ streaming' = FALSE
            /\ wire' = <<>> /\ serving' = "none" /\ pipe' = <<>>
       ELSE UNCHANGED <<step, streaming, wire, serving, pipe>>
    /\ UNCHANGED <<record, due, bus, ticket, people, mishaps, missed>>

FetchFails ==
    /\ fetch /\ Mishap
    /\ fetch' = FALSE /\ answer' = <<>> /\ missed' = TRUE
    /\ UNCHANGED <<record, due, bus, server, wire, page, people>>

-----------------------------------------------------------------------------
(* Reading the bell. *)

Unread(t) == {n \in Notices : t.rows[n] = "unread"}

\* openItem on an unread entry, or "Mark all read" under a badge.
Tap ==
    /\ view = "bell" /\ taps > 0 /\ tap = "none"
    /\ shown # <<>> /\ Unread(shown[1]) # {}
    /\ tap' \in Unread(shown[1]) \cup {"all"} /\ taps' = taps - 1
    /\ UNCHANGED <<record, due, bus, server, wire, page, get, mishaps, missed>>

\* UPDATE .. WHERE read_at IS NULL: rows of the caller, one or all of them.
mark_read(n) ==
    /\ tap = n
    /\ rows' = [rows EXCEPT ![n] = "read"]
    /\ tap' = "settled"
    /\ UNCHANGED <<view, status, deliveries, due, bus, server, wire, page, get, taps, mishaps, missed>>

mark_all_read ==
    /\ tap = "all"
    /\ rows' = [n \in Notices |-> IF rows[n] = "unread" THEN "read" ELSE rows[n]]
    /\ tap' = "settled"
    /\ UNCHANGED <<view, status, deliveries, due, bus, server, wire, page, get, taps, mishaps, missed>>

\* onSettled, answered or not.
onSettled ==
    /\ tap = "settled" /\ tap' = "none"
    /\ Refetch
    /\ UNCHANGED <<record, due, bus, server, wire, page, taps, mishaps>>

-----------------------------------------------------------------------------
Streams == issue_ticket \/ stream_order \/ stream_bell \/ subscription \/ relay \/ lifetime \/ StreamRefused
Handlers == onopen \/ onhint \/ onreconnect \/ onerror
Writers == OrderMoves \/ HintLost \/ \E n \in Notices : InboxHandlerOrder(n)
Marks == mark_all_read \/ \E n \in Notices : mark_read(n)
Mishaps == TicketExpires \/ StreamBreaks \/ BusFails \/ NoTicket \/ FetchFails

LiveNext ==
    \/ Writers \/ publish \/ Mishaps \/ BusReturns \/ Streams
    \/ connect \/ ClaimsChange \/ Handlers \/ onSettled \/ poll \/ serve \/ fetched
    \/ Tap \/ Marks

\* Live views of one page, alone; run notification composes them with the receipts.
LiveSpec == (\E v \in {"track", "bell", "none"} : LiveInit(v)) /\ [][LiveNext]_liveVars

(* Events, requests and timers go on; a dead bus comes back, a stream reaches *)
(* its deadline, a GET is not overtaken by the 5 s between two attempts for   *)
(* ever (hence SF).  Writers, people and mishaps promise nothing.             *)
LiveFairness ==
    /\ WF_liveVars(publish) /\ WF_liveVars(BusReturns)
    /\ WF_liveVars(issue_ticket \/ stream_order \/ stream_bell \/ StreamRefused \/ connect)
    /\ WF_liveVars(subscription)
    /\ WF_liveVars(relay) /\ WF_liveVars(lifetime) /\ WF_liveVars(bus = "down" /\ StreamBreaks)
    /\ WF_liveVars(Handlers) /\ WF_liveVars(onSettled)
    /\ WF_liveVars(poll) /\ WF_liveVars(serve) /\ SF_liveVars(fetched)
    /\ WF_liveVars(Marks)

-----------------------------------------------------------------------------
(* Properties. *)

Quiet == due = <<>> /\ pipe = <<>> /\ "hint" \notin {wire[i] : i \in DOMAIN wire} /\ ~fetch /\ tap = "none"

(* A page whose stream is subscribed and that has heard everything shows the  *)
(* truth: the hint follows the commit and every hint is a new GET.  Excused   *)
(* is what the code loses knowingly: a hint nobody was subscribed to, one     *)
(* left in the pipe at the deadline, a GET that failed, and a hint that       *)
(* joined the bell's first GET (tracking.py, push.py, NotificationBell.tsx).  *)
QuietMeansCurrent ==
    serving = "subscribed" /\ streaming /\ Quiet /\ ~missed /\ shown # <<>> => shown[1] = Truth

(* However hints, tickets, streams and GETs are lost, the order page ends up  *)
(* at the order's status: the snapshot before each stream and the poll        *)
(* between streams catch up (stream.py, OrderDetail.tsx).                     *)
TrackConverges == view = "track" => <>[](shown # <<>> /\ shown[1] = Truth)

(* An order that is finished is left alone: the page stops polling, its       *)
(* stream is closed and nothing connects again (OrderDetail.tsx).             *)
FinishedIsQuiet ==
    (view = "track" /\ Terminal(status)) ~>
        [](serving = "none" /\ step = "idle" /\ ~streaming /\ ~fetch)

(* A bell that has no stream and gets none polls until it is current: no     *)
(* failure leaves the flag up with nothing behind it (NotificationBell.tsx).  *)
BellHasFloor ==
    view = "bell" => []<>(serving = "subscribed" \/ (shown # <<>> /\ shown[1] = Truth))

(* A redelivered event never turns a read notification unread: the id is the  *)
(* dedupe key (repo.py insert_notification).                                  *)
ReadStaysRead == [][\A n \in Notices : rows[n] = "read" => rows'[n] = "read"]_liveVars

(* What the customer marked as read stops counting in their own badge, though *)
(* read-marking publishes no hint (NotificationBell.tsx onSettled).  A GET    *)
(* that fails under an open stream is asked for again by nobody: stated for   *)
(* taps after the last mishap.                                                *)
TapIsSeen ==
    \A n \in Notices : (rows[n] = "read" /\ tap = "settled" /\ mishaps = 0) ~> (shown # <<>> /\ shown[1].rows[n] = "read")
=============================================================================
