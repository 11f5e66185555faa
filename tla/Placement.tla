----------------------------- MODULE Placement -----------------------------
(***************************************************************************)
(* Checkout and placement: the browser (cart, quote, idempotency key), the *)
(* order API's place() with its row read, pricing, saga start and attach   *)
(* probe, Temporal's referee over ord::{order_id}, create_order, and the   *)
(* customer's reads. An order id is derived from the key, so one key is    *)
(* one order id and the model names both by the key. A body is what        *)
(* request_hash covers: the lines and the total consented to.              *)
(*                                                                         *)
(* A request's pc is the await it stands at: "row", "resolve", "start",    *)
(* "wait" (the update is parked), "probe", then "answered".                *)
(***************************************************************************)
EXTENDS Pricing

CONSTANTS
    Tabs,        \* open checkout pages of the one customer
    WebKeys,     \* the keys the browser can mint (bounds the checkouts)
    ApiKeys,     \* keys of callers that use the API directly
    Requests,    \* HTTP requests in flight at once
    Menus,       \* the snapshots the catalog may serve
    Carts,       \* the line sequences a cart may hold
    MaxPresses   \* placements sent, by the page and by API callers

ASSUME PlacementConstants ==
    /\ WebKeys \subseteq Nat \ {0} /\ ApiKeys \subseteq Nat \ {0}
    /\ WebKeys \cap ApiKeys = {}
    /\ MaxPresses \in Nat /\ Carts # {} /\ "none" \notin Requests

\* Every cart that a menu can price comes to a number, and NoTotal stands for
\* Python's None, which is none.
ASSUME TotalsAreNumbers ==
    \A m \in Menus, c \in Carts :
        LET q == price_order(m, c, NoTotal) IN q.ok => q.total \in Int \ {NoTotal}

Keys == WebKeys \cup ApiKeys
NoKey == 0
Body(lines, expected) == [lines |-> lines, expected |-> expected]
NoBody == Body(<<>>, NoTotal)

\* PlacementInput / the orders row: what is fixed when place() prices the cart.
PlacementInput(body, amount) == [body |-> body, amount |-> amount]
NoInput == PlacementInput(NoBody, NoTotal)

\* Refusals the client is told are final; the others are not.
Refusals == {"RESTAURANT_CLOSED", "ITEM_UNAVAILABLE", "VALIDATION_FAILED",
             "PRICE_CHANGED", "ADDRESS_NOT_FOUND"}
Answers == Refusals \cup {"PLACED", "PENDING", "REPLAYED", "KEY_REUSE", "UNAVAILABLE", ""}
PCs == {"free", "row", "resolve", "start", "wait", "probe", "answered"}
RowStatuses == {"none", "PLACED", "DELIVERED", "CANCELLED"}

VARIABLES
    menu,      \* the catalog's current snapshot
    saga,      \* ord::{key}: state, its input, and whether _placed is set
    rows,      \* the orders table, by key
    req,       \* the placement requests
    tab,       \* the checkout pages
    idem,      \* localStorage sfo-place-idem: [hash, key]
    presses,   \* placements sent so far (bound)
    excused    \* history: something happened that no retry is protected from

vars == <<menu, saga, rows, req, tab, idem, presses, excused>>
browser == <<tab, idem, presses>>

Saga(state, input, placed) == [state |-> state, input |-> input, placed |-> placed]
Row(input, status) == [input |-> input, status |-> status]
NoRow == Row(NoInput, "none")
Request(pc, key, body, input, why, answer) ==
    [pc |-> pc, key |-> key, body |-> body, input |-> input, why |-> why, answer |-> answer]
FreeRequest == Request("free", NoKey, NoBody, NoInput, "", "")
Tab(lines, quote, asks, confirm) ==
    [lines |-> lines, quote |-> quote, asks |-> asks, confirm |-> confirm]
NoRequest == "none"
NoIdem == [hash |-> NoBody, key |-> NoKey]

Init ==
    /\ menu \in Menus
    /\ saga = [k \in Keys |-> Saga("none", NoInput, FALSE)]
    /\ rows = [k \in Keys |-> NoRow]
    /\ req = [r \in Requests |-> FreeRequest]
    /\ tab = [t \in Tabs |-> Tab(CHOOSE c \in Carts : TRUE, NoTotal, NoRequest, FALSE)]
    /\ idem = NoIdem
    /\ presses = 0
    /\ excused = FALSE

-----------------------------------------------------------------------------
(* The API: place() and the ports it calls.                                *)

\* The answer of a request whose page has gone is dropped.
Answer(r, answer) ==
    req' = [req EXCEPT ![r] =
              IF @.key \in WebKeys /\ \A t \in Tabs : tab[t].asks # r THEN FreeRequest
              ELSE Request("answered", @.key, @.body, NoInput, "", answer)]
Goto(r, pc, input, why) ==
    req' = [req EXCEPT ![r] = Request(pc, @.key, @.body, input, why, "")]

\* THE idempotency check: the derived id has a row or it does not.
ReadRow(r) ==
    /\ req[r].pc = "row"
    /\ LET row == rows[req[r].key]
       IN  IF row = NoRow THEN Goto(r, "resolve", NoInput, "")
           ELSE Answer(r, IF row.input.body = req[r].body THEN "REPLAYED" ELSE "KEY_REUSE")
    /\ UNCHANGED <<menu, saga, rows, browser, excused>>

\* Slip: place() prices the cart without the total the customer saw.
ResolveUnpinned(r) ==
    /\ req[r].pc = "resolve"
    /\ LET b == req[r].body
           priced == price_order(menu, b.lines, NoTotal)
       IN  \/ Answer(r, "UNAVAILABLE")
           \/ ~priced.ok /\ Goto(r, "probe", NoInput, priced.why)
           \/ priced.ok /\ Goto(r, "start", PlacementInput(b, priced.total), "")
    /\ UNCHANGED <<menu, saga, rows, browser, excused>>

\* IdentityClient.get_address: the address, none such, or no answer in time.
Addresses == {"found", "ADDRESS_NOT_FOUND", "UNAVAILABLE"}
\* CatalogClient.get_snapshot: the catalog as it is now, or no answer in time.
Snapshots == {"served", "UNAVAILABLE"}
\* place() asks for the address first, then the snapshot, then price_order. A
\* refusal goes to the attach probe, a missing answer is a 503.
Resolve(r) ==
    /\ req[r].pc = "resolve"
    /\ LET b == req[r].body
           priced == price_order(menu, b.lines, b.expected)
       IN  \E address \in Addresses, served \in Snapshots :
             CASE address = "ADDRESS_NOT_FOUND" -> Goto(r, "probe", NoInput, address)
               [] address = "UNAVAILABLE" \/ (address = "found" /\ served = "UNAVAILABLE") ->
                    Answer(r, "UNAVAILABLE")
               [] address = "found" /\ served = "served" ->
                    IF priced.ok THEN Goto(r, "start", PlacementInput(b, priced.total), "")
                    ELSE Goto(r, "probe", NoInput, priced.why)
    /\ UNCHANGED <<menu, saga, rows, browser, excused>>

\* execute_update_with_start_workflow: USE_EXISTING attaches to a running
\* workflow, REJECT_DUPLICATE refuses a closed one and the row answers.
StartOrAttach(r) ==
    /\ req[r].pc = "start"
    /\ LET k == req[r].key
       IN  \/ /\ saga[k].state = "none"
              /\ saga' = [saga EXCEPT ![k] = Saga("running", req[r].input, FALSE)]
              /\ Goto(r, "wait", NoInput, "")
           \/ /\ saga[k].state = "running"
              /\ Goto(r, "wait", NoInput, "")
              /\ UNCHANGED saga
           \/ /\ saga[k].state = "closed"
              /\ Answer(r, IF rows[k] = NoRow THEN "UNAVAILABLE" ELSE "PLACED")
              /\ UNCHANGED saga
    /\ UNCHANGED <<menu, rows, browser, excused>>

\* The RPC fails: before the server took the start, or after it.
StartFails(r) ==
    /\ req[r].pc = "start"
    /\ LET k == req[r].key
       IN  \/ UNCHANGED saga
           \/ /\ saga[k].state = "none"
              /\ saga' = [saga EXCEPT ![k] = Saga("running", req[r].input, FALSE)]
    /\ Answer(r, "UNAVAILABLE")
    /\ UNCHANGED <<menu, rows, browser, excused>>

\* await_placement resolves once create_order has committed...
AwaitPlacement(r) ==
    /\ req[r].pc = "wait" /\ saga[req[r].key].placed
    /\ Answer(r, "PLACED")
    /\ UNCHANGED <<menu, saga, rows, browser, excused>>

\* ... or the caller's patience (rpc_timeout) ends first.
AwaitTimesOut(r) ==
    /\ req[r].pc = "wait"
    /\ Answer(r, "PENDING")
    /\ UNCHANGED <<menu, saga, rows, browser, excused>>

\* ... or the call breaks, of a lost connection or of a workflow terminated
\* meanwhile: a 503, but for a waiter of the attach probe its refusal stands.
AwaitBreaks(r) ==
    /\ req[r].pc = "wait"
    /\ \/ req[r].why = "" /\ Answer(r, "UNAVAILABLE") /\ UNCHANGED excused
       \/ req[r].why # "" /\ Answer(r, req[r].why) /\ excused' = TRUE
    /\ UNCHANGED <<menu, saga, rows, browser>>

\* Slip: the refusal is answered without asking for a running workflow.
RefuseUnasked(r) ==
    /\ req[r].pc = "probe"
    /\ Answer(r, req[r].why)
    /\ UNCHANGED <<menu, saga, rows, browser, excused>>

\* attach_placement: what Temporal says of ord::{key}.
Attach(k) == IF saga[k].state = "running" THEN {"running", "unreachable"}
             ELSE {saga[k].state, "unreachable"}
\* _attach_if_running: a running workflow's ack outranks the refusal; nobody
\* there, or no answer from Temporal, and the refusal stands.
AttachIfRunning(r) ==
    /\ req[r].pc = "probe"
    /\ \E found \in Attach(req[r].key) :
         IF found = "running" THEN Goto(r, "wait", NoInput, req[r].why) /\ UNCHANGED excused
         ELSE /\ Answer(r, req[r].why)
              /\ excused' = (excused \/ found # "none")
    /\ UNCHANGED <<menu, saga, rows, browser>>

-----------------------------------------------------------------------------
(* The saga's first activity, and the rest of its life from outside.       *)

\* create_order commits row, lines and OrderPlaced together; a retry whose
\* insert conflicts adopts the row that is there.
CreateOrder(k) ==
    /\ saga[k].state = "running" /\ rows[k] = NoRow
    /\ rows' = [rows EXCEPT ![k] = Row(saga[k].input, "PLACED")]
    /\ UNCHANGED <<menu, saga, req, browser, excused>>
ReportPlaced(k) ==
    /\ saga[k].state = "running" /\ rows[k] # NoRow /\ ~saga[k].placed
    /\ saga' = [saga EXCEPT ![k] = Saga("running", @.input, TRUE)]
    /\ UNCHANGED <<menu, rows, req, browser, excused>>

\* The order's later life (module OrderSaga): it is delivered or cancelled.
SagaEnds(k) ==
    /\ saga[k].state = "running" /\ saga[k].placed
    /\ \E s \in {"DELIVERED", "CANCELLED"} :
           rows' = [rows EXCEPT ![k] = Row(@.input, s)]
    /\ saga' = [saga EXCEPT ![k] = Saga("closed", @.input, TRUE)]
    /\ UNCHANGED <<menu, req, browser, excused>>

\* An operator terminates a workflow that has not created its order yet.
Terminate(k) ==
    /\ saga[k].state = "running" /\ rows[k] = NoRow
    /\ saga' = [saga EXCEPT ![k] = Saga("closed", @.input, FALSE)]
    /\ UNCHANGED <<menu, rows, req, browser, excused>>

-----------------------------------------------------------------------------
(* The world around it.                                                    *)

\* The restaurant edits its menu, pauses, or its hours end.
MenuChanges == /\ menu' \in Menus \ {menu}
               /\ UNCHANGED <<saga, rows, req, browser, excused>>

\* A caller of the API itself picks its own key and body.
ApiPost(r) ==
    /\ req[r].pc = "free" /\ presses < MaxPresses
    /\ presses' = presses + 1
    /\ \E k \in ApiKeys, c \in Carts, m \in Menus :
           LET q == price_order(m, c, NoTotal)
           IN  q.ok /\ req' = [req EXCEPT ![r] =
                                 Request("row", k, Body(c, q.total), NoInput, "", "")]
    /\ UNCHANGED <<menu, saga, rows, tab, idem, excused>>
ApiHears(r) ==
    /\ req[r].pc = "answered" /\ req[r].key \in ApiKeys
    /\ req' = [req EXCEPT ![r] = FreeRequest]
    /\ UNCHANGED <<menu, saga, rows, browser, excused>>

-----------------------------------------------------------------------------
(* The browser: cart.ts, useQuote.ts, client.ts, Checkout.tsx.             *)

Waiting(t) == tab[t].asks # NoRequest

\* POST /v1/orders/quote: priced with nothing to compare with.
QuoteOf(lines) == price_order(menu, lines, NoTotal)
\* useQuote: the server prices the cart as it is now. A refetch while a key
\* is stored gives the next press another body, hence another key.
Quote(t) ==
    LET q == QuoteOf(tab[t].lines)
    IN  /\ tab[t].lines # <<>> /\ q.ok /\ q.total # tab[t].quote
        /\ tab' = [tab EXCEPT ![t] = Tab(@.lines, q.total, @.asks, FALSE)]
        /\ excused' = (excused \/ (idem # NoIdem /\ ~tab[t].confirm))
        /\ UNCHANGED <<menu, saga, rows, req, idem, presses>>

\* Slip: one key per checkout, whatever the body has become.
KeyPerCheckout(body) == IF idem # NoIdem THEN {idem.key} ELSE {k \in WebKeys : saga[k].state = "none"}

\* idemKeyFor: the stored key while the body is the stored one, else a new one.
idemKeyFor(body) ==
    IF idem.hash = body THEN {idem.key}
    ELSE {k \in WebKeys : /\ k # idem.key /\ saga[k].state = "none"
                          /\ \A r \in Requests : req[r].key # k}

\* toOrderLines and the quote's total make the body that is posted.
PostedBody(t) == Body(tab[t].lines, tab[t].quote)

\* placeOrder with the total of the quote on the screen.
Press(t) ==
    /\ ~Waiting(t) /\ tab[t].quote # NoTotal /\ ~tab[t].confirm
    /\ presses < MaxPresses
    /\ LET body == PostedBody(t)
       IN  \E r \in Requests : \E k \in idemKeyFor(body) :
             /\ req[r].pc = "free"
             /\ req' = [req EXCEPT ![r] = Request("row", k, body, NoInput, "", "")]
             /\ tab' = [tab EXCEPT ![t] = Tab(@.lines, @.quote, r, FALSE)]
             /\ idem' = [hash |-> body, key |-> k]
    /\ presses' = presses + 1
    /\ UNCHANGED <<menu, saga, rows, excused>>

\* onSuccess clears key and cart; PRICE_CHANGED refetches the quote and asks
\* for consent again; any other error is shown.
Hears(t) ==
    /\ Waiting(t) /\ req[tab[t].asks].pc = "answered"
    /\ LET a == req[tab[t].asks].answer
       IN  /\ tab' = [tab EXCEPT ![t] =
                IF a \in {"PLACED", "PENDING", "REPLAYED"}
                  THEN Tab(<<>>, NoTotal, NoRequest, FALSE)
                  ELSE Tab(@.lines, @.quote, NoRequest, a = "PRICE_CHANGED")]
           /\ idem' = IF a \in {"PLACED", "PENDING", "REPLAYED"} THEN NoIdem ELSE idem
    /\ req' = [req EXCEPT ![tab[t].asks] = FreeRequest]
    /\ UNCHANGED <<menu, saga, rows, presses, excused>>

\* The connection breaks: the page shows an error, the server goes on.
AnswerLost(t) ==
    /\ Waiting(t)
    /\ tab' = [tab EXCEPT ![t] = Tab(@.lines, @.quote, NoRequest, FALSE)]
    /\ req' = IF req[tab[t].asks].pc = "answered"
                THEN [req EXCEPT ![tab[t].asks] = FreeRequest] ELSE req
    /\ excused' = TRUE
    /\ UNCHANGED <<menu, saga, rows, idem, presses>>

-----------------------------------------------------------------------------
ServerStep(r) == \/ ReadRow(r) \/ Resolve(r) \/ StartOrAttach(r) \/ StartFails(r)
                 \/ AwaitPlacement(r) \/ AwaitTimesOut(r) \/ AwaitBreaks(r)
                 \/ AttachIfRunning(r) \/ ApiPost(r) \/ ApiHears(r)
SagaStep(k) == \/ CreateOrder(k) \/ ReportPlaced(k) \/ SagaEnds(k) \/ Terminate(k)
TabStep(t) == \/ Quote(t) \/ Press(t) \/ Hears(t) \/ AnswerLost(t)

Next ==
    \/ \E r \in Requests : ServerStep(r)
    \/ \E k \in Keys : SagaStep(k)
    \/ \E t \in Tabs : TabStep(t)
    \/ MenuChanges

Spec == Init /\ [][Next]_vars

-----------------------------------------------------------------------------
(* Properties.                                                             *)

Inputs == [body : [lines : Carts \cup {<<>>}, expected : Int], amount : Int]

Ordered == {k \in Keys : rows[k] # NoRow}

\* Type correctness of every variable.
TypeOK ==
    /\ menu \in Menus
    /\ saga \in [Keys -> [state : {"none", "running", "closed"}, input : Inputs,
                          placed : BOOLEAN]]
    /\ rows \in [Keys -> [input : Inputs, status : RowStatuses]]
    /\ req \in [Requests -> [pc : PCs, key : Keys \cup {NoKey}, input : Inputs,
                             body : [lines : Carts \cup {<<>>}, expected : Int],
                             why : Answers, answer : Answers]]
    /\ tab \in [Tabs -> [lines : Carts \cup {<<>>}, quote : Int,
                         asks : Requests \cup {NoRequest}, confirm : BOOLEAN]]
    /\ idem \in [hash : [lines : Carts \cup {<<>>}, expected : Int], key : Keys \cup {NoKey}]
    /\ presses \in 0..MaxPresses
    /\ excused \in BOOLEAN

\* An order charges exactly the total its customer consented to, whatever the
\* menu did between quote, pricing, start and create_order (ADR-0036).
ChargedAsConsented ==
    \A k \in Ordered : rows[k].input.amount = rows[k].input.body.expected

\* A page told "placed" holds the very cart the order was made of: the key is
\* bound to the body, so attaching never hands out somebody else's order.
AckIsThisCart ==
    \A r \in Requests :
        (/\ req[r].key \in WebKeys
         /\ req[r].answer \in {"PLACED", "PENDING", "REPLAYED"})
          => saga[req[r].key].input.body = req[r].body

\* Retrying a checkout does not order a second dinner: with one page whose
\* cart is not edited, a second live order takes a lost answer, a quote that
\* moved by itself, or a probe that Temporal did not answer, that broke while
\* it waited, or that came after the first order had already finished.
OneDinner ==
    ~excused => Cardinality({k \in Ordered \cap WebKeys :
                                   rows[k].status # "CANCELLED"}) <= 1
=============================================================================
