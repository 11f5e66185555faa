-------------------------- MODULE StorefrontProofs -------------------------
(***************************************************************************)
(* Theorems about the shop window, for every value of the constants.       *)
(*                                                                         *)
(* Placement, for any pages, keys, requests, menus, carts and number of    *)
(* presses: the variables keep their types, an order charges what its      *)
(* customer consented to, and a page that was told "placed" holds the cart *)
(* the order was made of.                                                  *)
(*                                                                         *)
(* Catalog, for any branches, items, categories, editors, readers and      *)
(* number of edits: the event that survives compaction tells the           *)
(* restaurant as it is, branches carry the brand's name, and what is       *)
(* priced is what the menu lists.                                          *)
(***************************************************************************)
EXTENDS Placement, Catalog, FiniteSetTheorems, TLAPS

Acks == {"PLACED", "PENDING", "REPLAYED"}

\* A workflow was started from a request whose price its customer had seen,
\* and the row is what the workflow was started with.
SagaInv ==
    /\ \A k \in Keys : saga[k].input.amount = saga[k].input.body.expected
    /\ \A k \in Keys : saga[k].placed => rows[k] # NoRow
    /\ \A k \in Keys : rows[k] # NoRow =>
          saga[k].state # "none" /\ rows[k].input = saga[k].input

\* What a request carries at the await it stands at.
RequestInv ==
    \A r \in Requests :
        /\ req[r].pc = "free" => req[r].key = NoKey
        /\ req[r].pc # "free" => req[r].key \in Keys /\ req[r].body.expected # NoTotal
        /\ req[r].pc = "start" => req[r].input = PlacementInput(req[r].body, req[r].body.expected)
        /\ req[r].pc = "wait" \/ req[r].answer \in Acks => saga[req[r].key].state # "none"
        /\ req[r].pc = "probe" => req[r].why \in Refusals
        /\ req[r].pc = "wait" => req[r].why \in Refusals \cup {""}
        /\ req[r].answer # "" => req[r].pc = "answered"

\* A key of the browser's own names one body: of the stored pair, of every
\* request that carries the key, and of the workflow that one of them started.
KeyInv ==
    /\ idem.key \in WebKeys \cup {NoKey}
    /\ idem.key = NoKey <=> idem.hash.expected = NoTotal
    /\ \A r \in Requests : req[r].key = idem.key /\ idem.key # NoKey => req[r].body = idem.hash
    /\ idem.key # NoKey /\ saga[idem.key].state # "none" => saga[idem.key].input.body = idem.hash
    /\ \A r, s \in Requests : req[r].key = req[s].key /\ req[r].key \in WebKeys =>
          req[r].body = req[s].body
    /\ \A r \in Requests : req[r].key \in WebKeys /\ saga[req[r].key].state # "none" =>
          saga[req[r].key].input.body = req[r].body

PlaceInv == SagaInv /\ RequestInv /\ KeyInv

-----------------------------------------------------------------------------
(* Prices, and what a step may do to a request. *)

\* price_order gives the total it was told to expect, or refuses for a reason.
LEMMA PriceIs ==
    ASSUME NEW m \in Menus, NEW lines \in Carts \cup {<<>>}, NEW expected
    PROVE  LET q == price_order(m, lines, expected)
           IN  /\ q.ok \in BOOLEAN
               /\ q.ok => /\ lines # <<>> /\ q.total \in Int \ {NoTotal}
                          /\ expected # NoTotal => q.total = expected
               /\ ~q.ok => q.why \in Refusals
<1>1. CASE ~price_order(m, lines, NoTotal).ok /\ price_order(m, lines, expected).ok
  BY <1>1 DEF price_order, Refused
<1>2. CASE price_order(m, lines, expected).ok /\ price_order(m, lines, NoTotal).ok
  <2>1. lines \in Carts
    BY <1>2 DEF price_order, Refused
  <2>2. price_order(m, lines, NoTotal).total \in Int \ {NoTotal}
    BY <1>2, <2>1, TotalsAreNumbers
  <2>3. price_order(m, lines, expected).total = price_order(m, lines, NoTotal).total
    BY <1>2 DEF price_order, Refused
  <2> QED
    BY <1>2, <2>2, <2>3 DEF price_order, Refused
<1>3. CASE ~price_order(m, lines, expected).ok
  BY <1>3 DEF price_order, Refused, Refusals
<1> QED
  BY <1>1, <1>2, <1>3 DEF price_order, Refused

Bodies == [lines : Carts \cup {<<>>}, expected : Int]
RequestType == [pc : PCs, key : Keys \cup {NoKey}, input : Inputs, body : Bodies,
                why : Answers, answer : Answers]

LEMMA ConstantsFit ==
    /\ NoBody \in Bodies /\ NoInput \in Inputs /\ FreeRequest \in RequestType
    /\ NoRow \in [input : Inputs, status : RowStatuses]
BY DEF NoBody, Body, Bodies, NoInput, PlacementInput, Inputs, FreeRequest, Request, NoTotal, NoKey,
       RequestType, PCs, Answers, NoRow, Row, RowStatuses

\* An answer frees the request or keeps it, answered, for its page.
LEMMA AnswerIs ==
    ASSUME TypeOK, NEW r \in Requests, NEW a \in Answers, Answer(r, a)
    PROVE  \E n \in RequestType :
             /\ req' = [req EXCEPT ![r] = n]
             /\ \/ n = FreeRequest /\ \A t \in Tabs : tab[t].asks # r
                \/ /\ n.pc = "answered" /\ n.key = req[r].key /\ n.body = req[r].body
                   /\ n.answer = a
<1>1. req[r] \in RequestType
  BY DEF TypeOK, RequestType, Bodies
<1>2. Request("answered", req[r].key, req[r].body, NoInput, "", a) \in RequestType
  BY <1>1, ConstantsFit DEF Request, RequestType, PCs, Answers
<1>3. (req' = [req EXCEPT ![r] = FreeRequest] /\ \A t \in Tabs : tab[t].asks # r)
      \/ req' = [req EXCEPT ![r] = Request("answered", req[r].key, req[r].body, NoInput, "", a)]
  BY DEF Answer
<1> QED
  BY <1>2, <1>3, ConstantsFit DEF Request

\* A request that goes on keeps its key and its body.
LEMMA GotoIs ==
    ASSUME TypeOK, NEW r \in Requests, NEW at \in PCs, NEW i \in Inputs, NEW w \in Answers,
           Goto(r, at, i, w)
    PROVE  \E n \in RequestType :
             /\ req' = [req EXCEPT ![r] = n]
             /\ n = Request(at, req[r].key, req[r].body, i, w, "")
<1>1. req[r] \in RequestType
  BY DEF TypeOK, RequestType, Bodies
<1> QED
  BY <1>1 DEF Goto, Request, RequestType, Answers

\* Either way one request moves.
Moves(r) == \E n \in RequestType : req' = [req EXCEPT ![r] = n]

LEMMA RequestMoves ==
    ASSUME TypeOK, NEW r \in Requests
    PROVE  /\ \A a \in Answers : Answer(r, a) => Moves(r)
           /\ \A at \in PCs, i \in Inputs, w \in Answers : Goto(r, at, i, w) => Moves(r)
           /\ \A at \in PCs, w \in Answers : Goto(r, at, NoInput, w) => Moves(r)
<1>1. \A a \in Answers : Answer(r, a) => Moves(r)
  <2> SUFFICES ASSUME NEW a \in Answers, Answer(r, a) PROVE Moves(r)
    OBVIOUS
  <2> QED
    BY AnswerIs DEF Moves
<1>2. \A at \in PCs, i \in Inputs, w \in Answers : Goto(r, at, i, w) => Moves(r)
  <2> SUFFICES ASSUME NEW at \in PCs, NEW i \in Inputs, NEW w \in Answers, Goto(r, at, i, w)
               PROVE  Moves(r)
    OBVIOUS
  <2> QED
    BY GotoIs DEF Moves
<1> QED
  BY <1>1, <1>2, ConstantsFit

-----------------------------------------------------------------------------
(* Type correctness. *)

LEMMA TypeInit == Init => TypeOK
<1> SUFFICES ASSUME Init PROVE TypeOK
  OBVIOUS
<1>1. (CHOOSE c \in Carts : TRUE) \in Carts
  BY PlacementConstants
<1>2. /\ saga \in [Keys -> [state : {"none", "running", "closed"}, input : Inputs,
                           placed : BOOLEAN]]
      /\ rows \in [Keys -> [input : Inputs, status : RowStatuses]]
  BY ConstantsFit DEF Init, Saga
<1>3. req \in [Requests -> RequestType]
  BY ConstantsFit DEF Init
<1>4. /\ tab \in [Tabs -> [lines : Carts \cup {<<>>}, quote : Int,
                          asks : Requests \cup {NoRequest}, confirm : BOOLEAN]]
      /\ idem \in [hash : Bodies, key : Keys \cup {NoKey}]
  BY <1>1, ConstantsFit DEF Init, Tab, NoTotal, NoIdem
<1>5. presses \in 0..MaxPresses
  <2>1. presses = 0 /\ MaxPresses \in Nat
    BY PlacementConstants DEF Init
  <2> QED
    BY <2>1
<1>6. menu \in Menus /\ excused \in BOOLEAN
  BY DEF Init
<1> QED
  BY <1>2, <1>3, <1>4, <1>5, <1>6 DEF TypeOK, RequestType, Bodies

SagaType == [state : {"none", "running", "closed"}, input : Inputs, placed : BOOLEAN]

\* The types of the variables, one by one.
Typed ==
    /\ menu \in Menus
    /\ saga \in [Keys -> SagaType]
    /\ rows \in [Keys -> [input : Inputs, status : RowStatuses]]
    /\ req \in [Requests -> RequestType]
    /\ tab \in [Tabs -> [lines : Carts \cup {<<>>}, quote : Int,
                         asks : Requests \cup {NoRequest}, confirm : BOOLEAN]]
    /\ idem \in [hash : Bodies, key : Keys \cup {NoKey}]
    /\ presses \in 0..MaxPresses
    /\ excused \in BOOLEAN

LEMMA SameTypes == TypeOK <=> Typed
BY DEF TypeOK, Typed, RequestType, Bodies, SagaType

\* Every handler and every key press keeps the types.
LEMMA TypeStep ==
    ASSUME TypeOK, [Next]_vars
    PROVE  TypeOK'
<1> SUFFICES Typed'
  BY SameTypes, PTL
<1>0. Typed
  BY SameTypes
<1>1. ASSUME NEW r \in Requests, ReadRow(r) PROVE Typed'
  <2>1. PICK n \in RequestType : req' = [req EXCEPT ![r] = n]
    <3>1. CASE rows[req[r].key] = NoRow
      BY <1>1, <3>1, GotoIs, ConstantsFit DEF ReadRow, PCs, Answers
    <3>2. CASE rows[req[r].key] # NoRow
      BY <1>1, <3>2, AnswerIs, ZenonT(30) DEF ReadRow, Answers
    <3> QED
      BY <3>1, <3>2
  <2> QED
    BY <1>0, <1>1, <2>1 DEF Typed, ReadRow, browser
<1>2. ASSUME NEW r \in Requests, Resolve(r) PROVE Typed'
  <2>1. PICK b : b = req[r].body
    OBVIOUS
  <2>2. b \in Bodies /\ menu \in Menus
    BY <1>0, <2>1 DEF Typed, RequestType
  <2>3. PICK q : q = price_order(menu, b.lines, b.expected)
    OBVIOUS
  <2>4. q.ok \in BOOLEAN /\ (q.ok => q.total \in Int) /\ (~q.ok => q.why \in Refusals)
    BY <2>2, <2>3, PriceIs DEF Bodies
  <2>5. q.ok => PlacementInput(b, q.total) \in Inputs
    BY <2>2, <2>4 DEF PlacementInput, Inputs, Bodies
  <2>6. \/ \E w \in Answers : Goto(r, "probe", NoInput, w)
        \/ Answer(r, "UNAVAILABLE")
        \/ q.ok /\ Goto(r, "start", PlacementInput(b, q.total), "")
    BY <1>2, <2>1, <2>3, <2>4 DEF Resolve, Addresses, Snapshots, Answers, Refusals
  <2>7. Moves(r)
    BY <2>5, <2>6, RequestMoves DEF PCs, Answers
  <2> QED
    BY <1>0, <1>2, <2>7 DEF Moves, Typed, Resolve, browser
<1>3. ASSUME NEW r \in Requests, StartOrAttach(r) \/ StartFails(r) PROVE Typed'
  <2>1. Moves(r)
    <3>1. \/ Goto(r, "wait", NoInput, "") \/ Answer(r, "UNAVAILABLE") \/ Answer(r, "PLACED")
      BY <1>3 DEF StartOrAttach, StartFails
    <3> QED
      BY <3>1, RequestMoves DEF PCs, Answers
  <2>2. saga' \in [Keys -> SagaType]
    <3>1. req[r].input \in Inputs
      BY <1>0 DEF Typed, RequestType
    <3> QED
      <4>1. \/ saga' = saga
            \/ saga' = [saga EXCEPT ![req[r].key] = Saga("running", req[r].input, FALSE)]
        BY <1>3 DEF StartOrAttach, StartFails
      <4>2. Saga("running", req[r].input, FALSE) \in SagaType
        BY <3>1 DEF Saga, SagaType
      <4> QED
        BY <1>0, <4>1, <4>2 DEF Typed
  <2> QED
    <3>1. UNCHANGED <<menu, rows, browser, excused>>
      BY <1>3 DEF StartOrAttach, StartFails
    <3> QED
      BY <1>0, <2>1, <2>2, <3>1 DEF Moves, Typed, browser
<1>4. ASSUME NEW r \in Requests, AwaitPlacement(r) \/ AwaitTimesOut(r) PROVE Typed'
  <2>1. Moves(r)
    BY <1>4, RequestMoves DEF AwaitPlacement, AwaitTimesOut, Answers
  <2> QED
    BY <1>0, <1>4, <2>1 DEF Moves, Typed, AwaitPlacement, AwaitTimesOut, browser
<1>5. ASSUME NEW r \in Requests, AttachIfRunning(r) \/ AwaitBreaks(r) PROVE Typed'
  <2>1. Moves(r)
    <3>1. req[r].why \in Answers
      BY <1>0 DEF Typed, RequestType
    <3>2. \/ Goto(r, "wait", NoInput, req[r].why)
          \/ Answer(r, req[r].why) \/ Answer(r, "UNAVAILABLE")
      BY <1>5 DEF AttachIfRunning, AwaitBreaks
    <3> QED
      BY <3>1, <3>2, RequestMoves DEF PCs, Answers
  <2>2. excused' \in BOOLEAN
    BY <1>0, <1>5 DEF Typed, AttachIfRunning, AwaitBreaks
  <2>3. UNCHANGED <<menu, saga, rows, tab, idem, presses>>
    BY <1>5 DEF AttachIfRunning, AwaitBreaks, browser
  <2> QED
    BY <1>0, <2>1, <2>2, <2>3 DEF Moves, Typed
<1>6. ASSUME NEW r \in Requests, ApiPost(r) PROVE Typed'
  <2>1. PICK k \in ApiKeys, c \in Carts, m \in Menus :
          /\ price_order(m, c, NoTotal).ok
          /\ req' = [req EXCEPT ![r] =
               Request("row", k, Body(c, price_order(m, c, NoTotal).total), NoInput, "", "")]
    BY <1>6 DEF ApiPost
  <2>2. Body(c, price_order(m, c, NoTotal).total) \in Bodies
    BY <2>1, TotalsAreNumbers DEF Body, Bodies
  <2>3. Request("row", k, Body(c, price_order(m, c, NoTotal).total), NoInput, "", "")
          \in RequestType
    BY <2>2, ConstantsFit DEF Request, RequestType, PCs, Answers, Keys
  <2>4. presses' \in 0..MaxPresses
    <3>1. presses \in 0..MaxPresses /\ presses < MaxPresses /\ presses' = presses + 1
      BY <1>0, <1>6 DEF Typed, ApiPost
    <3>2. MaxPresses \in Nat
      BY PlacementConstants
    <3> QED
      BY <3>1, <3>2
  <2> QED
    BY <1>0, <1>6, <2>1, <2>3, <2>4 DEF Typed, ApiPost
<1>7. ASSUME NEW r \in Requests, ApiHears(r) PROVE Typed'
  BY <1>0, <1>7, ConstantsFit DEF Typed, ApiHears, browser
<1>8. ASSUME NEW k \in Keys, SagaStep(k) PROVE Typed'
  <2>1. rows[k].input \in Inputs /\ saga[k].input \in Inputs
    BY <1>0 DEF Typed, SagaType
  <2>2. /\ \/ rows' = rows
           \/ \E i \in Inputs, s \in RowStatuses : rows' = [rows EXCEPT ![k] = Row(i, s)]
        /\ \/ saga' = saga
           \/ \E s \in {"running", "closed"}, i \in Inputs, p \in BOOLEAN :
                 saga' = [saga EXCEPT ![k] = Saga(s, i, p)]
    <3>1. CASE CreateOrder(k)
      BY <2>1, <3>1 DEF CreateOrder, RowStatuses
    <3>2. CASE ReportPlaced(k)
      BY <1>0, <2>1, <3>2 DEF ReportPlaced, Typed, SagaType
    <3>3. CASE SagaEnds(k)
      BY <1>0, <2>1, <3>3 DEF SagaEnds, RowStatuses, Typed, SagaType
    <3>4. CASE Terminate(k)
      BY <1>0, <2>1, <3>4 DEF Terminate, Typed, SagaType
    <3> QED
      BY <1>8, <3>1, <3>2, <3>3, <3>4 DEF SagaStep
  <2>3. UNCHANGED <<menu, req, browser, excused>>
    BY <1>8 DEF SagaStep, CreateOrder, ReportPlaced, SagaEnds, Terminate
  <2>4. rows' \in [Keys -> [input : Inputs, status : RowStatuses]]
    BY <1>0, <2>2 DEF Typed, Row
  <2>5. saga' \in [Keys -> SagaType]
    <3>1. \A s \in {"running", "closed"}, i \in Inputs, p \in BOOLEAN : Saga(s, i, p) \in SagaType
      BY DEF Saga, SagaType
    <3> QED
      BY <1>0, <2>2, <3>1 DEF Typed
  <2> QED
    BY <1>0, <2>3, <2>4, <2>5 DEF Typed, browser
<1>9. ASSUME NEW t \in Tabs, Quote(t) PROVE Typed'
  <2>1. QuoteOf(tab[t].lines).total \in Int
    BY <1>0, <1>9, PriceIs DEF Typed, Quote, QuoteOf
  <2>2. excused' \in BOOLEAN
    BY <1>0, <1>9 DEF Typed, Quote
  <2> QED
    BY <1>0, <1>9, <2>1, <2>2 DEF Typed, Quote, Tab
<1>10. ASSUME NEW t \in Tabs, Press(t) PROVE Typed'
  <2>1. PICK r \in Requests, k \in idemKeyFor(PostedBody(t)) :
          /\ req' = [req EXCEPT ![r] = Request("row", k, PostedBody(t), NoInput, "", "")]
          /\ tab' = [tab EXCEPT ![t] = Tab(@.lines, @.quote, r, FALSE)]
          /\ idem' = [hash |-> PostedBody(t), key |-> k]
    BY <1>10 DEF Press
  <2>2. PostedBody(t) \in Bodies
    BY <1>0 DEF Typed, PostedBody, Body, Bodies
  <2>3. k \in Keys \cup {NoKey}
    BY <1>0, <2>1 DEF Typed, idemKeyFor, Keys
  <2>4. Request("row", k, PostedBody(t), NoInput, "", "") \in RequestType
    BY <2>2, <2>3, ConstantsFit DEF Request, RequestType, PCs, Answers
  <2>5. presses' \in 0..MaxPresses
    <3>1. presses \in 0..MaxPresses /\ presses < MaxPresses /\ presses' = presses + 1
      BY <1>0, <1>10 DEF Typed, Press
    <3>2. MaxPresses \in Nat
      BY PlacementConstants
    <3> QED
      BY <3>1, <3>2
  <2> QED
    BY <1>0, <1>10, <2>1, <2>2, <2>3, <2>4, <2>5 DEF Typed, Press, Tab
<1>11. ASSUME NEW t \in Tabs, Hears(t) PROVE Typed'
  <2>1. tab[t].asks \in Requests
    BY <1>0, <1>11 DEF Typed, Hears, Waiting
  <2>2. idem' \in [hash : Bodies, key : Keys \cup {NoKey}]
    BY <1>0, <1>11, ConstantsFit DEF Typed, Hears, NoIdem
  <2>3. tab' \in [Tabs -> [lines : Carts \cup {<<>>}, quote : Int,
                          asks : Requests \cup {NoRequest}, confirm : BOOLEAN]]
    BY <1>0, <1>11 DEF Typed, Hears, Tab, NoTotal
  <2> QED
    BY <1>0, <1>11, <2>1, <2>2, <2>3, ConstantsFit DEF Typed, Hears
<1>12. ASSUME NEW t \in Tabs, AnswerLost(t) PROVE Typed'
  <2>1. tab' \in [Tabs -> [lines : Carts \cup {<<>>}, quote : Int,
                          asks : Requests \cup {NoRequest}, confirm : BOOLEAN]]
    BY <1>0, <1>12 DEF Typed, AnswerLost, Tab
  <2> QED
    BY <1>0, <1>12, <2>1, ConstantsFit DEF Typed, AnswerLost
<1>13. CASE MenuChanges
  BY <1>0, <1>13 DEF Typed, MenuChanges, browser
<1>14. CASE UNCHANGED vars
  BY <1>0, <1>14 DEF Typed, vars
<1> QED
  BY <1>1, <1>2, <1>3, <1>4, <1>5, <1>6, <1>7, <1>8, <1>9, <1>10, <1>11, <1>12, <1>13, <1>14
     DEF Next, ServerStep, TabStep

\* The shapes of the shop's state, for every reachable one.
THEOREM ShapesCorrect == Spec => []TypeOK
<1>1. Init => TypeOK
  BY TypeInit
<1>2. TypeOK /\ [Next]_vars => TypeOK'
  BY TypeStep
<1> QED
  BY <1>1, <1>2, PTL DEF Spec

-----------------------------------------------------------------------------
(* The invariant, action by action. *)

LEMMA PlaceInit == Init => PlaceInv
<1> SUFFICES ASSUME Init PROVE PlaceInv
  OBVIOUS
<1>1. SagaInv
  BY DEF Init, SagaInv, Saga, NoInput, PlacementInput, NoBody, Body
<1>2. RequestInv
  BY DEF Init, RequestInv, FreeRequest, Request, Acks
<1>3. KeyInv
  <2>1. idem = NoIdem /\ \A r \in Requests : req[r].key = NoKey
    BY DEF Init, FreeRequest, Request
  <2>2. NoKey \notin WebKeys
    BY PlacementConstants DEF NoKey
  <2> QED
    BY <2>1, <2>2 DEF KeyInv, NoIdem, NoBody, Body
<1> QED
  BY <1>1, <1>2, <1>3 DEF PlaceInv

\* What a request n that takes the place of request r may say.
Proper(n, r) ==
    \/ n = FreeRequest
    \/ /\ req[r].pc # "free" /\ n.key = req[r].key /\ n.body = req[r].body /\ n.pc # "free"
       /\ n.pc = "start" => n.input = PlacementInput(n.body, n.body.expected)
       /\ n.pc = "wait" \/ n.answer \in Acks => saga'[n.key].state # "none"
       /\ n.pc = "probe" => n.why \in Refusals
       /\ n.pc = "wait" => n.why \in Refusals \cup {""}
       /\ n.answer # "" => n.pc = "answered"

\* Workflows stay started, with the body of the request that started them.
Starts(r) ==
    \A k \in Keys :
        /\ saga[k].state # "none" =>
              saga'[k].state # "none" /\ saga'[k].input.body = saga[k].input.body
        /\ saga[k].state = "none" /\ saga'[k].state # "none" =>
              k = req[r].key /\ saga'[k].input.body = req[r].body

\* A request that moves on as it should, and may have started a workflow.
LEMMA RequestKeeps ==
    ASSUME Typed, Typed', PlaceInv, SagaInv', NEW r \in Requests, NEW n \in RequestType,
           req' = [req EXCEPT ![r] = n], idem' = idem, Proper(n, r), Starts(r)
    PROVE  PlaceInv'
<1>1. \A s \in Requests : req'[s] = IF s = r THEN n ELSE req[s]
  BY DEF Typed
<1>2. \A s \in Requests : req[s].key \in Keys \cup {NoKey}
  BY DEF Typed, RequestType
<1>3. NoKey \notin Keys /\ WebKeys \subseteq Keys
  BY PlacementConstants DEF Keys, NoKey
<1>4. FreeRequest.key = NoKey /\ FreeRequest.pc = "free" /\ FreeRequest.answer = ""
  BY DEF FreeRequest, Request
<1>5. RequestInv'
  <2> SUFFICES ASSUME NEW s \in Requests
               PROVE  /\ req'[s].pc = "free" => req'[s].key = NoKey
                      /\ req'[s].pc # "free" =>
                            req'[s].key \in Keys /\ req'[s].body.expected # NoTotal
                      /\ req'[s].pc = "start" =>
                            req'[s].input = PlacementInput(req'[s].body, req'[s].body.expected)
                      /\ req'[s].pc = "wait" \/ req'[s].answer \in Acks =>
                            saga'[req'[s].key].state # "none"
                      /\ req'[s].pc = "probe" => req'[s].why \in Refusals
                      /\ req'[s].pc = "wait" => req'[s].why \in Refusals \cup {""}
                      /\ req'[s].answer # "" => req'[s].pc = "answered"
    BY DEF RequestInv
  <2>1. CASE s # r
    <3>1. req'[s] = req[s]
      BY <1>1, <2>1
    <3>2. req[s].pc # "free" =>
             (saga[req[s].key].state # "none" => saga'[req[s].key].state # "none")
      BY DEF PlaceInv, RequestInv, Starts
    <3> QED
      BY <3>1, <3>2 DEF PlaceInv, RequestInv, Acks
  <2>2. CASE s = r
    <3>1. req'[s] = n
      BY <1>1, <2>2
    <3>2. CASE n = FreeRequest
      BY <1>4, <3>1, <3>2 DEF Acks
    <3>3. CASE n # FreeRequest
      <4>1. n.key \in Keys /\ n.body.expected # NoTotal /\ n.pc # "free"
        BY <3>3 DEF PlaceInv, RequestInv, Proper
      <4> QED
        BY <3>1, <3>3, <4>1 DEF Proper
    <3> QED
      BY <3>2, <3>3
  <2> QED
    BY <2>1, <2>2
<1>6. KeyInv'
  <2>1. \A s \in Requests : req'[s].key \in WebKeys =>
           req'[s].key = req[s].key /\ req'[s].body = req[s].body
    BY <1>1, <1>3, <1>4 DEF Proper
  <2>2. \A k \in WebKeys : saga'[k].state # "none" /\ saga[k].state = "none" =>
           k = req[r].key /\ saga'[k].input.body = req[r].body
    BY <1>3 DEF Starts
  <2>3. \A k \in WebKeys : saga[k].state # "none" => saga'[k].input.body = saga[k].input.body
    BY <1>3 DEF Starts
  <2>4. KeyInv
    BY DEF PlaceInv
  <2>5. /\ idem'.key \in WebKeys \cup {NoKey}
        /\ idem'.key = NoKey <=> idem'.hash.expected = NoTotal
    BY <2>4 DEF KeyInv
  <2>6. \A s \in Requests : req'[s].key = idem'.key /\ idem'.key # NoKey =>
           req'[s].body = idem'.hash
    BY <2>1, <2>4 DEF KeyInv
  <2>7. idem'.key # NoKey /\ saga'[idem'.key].state # "none" =>
           saga'[idem'.key].input.body = idem'.hash
    BY <2>2, <2>3, <2>4 DEF KeyInv
  <2>8. \A s, t \in Requests : req'[s].key = req'[t].key /\ req'[s].key \in WebKeys =>
           req'[s].body = req'[t].body
    BY <2>1, <2>4 DEF KeyInv
  <2>9. \A s \in Requests : req'[s].key \in WebKeys /\ saga'[req'[s].key].state # "none" =>
           saga'[req'[s].key].input.body = req'[s].body
    BY <2>1, <2>2, <2>3, <2>4 DEF KeyInv
  <2> QED
    BY <2>5, <2>6, <2>7, <2>8, <2>9 DEF KeyInv
<1> QED
  BY <1>5, <1>6 DEF PlaceInv

\* The answer to a request is proper, an acknowledgement only of a workflow.
LEMMA AnswerKeeps ==
    ASSUME Typed, Typed', PlaceInv, SagaInv', NEW r \in Requests, NEW a \in Answers, Answer(r, a),
           req[r].pc # "free", a \in Acks => saga'[req[r].key].state # "none",
           idem' = idem, Starts(r)
    PROVE  PlaceInv'
<1>1. PICK n \in RequestType :
         /\ req' = [req EXCEPT ![r] = n]
         /\ \/ n = FreeRequest
            \/ n.pc = "answered" /\ n.key = req[r].key /\ n.body = req[r].body /\ n.answer = a
  BY SameTypes, AnswerIs
<1>2. Proper(n, r)
  BY <1>1 DEF Proper
<1> QED
  BY <1>1, <1>2, RequestKeeps

\* A request that goes on to its next await is proper.
LEMMA GotoKeeps ==
    ASSUME Typed, Typed', PlaceInv, SagaInv', NEW r \in Requests, req[r].pc # "free",
           NEW at \in PCs \ {"free"}, NEW i \in Inputs, NEW w \in Answers, Goto(r, at, i, w),
           at = "start" => i = PlacementInput(req[r].body, req[r].body.expected),
           at = "wait" => saga'[req[r].key].state # "none" /\ w \in Refusals \cup {""},
           at = "probe" => w \in Refusals,
           idem' = idem, Starts(r)
    PROVE  PlaceInv'
<1>1. PICK n \in RequestType : /\ req' = [req EXCEPT ![r] = n]
                               /\ n = Request(at, req[r].key, req[r].body, i, w, "")
  BY SameTypes, GotoIs
<1>2. Proper(n, r)
  BY <1>1 DEF Proper, Request, Acks
<1> QED
  BY <1>1, <1>2, RequestKeeps

\* A saga that only goes on: the requests and the stored key stay.
LEMMA SagaKeeps ==
    ASSUME Typed, Typed', PlaceInv, SagaInv', req' = req, idem' = idem,
           \A k \in Keys : /\ saga'[k].state = "none" <=> saga[k].state = "none"
                           /\ saga'[k].input = saga[k].input
    PROVE  PlaceInv'
<1>1. \A r \in Requests : req[r].key \in Keys \cup {NoKey} /\ (req[r].pc # "free" => req[r].key \in Keys)
  BY DEF Typed, RequestType, PlaceInv, RequestInv
<1>2. NoKey \notin Keys /\ WebKeys \subseteq Keys
  BY PlacementConstants DEF Keys, NoKey
<1>3. RequestInv'
  BY <1>1 DEF PlaceInv, RequestInv, Acks
<1>4. KeyInv'
  BY <1>2 DEF PlaceInv, KeyInv
<1> QED
  BY <1>3, <1>4 DEF PlaceInv

\* place(), from the row read to the answer, keeps the invariant.
LEMMA ServerKeeps ==
    ASSUME Typed, Typed', PlaceInv, NEW r \in Requests,
           \/ ReadRow(r) \/ Resolve(r) \/ StartOrAttach(r) \/ StartFails(r)
           \/ AwaitPlacement(r) \/ AwaitTimesOut(r) \/ AwaitBreaks(r) \/ AttachIfRunning(r)
    PROVE  PlaceInv'
<1>1. PICK k : k = req[r].key
  OBVIOUS
<1>2. /\ req[r].pc # "free" /\ k \in Keys /\ idem' = idem
  <2>1. req[r].pc # "free" /\ idem' = idem
    BY DEF ReadRow, Resolve, StartOrAttach, StartFails, AwaitPlacement, AwaitTimesOut,
       AwaitBreaks, AttachIfRunning, browser
  <2> QED
    BY <1>1, <2>1 DEF PlaceInv, RequestInv
<1>3. UNCHANGED <<saga, rows>> => SagaInv' /\ Starts(r)
  BY DEF PlaceInv, SagaInv, Starts
<1>4. CASE ReadRow(r)
  <2>1. UNCHANGED <<saga, rows>>
    BY <1>4 DEF ReadRow
  <2>2. CASE rows[k] = NoRow
    <3>1. Goto(r, "resolve", NoInput, "")
      BY <1>1, <1>4, <2>2 DEF ReadRow
    <3> QED
      BY <1>2, <1>3, <2>1, <3>1, GotoKeeps, ConstantsFit DEF PCs, Answers
  <2>3. CASE rows[k] # NoRow
    <3>1. Answer(r, "REPLAYED") \/ Answer(r, "KEY_REUSE")
      BY <1>1, <1>4, <2>3 DEF ReadRow
    <3>2. saga'[req[r].key].state # "none"
      BY <1>1, <1>2, <2>1, <2>3 DEF PlaceInv, SagaInv
    <3> QED
      BY <1>2, <1>3, <2>1, <3>1, <3>2, AnswerKeeps DEF Answers
  <2> QED
    BY <2>2, <2>3
<1>5. CASE Resolve(r)
  <2>1. UNCHANGED <<saga, rows>>
    BY <1>5 DEF Resolve
  <2>2. PICK b, q : b = req[r].body /\ q = price_order(menu, b.lines, b.expected)
    OBVIOUS
  <2>3. b \in Bodies /\ menu \in Menus /\ b.expected # NoTotal
    BY <1>2, <2>2 DEF Typed, RequestType, PlaceInv, RequestInv
  <2>4. (q.ok => q.total = b.expected) /\ (~q.ok => q.why \in Refusals)
    BY <2>2, <2>3, PriceIs DEF Bodies
  <2>5. \/ \E w \in Refusals : Goto(r, "probe", NoInput, w)
        \/ Answer(r, "UNAVAILABLE")
        \/ q.ok /\ Goto(r, "start", PlacementInput(b, q.total), "")
    BY <1>5, <2>2, <2>4 DEF Resolve, Addresses, Snapshots, Refusals
  <2>6. CASE \E w \in Refusals : Goto(r, "probe", NoInput, w)
    <3>1. PICK w \in Refusals : Goto(r, "probe", NoInput, w)
      BY <2>6
    <3> QED
      BY <1>2, <1>3, <2>1, <3>1, GotoKeeps, ConstantsFit DEF PCs, Answers
  <2>7. CASE Answer(r, "UNAVAILABLE")
    BY <1>2, <1>3, <2>1, <2>7, AnswerKeeps DEF Answers, Acks
  <2>8. CASE q.ok /\ Goto(r, "start", PlacementInput(b, q.total), "")
    <3>1. PlacementInput(b, b.expected) \in Inputs
      BY <2>3 DEF PlacementInput, Inputs, Bodies
    <3>2. Goto(r, "start", PlacementInput(b, b.expected), "")
      BY <2>4, <2>8
    <3> QED
      BY <1>2, <1>3, <2>1, <2>2, <3>1, <3>2, GotoKeeps DEF PCs, Answers
  <2> QED
    BY <2>5, <2>6, <2>7, <2>8
<1>6. CASE StartOrAttach(r) \/ StartFails(r)
  <2>1. PICK i : i = PlacementInput(req[r].body, req[r].body.expected)
    OBVIOUS
  <2>2. req[r].input = i /\ i.amount = i.body.expected /\ i.body = req[r].body
    BY <1>6, <2>1 DEF StartOrAttach, StartFails, PlaceInv, RequestInv, PlacementInput
  <2>3. /\ rows' = rows
        /\ \/ saga' = saga
           \/ saga[k].state = "none" /\ saga' = [saga EXCEPT ![k] = Saga("running", i, FALSE)]
    BY <1>1, <1>6, <2>2 DEF StartOrAttach, StartFails
  <2>4. SagaInv' /\ Starts(r)
    <3>1. CASE saga' = saga
      BY <1>3, <2>3, <3>1
    <3>2. CASE saga' # saga
      <4>1. /\ saga[k].state = "none"
            /\ \A j \in Keys : saga'[j] = IF j = k THEN Saga("running", i, FALSE) ELSE saga[j]
        BY <2>3, <3>2 DEF Typed
      <4>2. rows[k] = NoRow
        BY <1>2, <4>1 DEF PlaceInv, SagaInv
      <4>3. SagaInv'
        BY <2>2, <2>3, <4>1, <4>2 DEF PlaceInv, SagaInv, Saga
      <4>4. Starts(r)
        BY <1>1, <2>2, <4>1 DEF Starts, Saga
      <4> QED
        BY <4>3, <4>4
    <3> QED
      BY <3>1, <3>2
  <2>5. \/ Goto(r, "wait", NoInput, "") /\ saga'[k].state # "none"
        \/ Answer(r, "UNAVAILABLE")
        \/ Answer(r, "PLACED") /\ saga'[k].state # "none"
    <3>1. CASE StartFails(r)
      BY <3>1 DEF StartFails
    <3>2. CASE StartOrAttach(r) /\ saga[k].state = "none"
      <4>1. saga' = [saga EXCEPT ![k] = Saga("running", req[r].input, FALSE)]
            /\ Goto(r, "wait", NoInput, "")
        BY <1>1, <3>2 DEF StartOrAttach
      <4> QED
        BY <1>2, <4>1 DEF Typed, Saga
    <3>3. CASE StartOrAttach(r) /\ saga[k].state # "none"
      BY <1>1, <3>3 DEF StartOrAttach
    <3> QED
      BY <1>6, <3>1, <3>2, <3>3
  <2>6. CASE Goto(r, "wait", NoInput, "") /\ saga'[k].state # "none"
    BY <1>1, <1>2, <2>4, <2>6, GotoKeeps, ConstantsFit DEF PCs, Answers
  <2>7. CASE Answer(r, "UNAVAILABLE")
    BY <1>2, <2>4, <2>7, AnswerKeeps DEF Answers, Acks
  <2>8. CASE Answer(r, "PLACED") /\ saga'[k].state # "none"
    BY <1>1, <1>2, <2>4, <2>8, AnswerKeeps DEF Answers
  <2> QED
    BY <2>5, <2>6, <2>7, <2>8
<1>7. CASE AwaitPlacement(r) \/ AwaitTimesOut(r)
  <2>1. UNCHANGED <<saga, rows>> /\ (Answer(r, "PLACED") \/ Answer(r, "PENDING"))
    BY <1>7 DEF AwaitPlacement, AwaitTimesOut
  <2>2. saga'[req[r].key].state # "none"
    BY <1>7, <2>1 DEF AwaitPlacement, AwaitTimesOut, PlaceInv, RequestInv
  <2> QED
    BY <1>2, <1>3, <2>1, <2>2, AnswerKeeps DEF Answers
<1>8. CASE AttachIfRunning(r)
  <2>1. UNCHANGED <<saga, rows>>
    BY <1>8 DEF AttachIfRunning
  <2>2. req[r].why \in Refusals
    BY <1>8 DEF AttachIfRunning, PlaceInv, RequestInv
  <2>3. \/ Goto(r, "wait", NoInput, req[r].why) /\ saga[req[r].key].state = "running"
        \/ Answer(r, req[r].why)
    BY <1>8 DEF AttachIfRunning, Attach
  <2>4. CASE Goto(r, "wait", NoInput, req[r].why) /\ saga[req[r].key].state = "running"
    BY <1>2, <1>3, <2>1, <2>2, <2>4, GotoKeeps, ConstantsFit DEF PCs, Answers
  <2>5. CASE Answer(r, req[r].why)
    <3>1. req[r].why \in Answers \ Acks
      BY <2>2 DEF Refusals, Answers, Acks
    <3> QED
      BY <1>2, <1>3, <2>1, <2>5, <3>1, AnswerKeeps
  <2> QED
    BY <2>3, <2>4, <2>5
<1>9. CASE AwaitBreaks(r)
  <2>1. UNCHANGED <<saga, rows>>
    BY <1>9 DEF AwaitBreaks
  <2>2. PICK a \in (Refusals \cup {"UNAVAILABLE"}) : Answer(r, a)
    BY <1>9 DEF AwaitBreaks, PlaceInv, RequestInv
  <2>3. a \in Answers \ Acks
    BY <2>2 DEF Refusals, Answers, Acks
  <2> QED
    BY <1>2, <1>3, <2>1, <2>2, <2>3, AnswerKeeps
<1> QED
  BY <1>4, <1>5, <1>6, <1>7, <1>8, <1>9

\* The saga from outside: a row only of what its workflow was started with.
LEMMA SagaStepKeeps ==
    ASSUME Typed, Typed', PlaceInv, NEW k \in Keys, SagaStep(k)
    PROVE  PlaceInv'
<1>1. req' = req /\ idem' = idem
  BY DEF SagaStep, CreateOrder, ReportPlaced, SagaEnds, Terminate, browser
<1>2. /\ \A j \in Keys : j # k => saga'[j] = saga[j] /\ rows'[j] = rows[j]
      /\ saga[k].state # "none" /\ saga'[k].state # "none" /\ saga'[k].input = saga[k].input
      /\ saga'[k].placed => rows'[k] # NoRow
      /\ rows'[k] # NoRow => rows'[k].input = saga[k].input
  <2>1. CASE CreateOrder(k)
    BY <2>1 DEF Typed, CreateOrder, PlaceInv, SagaInv, Row, NoRow
  <2>2. CASE ReportPlaced(k)
    BY <2>2 DEF Typed, ReportPlaced, PlaceInv, SagaInv, Saga
  <2>3. CASE SagaEnds(k)
    <3>1. PICK s \in {"DELIVERED", "CANCELLED"} : rows' = [rows EXCEPT ![k] = Row(@.input, s)]
      BY <2>3 DEF SagaEnds
    <3>2. rows[k] # NoRow /\ rows'[k] = Row(rows[k].input, s)
      BY <2>3, <3>1 DEF SagaEnds, Typed, PlaceInv, SagaInv
    <3>3. rows'[k] # NoRow /\ rows'[k].input = saga[k].input
      BY <3>2 DEF Row, NoRow, PlaceInv, SagaInv
    <3> QED
      BY <2>3, <3>1, <3>3 DEF SagaEnds, Typed, Saga
  <2>4. CASE Terminate(k)
    BY <2>4 DEF Typed, Terminate, PlaceInv, SagaInv, Saga
  <2> QED
    BY <2>1, <2>2, <2>3, <2>4 DEF SagaStep
<1>3. SagaInv'
  BY <1>2 DEF PlaceInv, SagaInv
<1>4. \A j \in Keys : /\ saga'[j].state = "none" <=> saga[j].state = "none"
                      /\ saga'[j].input = saga[j].input
  BY <1>2
<1> QED
  BY <1>1, <1>3, <1>4, SagaKeeps

\* A caller's request comes under a key the browser has never minted.
LEMMA ApiPostKeeps ==
    ASSUME Typed, Typed', PlaceInv, NEW r \in Requests, ApiPost(r)
    PROVE  PlaceInv'
<1>1. PICK k \in ApiKeys, c \in Carts, m \in Menus :
        /\ price_order(m, c, NoTotal).ok
        /\ req' = [req EXCEPT ![r] =
             Request("row", k, Body(c, price_order(m, c, NoTotal).total), NoInput, "", "")]
  BY DEF ApiPost
<1>2. PICK n : n = Request("row", k, Body(c, price_order(m, c, NoTotal).total), NoInput, "", "")
  OBVIOUS
<1>3. n.pc = "row" /\ n.key = k /\ n.body.expected # NoTotal /\ n.answer = ""
  BY <1>1, <1>2, TotalsAreNumbers DEF Request, Body
<1>4. \A s \in Requests : req'[s] = IF s = r THEN n ELSE req[s]
  BY <1>1, <1>2 DEF Typed
<1>5. UNCHANGED <<saga, rows, idem>>
  BY DEF ApiPost
<1>6. k \in Keys /\ k \notin WebKeys /\ k # NoKey
  BY PlacementConstants DEF Keys, NoKey
<1>7. SagaInv'
  BY <1>5 DEF PlaceInv, SagaInv
<1>8. RequestInv'
  BY <1>3, <1>4, <1>5, <1>6 DEF PlaceInv, RequestInv, Acks
<1>9. KeyInv'
  <2>1. \A s \in Requests : req'[s].key \in WebKeys => req'[s] = req[s]
    BY <1>3, <1>4, <1>6
  <2>2. KeyInv
    BY DEF PlaceInv
  <2> QED
    BY <1>5, <2>1, <2>2 DEF KeyInv
<1> QED
  BY <1>7, <1>8, <1>9 DEF PlaceInv

\* A press posts the body its key was minted for.
LEMMA PressKeeps ==
    ASSUME Typed, Typed', PlaceInv, NEW t \in Tabs, Press(t)
    PROVE  PlaceInv'
<1>1. PICK b : b = PostedBody(t)
  OBVIOUS
<1>2. PICK r \in Requests, k \in idemKeyFor(b) :
        /\ req' = [req EXCEPT ![r] = Request("row", k, b, NoInput, "", "")]
        /\ idem' = [hash |-> b, key |-> k]
  BY <1>1 DEF Press
<1>3. b.expected # NoTotal
  BY <1>1 DEF Press, PostedBody, Body
<1>4. PICK n : n = Request("row", k, b, NoInput, "", "")
  OBVIOUS
<1>5. n.pc = "row" /\ n.key = k /\ n.body = b /\ n.answer = ""
  BY <1>4 DEF Request
<1>6. \A s \in Requests : req'[s] = IF s = r THEN n ELSE req[s]
  BY <1>2, <1>4 DEF Typed
<1>7. UNCHANGED <<saga, rows>> /\ idem'.hash = b /\ idem'.key = k
  BY <1>2 DEF Press
<1>8. /\ k \in WebKeys
      /\ \A s \in Requests : req[s].key = k => req[s].body = b
      /\ saga[k].state # "none" => saga[k].input.body = b
  <2>1. CASE idem.hash = b
    BY <1>2, <1>3, <2>1 DEF PlaceInv, KeyInv, idemKeyFor
  <2>2. CASE idem.hash # b
    BY <1>2, <2>2 DEF idemKeyFor
  <2> QED
    BY <2>1, <2>2
<1>9. k \in Keys /\ k # NoKey
  BY <1>8, PlacementConstants DEF Keys, NoKey
<1>10. SagaInv'
  BY <1>7 DEF PlaceInv, SagaInv
<1>11. RequestInv'
  BY <1>3, <1>5, <1>6, <1>7, <1>9 DEF PlaceInv, RequestInv, Acks
<1>12. KeyInv'
  <2>1. \A s \in Requests : req'[s] = req[s] \/ (req'[s].key = k /\ req'[s].body = b)
    <3> SUFFICES ASSUME NEW s \in Requests
                 PROVE  req'[s] = req[s] \/ (req'[s].key = k /\ req'[s].body = b)
      OBVIOUS
    <3>1. req'[s] = req[s] \/ req'[s] = n
      BY <1>6
    <3> QED
      BY <1>5, <3>1
  <2>2. \A s \in Requests : req'[s].key = k => req'[s].body = b
    BY <1>8, <2>1
  <2>3. KeyInv
    BY DEF PlaceInv
  <2>4. /\ idem'.key \in WebKeys \cup {NoKey}
        /\ idem'.key = NoKey <=> idem'.hash.expected = NoTotal
        /\ \A s \in Requests : req'[s].key = idem'.key /\ idem'.key # NoKey =>
              req'[s].body = idem'.hash
        /\ idem'.key # NoKey /\ saga'[idem'.key].state # "none" =>
              saga'[idem'.key].input.body = idem'.hash
    BY <1>3, <1>7, <1>8, <1>9, <2>2
  <2>5. \A s, u \in Requests : req'[s].key = req'[u].key /\ req'[s].key \in WebKeys =>
           req'[s].body = req'[u].body
    BY <2>1, <2>2, <2>3 DEF KeyInv
  <2>6. \A s \in Requests : req'[s].key \in WebKeys /\ saga'[req'[s].key].state # "none" =>
           saga'[req'[s].key].input.body = req'[s].body
    BY <1>7, <1>8, <2>1, <2>3 DEF KeyInv
  <2> QED
    BY <2>4, <2>5, <2>6 DEF KeyInv
<1> QED
  BY <1>10, <1>11, <1>12 DEF PlaceInv

\* A page or a caller that hears an answer, or will not, lets its request go.
LEMMA FreesKeeps ==
    ASSUME Typed, Typed', PlaceInv, UNCHANGED <<saga, rows>>,
           \/ req' = req
           \/ \E r \in Requests : req' = [req EXCEPT ![r] = FreeRequest],
           idem' = idem \/ idem' = NoIdem
    PROVE  PlaceInv'
<1>1. \A s \in Requests : req'[s] = req[s] \/ req'[s] = FreeRequest
  BY DEF Typed
<1>2. FreeRequest.key = NoKey /\ FreeRequest.pc = "free" /\ FreeRequest.answer = ""
  BY DEF FreeRequest, Request
<1>3. SagaInv'
  BY DEF PlaceInv, SagaInv
<1>4. RequestInv'
  BY <1>1, <1>2 DEF PlaceInv, RequestInv, Acks
<1>5. KeyInv'
  <2>1. KeyInv /\ NoKey \notin WebKeys
    BY PlacementConstants DEF PlaceInv, NoKey
  <2>2. \A s \in Requests : req'[s] = req[s] \/ req'[s].key = NoKey
    BY <1>1, <1>2
  <2>3. CASE idem' = idem
    BY <2>1, <2>2, <2>3 DEF KeyInv
  <2>4. CASE idem' = NoIdem
    <3>1. idem'.key = NoKey /\ idem'.hash.expected = NoTotal
      BY <2>4 DEF NoIdem, NoBody, Body
    <3> QED
      BY <2>1, <2>2, <3>1 DEF KeyInv
  <2> QED
    BY <2>3, <2>4
<1> QED
  BY <1>3, <1>4, <1>5 DEF PlaceInv

LEMMA PlaceStep ==
    ASSUME Typed, Typed', PlaceInv, [Next]_vars
    PROVE  PlaceInv'
<1>1. ASSUME NEW r \in Requests, ServerStep(r) PROVE PlaceInv'
  <2>1. CASE ApiPost(r)
    BY <2>1, ApiPostKeeps
  <2>2. CASE ApiHears(r)
    BY <2>2, FreesKeeps DEF ApiHears, browser
  <2> QED
    BY <1>1, <2>1, <2>2, ServerKeeps DEF ServerStep
<1>2. ASSUME NEW t \in Tabs, TabStep(t) PROVE PlaceInv'
  <2>1. CASE Quote(t)
    BY <2>1, FreesKeeps DEF Quote
  <2>2. CASE Press(t)
    BY <2>2, PressKeeps
  <2>3. CASE Hears(t) \/ AnswerLost(t)
    <3>1. tab[t].asks \in Requests
      BY <2>3 DEF Typed, Hears, AnswerLost, Waiting
    <3> QED
      BY <2>3, <3>1, FreesKeeps DEF Hears, AnswerLost
  <2> QED
    BY <1>2, <2>1, <2>2, <2>3 DEF TabStep
<1>3. CASE MenuChanges \/ UNCHANGED vars
  BY <1>3, FreesKeeps DEF MenuChanges, vars, browser
<1> QED
  BY <1>1, <1>2, <1>3, SagaStepKeeps DEF Next

\* The invariant, for every instance.
LEMMA PlaceHolds == Spec => [](Typed /\ PlaceInv)
<1>1. Init => Typed /\ PlaceInv
  BY TypeInit, PlaceInit, SameTypes
<1>2. Typed /\ PlaceInv /\ [Next]_vars => Typed' /\ PlaceInv'
  <2>1. Typed /\ [Next]_vars => Typed'
    BY TypeStep, SameTypes, PTL
  <2> QED
    BY <2>1, PlaceStep
<1> QED
  BY <1>1, <1>2, PTL DEF Spec

\* What an order charges is what its customer consented to (price_order's
\* expected total, ADR-0036), whatever the menus, the races and the retries.
THEOREM ConsentCorrect == Spec => []ChargedAsConsented
<1>1. PlaceInv => ChargedAsConsented
  BY DEF PlaceInv, SagaInv, ChargedAsConsented, Ordered
<1> QED
  BY <1>1, PlaceHolds, PTL

\* A page that hears "placed", "pending" or "replayed" hears it of its own cart
\* (idemKeyFor binds the key to the body, place() and Temporal to the order).
THEOREM AckCorrect == Spec => []AckIsThisCart
<1>1. PlaceInv => AckIsThisCart
  BY DEF PlaceInv, RequestInv, KeyInv, AckIsThisCart, Acks
<1> QED
  BY <1>1, PlaceHolds, PTL

-----------------------------------------------------------------------------
(* One page, one dinner: with a single checkout page, and unless something  *)
(* no retry is protected from has happened, the browser's keys start one    *)
(* workflow between them.                                                   *)

Started == {k \in WebKeys : saga[k].state # "none"}
\* The page was told, and has nothing left to order.
Served(t) == tab[t].lines = <<>> /\ tab[t].quote = NoTotal /\ ~Waiting(t)
\* The page waits for the workflow of its stored key, or had better.
Engaged(t) == Waiting(t) \/ (idem.key \in Started /\ ~Served(t))

DinnerInv(t) ==
    /\ \A r \in Requests : req[r].key \in WebKeys => tab[t].asks = r /\ req[r].key = idem.key
    /\ \A k \in Started : k = idem.key \/ Served(t)
    /\ \A j, k \in Started : j = k
    /\ Engaged(t) => PostedBody(t) = idem.hash /\ ~tab[t].confirm /\ idem.key # NoKey
    /\ \A r \in Requests : req[r].key \in Started => req[r].answer \notin Refusals
    /\ Waiting(t) => req[tab[t].asks].key = idem.key

LEMMA DinnerInit ==
    ASSUME NEW t, Tabs = {t}, Init
    PROVE  DinnerInv(t)
<1>1. \A r \in Requests : req[r].key = NoKey
  BY DEF Init, FreeRequest, Request
<1>2. NoKey \notin WebKeys
  BY PlacementConstants DEF NoKey
<1>3. Started = {} /\ ~Waiting(t)
  BY PlacementConstants DEF Init, Started, Saga, Keys, Waiting, Tab
<1> QED
  BY <1>1, <1>2, <1>3 DEF DinnerInv, Engaged

\* A request that starts nothing new and answers no started one with a refusal.
LEMMA DinnerRequest ==
    ASSUME NEW t, Tabs = {t}, Typed, Typed', PlaceInv, DinnerInv(t), NEW r \in Requests,
           UNCHANGED <<tab, idem>>, Started' = Started,
           \A s \in Requests \ {r} : req'[s] = req[s],
           req'[r].key \in WebKeys \/ tab[t].asks = r => req'[r].key = req[r].key,
           req'[r].key \in Started => req'[r].answer \notin Refusals
    PROVE  DinnerInv(t)'
<1>1. Engaged(t)' = Engaged(t) /\ Served(t)' = Served(t) /\ PostedBody(t)' = PostedBody(t)
  BY DEF Engaged, Served, Waiting, PostedBody, Body
<1>2. \A s \in Requests : req'[s].key \in WebKeys => req'[s].key = req[s].key
  OBVIOUS
<1>3. \A s \in Requests : req'[s].key \in Started' => req'[s].answer \notin Refusals
  BY DEF DinnerInv
<1>4. Waiting(t)' => req'[tab'[t].asks].key = idem'.key
  BY DEF DinnerInv, Waiting, Typed
<1> QED
  BY <1>1, <1>2, <1>3, <1>4 DEF DinnerInv

\* A workflow is started by the request the page waits for, under its key.
LEMMA DinnerStart ==
    ASSUME NEW t, Tabs = {t}, Typed, Typed', PlaceInv, DinnerInv(t), NEW r \in Requests,
           StartOrAttach(r) \/ StartFails(r)
    PROVE  DinnerInv(t)'
<1>1. PICK k : k = req[r].key
  OBVIOUS
<1>2. /\ UNCHANGED <<tab, idem>> /\ k \in Keys /\ req[r].answer = ""
      /\ \/ saga' = saga
         \/ saga[k].state = "none" /\ saga' = [saga EXCEPT ![k] = Saga("running", req[r].input, FALSE)]
  BY <1>1 DEF StartOrAttach, StartFails, browser, PlaceInv, RequestInv
<1>3. /\ \A s \in Requests \ {r} : req'[s] = req[s]
      /\ req'[r].key \in WebKeys \/ tab[t].asks = r => req'[r].key = k
      /\ req'[r].answer \notin Refusals
  <2>1. \/ Goto(r, "wait", NoInput, "") \/ Answer(r, "UNAVAILABLE") \/ Answer(r, "PLACED")
    BY DEF StartOrAttach, StartFails
  <2>2. CASE Goto(r, "wait", NoInput, "")
    <3>1. PICK n \in RequestType : /\ req' = [req EXCEPT ![r] = n]
                                   /\ n = Request("wait", req[r].key, req[r].body, NoInput, "", "")
      BY <2>2, SameTypes, GotoIs, ConstantsFit DEF PCs, Answers
    <3> QED
      BY <1>1, <3>1 DEF Typed, Request, Refusals
  <2>3. ASSUME NEW a \in {"UNAVAILABLE", "PLACED"}, Answer(r, a)
        PROVE  /\ \A s \in Requests \ {r} : req'[s] = req[s]
               /\ req'[r].key \in WebKeys \/ tab[t].asks = r => req'[r].key = k
               /\ req'[r].answer \notin Refusals
    <3>1. PICK n \in RequestType :
             /\ req' = [req EXCEPT ![r] = n]
             /\ \/ n = FreeRequest /\ tab[t].asks # r
                \/ n.pc = "answered" /\ n.key = req[r].key /\ n.body = req[r].body /\ n.answer = a
      <4>1. t \in Tabs /\ a \in Answers /\ TypeOK
        BY SameTypes DEF Answers
      <4> QED
        BY <2>3, <4>1, AnswerIs
    <3>2. FreeRequest.key \notin WebKeys /\ FreeRequest.answer = ""
      BY PlacementConstants DEF FreeRequest, Request, NoKey
    <3> QED
      BY <1>1, <2>3, <3>1, <3>2 DEF Typed, Refusals
  <2> QED
    BY <2>1, <2>2, <2>3
<1>4. CASE Started' = Started
  BY <1>1, <1>2, <1>3, <1>4, DinnerRequest
<1>5. CASE Started' # Started
  <2>1. /\ saga[k].state = "none" /\ k \in WebKeys /\ Started' = Started \cup {k} /\ k \notin Started
    <3>1. saga[k].state = "none" /\ saga' = [saga EXCEPT ![k] = Saga("running", req[r].input, FALSE)]
      BY <1>2, <1>5 DEF Started
    <3>2. \A j \in Keys : saga'[j].state = IF j = k THEN "running" ELSE saga[j].state
      BY <3>1 DEF Typed, Saga
    <3>3. WebKeys \subseteq Keys
      BY DEF Keys
    <3>4. Started' = {j \in WebKeys : j = k \/ saga[j].state # "none"}
      BY <3>2, <3>3 DEF Started
    <3> QED
      BY <1>5, <3>1, <3>4 DEF Started
  <2>2. tab[t].asks = r /\ k = idem.key /\ Waiting(t)
    BY <1>1, <2>1, PlacementConstants DEF DinnerInv, Waiting, NoRequest
  <2>3. /\ ~Served(t) /\ Started = {}
        /\ PostedBody(t) = idem.hash /\ ~tab[t].confirm /\ idem.key # NoKey
    BY <2>1, <2>2 DEF DinnerInv, Served, Engaged
  <2>4. PostedBody(t)' = PostedBody(t)
    BY <1>2 DEF PostedBody
  <2>5. \A s \in Requests : req'[s].key \in WebKeys => s = r /\ req'[s].key = k
    BY <1>1, <1>3, <2>2 DEF DinnerInv
  <2>6. req'[tab'[t].asks].key = idem'.key
    BY <1>2, <1>3, <2>2
  <2> QED
    BY <1>2, <1>3, <2>1, <2>2, <2>3, <2>4, <2>5, <2>6 DEF DinnerInv
<1> QED
  BY <1>4, <1>5

\* A request goes on, or is answered without refusing what was started.
GoesOn(r) == \E at \in PCs, i \in Inputs, w \in Answers : Goto(r, at, i, w)
Replies(r) == \E a \in Answers : Answer(r, a) /\ (req[r].key \in Started => a \notin Refusals)

LEMMA MovesOn ==
    ASSUME NEW r \in Requests
    PROVE  /\ \A at \in PCs, w \in Answers : Goto(r, at, NoInput, w) => GoesOn(r)
           /\ \A a \in Answers \ Refusals : Answer(r, a) => Replies(r)
BY ConstantsFit DEF GoesOn, Replies

\* The other steps of place(): a refusal stands only if Temporal knew of nobody.
LEMMA DinnerServer ==
    ASSUME NEW t, Tabs = {t}, Typed, Typed', PlaceInv, DinnerInv(t), ~excused', NEW r \in Requests,
           \/ ReadRow(r) \/ Resolve(r) \/ AwaitPlacement(r) \/ AwaitTimesOut(r)
           \/ AwaitBreaks(r) \/ AttachIfRunning(r)
    PROVE  DinnerInv(t)'
<1>1. UNCHANGED <<tab, idem, saga>>
  BY DEF ReadRow, Resolve, AwaitPlacement, AwaitTimesOut, AwaitBreaks, AttachIfRunning, browser
<1>2. Started' = Started
  BY <1>1 DEF Started
<1>3. /\ req[r] \in RequestType
      /\ req[r].body \in Bodies /\ req[r].why \in Answers
  BY DEF Typed, RequestType
<1>4. GoesOn(r) \/ Replies(r)
  <2>1. CASE ReadRow(r)
    <3>1. \/ Goto(r, "resolve", NoInput, "") \/ Answer(r, "REPLAYED") \/ Answer(r, "KEY_REUSE")
      BY <2>1 DEF ReadRow
    <3> QED
      BY <3>1, MovesOn DEF PCs, Answers, Refusals
  <2>2. CASE Resolve(r)
    <3>1. PICK q : q = price_order(menu, req[r].body.lines, req[r].body.expected)
      OBVIOUS
    <3>2. q.ok => PlacementInput(req[r].body, q.total) \in Inputs
      BY <1>3, <3>1, PriceIs DEF Typed, Bodies, PlacementInput, Inputs
    <3>3. ~q.ok => q.why \in Answers
      BY <1>3, <3>1, PriceIs DEF Typed, Bodies, Answers
    <3>4. \/ \E w \in Answers : Goto(r, "probe", NoInput, w)
          \/ Answer(r, "UNAVAILABLE")
          \/ q.ok /\ Goto(r, "start", PlacementInput(req[r].body, q.total), "")
      BY <2>2, <3>1, <3>3 DEF Resolve, Addresses, Snapshots, Answers, Refusals
    <3>5. CASE q.ok /\ Goto(r, "start", PlacementInput(req[r].body, q.total), "")
      BY <3>2, <3>5 DEF GoesOn, PCs, Answers
    <3>6. CASE ~(q.ok /\ Goto(r, "start", PlacementInput(req[r].body, q.total), ""))
      BY <3>4, <3>6, MovesOn DEF PCs, Answers, Refusals
    <3> QED
      BY <3>5, <3>6
  <2>3. CASE AwaitPlacement(r) \/ AwaitTimesOut(r)
    <3>1. Answer(r, "PLACED") \/ Answer(r, "PENDING")
      BY <2>3 DEF AwaitPlacement, AwaitTimesOut
    <3> QED
      BY <3>1, MovesOn DEF Answers, Refusals
  <2>4. CASE AttachIfRunning(r)
    <3>1. PICK found \in Attach(req[r].key) :
            IF found = "running" THEN Goto(r, "wait", NoInput, req[r].why) /\ UNCHANGED excused
            ELSE Answer(r, req[r].why) /\ excused' = (excused \/ found # "none")
      BY <2>4 DEF AttachIfRunning
    <3>2. CASE found = "running"
      BY <1>3, <3>1, <3>2, MovesOn DEF PCs
    <3>3. CASE found # "running"
      <4>1. found = "none" /\ Answer(r, req[r].why)
        BY <3>1, <3>3
      <4>2. req[r].key \notin Started
        BY <4>1 DEF Attach, Started
      <4> QED
        BY <1>3, <4>1, <4>2 DEF Replies
    <3> QED
      BY <3>2, <3>3
  <2>5. CASE AwaitBreaks(r)
    <3>1. Answer(r, "UNAVAILABLE")
      BY <2>5 DEF AwaitBreaks
    <3> QED
      BY <3>1, MovesOn DEF Answers, Refusals
  <2> QED
    BY <2>1, <2>2, <2>3, <2>4, <2>5
<1>5. CASE GoesOn(r)
  <2>1. PICK at \in PCs, i \in Inputs, w \in Answers : Goto(r, at, i, w)
    BY <1>5 DEF GoesOn
  <2>2. PICK n \in RequestType : /\ req' = [req EXCEPT ![r] = n]
                                 /\ n = Request(at, req[r].key, req[r].body, i, w, "")
    BY <2>1, SameTypes, GotoIs, ConstantsFit
  <2>3. req'[r].key = req[r].key /\ req'[r].answer = ""
    BY <2>2 DEF Typed, Request
  <2>4. \A s \in Requests \ {r} : req'[s] = req[s]
    BY <2>2 DEF Typed
  <2>5. req'[r].answer \notin Refusals
    BY <2>3 DEF Refusals
  <2> QED
    BY <1>1, <1>2, <2>3, <2>4, <2>5, DinnerRequest
<1>6. CASE Replies(r)
  <2>1. PICK a \in Answers : Answer(r, a) /\ (req[r].key \in Started => a \notin Refusals)
    BY <1>6 DEF Replies
  <2>2. PICK n \in RequestType :
           /\ req' = [req EXCEPT ![r] = n]
           /\ \/ n = FreeRequest /\ tab[t].asks # r
              \/ n.pc = "answered" /\ n.key = req[r].key /\ n.body = req[r].body /\ n.answer = a
    BY <2>1, SameTypes, AnswerIs
  <2>3. req'[r] = n /\ \A s \in Requests \ {r} : req'[s] = req[s]
    BY <2>2 DEF Typed
  <2>4. FreeRequest.key \notin WebKeys /\ FreeRequest.key \notin Started
    BY PlacementConstants DEF FreeRequest, Request, NoKey, Started
  <2>5. n.key \in WebKeys \/ tab[t].asks = r => n.key = req[r].key
    BY <2>2, <2>4
  <2>6. n.key \in Started => n.answer \notin Refusals
    BY <2>1, <2>2, <2>4
  <2> QED
    BY <1>1, <1>2, <2>3, <2>5, <2>6, DinnerRequest
<1> QED
  BY <1>4, <1>5, <1>6

\* Callers with keys of their own, and the workflows that go on, are no concern
\* of the page's.
LEMMA DinnerOthers ==
    ASSUME NEW t, Tabs = {t}, Typed, Typed', PlaceInv, DinnerInv(t),
           \/ \E r \in Requests : ApiPost(r) \/ ApiHears(r)
           \/ \E k \in Keys : SagaStep(k)
           \/ MenuChanges \/ UNCHANGED vars
    PROVE  DinnerInv(t)'
<1>1. UNCHANGED <<tab, idem>>
  BY DEF ApiPost, ApiHears, SagaStep, CreateOrder, ReportPlaced, SagaEnds, Terminate, MenuChanges,
     vars, browser
<1>2. Started' = Started
  <2>1. CASE UNCHANGED saga
    BY <2>1 DEF Started
  <2>2. CASE \E k \in Keys : SagaStep(k)
    <3>1. PICK k \in Keys : SagaStep(k)
      BY <2>2
    <3>2. /\ saga[k].state # "none" /\ saga'[k].state # "none"
          /\ \A j \in Keys : j # k => saga'[j] = saga[j]
      BY <3>1 DEF Typed, SagaStep, CreateOrder, ReportPlaced, SagaEnds, Terminate, Saga
    <3>3. \A j \in WebKeys : saga'[j].state = "none" <=> saga[j].state = "none"
      BY <3>2 DEF Keys
    <3> QED
      BY <3>3 DEF Started
  <2> QED
    BY <2>1, <2>2 DEF ApiPost, ApiHears, MenuChanges, vars
<1>3. \/ req' = req
      \/ \E r \in Requests : /\ \A s \in Requests \ {r} : req'[s] = req[s]
                             /\ req'[r].key \notin WebKeys /\ tab[t].asks # r
  <2>0. ASSUME NEW r \in Requests, req[r].key \in ApiKeys \cup {NoKey} PROVE tab[t].asks # r
    <3>1. tab[t].asks = r => Waiting(t)
      BY PlacementConstants DEF Waiting, NoRequest
    <3>2. Waiting(t) => req[tab[t].asks].key = idem.key /\ idem.key # NoKey
      BY DEF DinnerInv, Engaged
    <3>3. idem.key \in WebKeys \cup {NoKey} /\ WebKeys \cap ApiKeys = {}
      BY PlacementConstants DEF PlaceInv, KeyInv
    <3> QED
      BY <2>0, <3>1, <3>2, <3>3
  <2>1. ASSUME NEW r \in Requests, ApiPost(r)
        PROVE  /\ \A s \in Requests \ {r} : req'[s] = req[s]
               /\ req'[r].key \notin WebKeys /\ tab[t].asks # r
    <3>0. tab[t].asks # r
      BY <2>0, <2>1 DEF ApiPost, PlaceInv, RequestInv
    <3>1. PICK k \in ApiKeys, c \in Carts, m \in Menus :
             req' = [req EXCEPT ![r] =
               Request("row", k, Body(c, price_order(m, c, NoTotal).total), NoInput, "", "")]
      BY <2>1 DEF ApiPost
    <3>2. req'[r].key = k /\ \A s \in Requests \ {r} : req'[s] = req[s]
      BY <3>1 DEF Typed, Request
    <3> QED
      BY <3>0, <3>2, PlacementConstants
  <2>2. ASSUME NEW r \in Requests, ApiHears(r)
        PROVE  /\ \A s \in Requests \ {r} : req'[s] = req[s]
               /\ req'[r].key \notin WebKeys /\ tab[t].asks # r
    <3>0. tab[t].asks # r
      BY <2>0, <2>2 DEF ApiHears
    <3>1. req'[r] = FreeRequest /\ \A s \in Requests \ {r} : req'[s] = req[s]
      BY <2>2 DEF Typed, ApiHears
    <3>2. FreeRequest.key = NoKey
      BY DEF FreeRequest, Request
    <3>3. NoKey \notin WebKeys
      BY PlacementConstants DEF NoKey
    <3> QED
      BY <3>0, <3>1, <3>2, <3>3
  <2> QED
    BY <2>1, <2>2 DEF SagaStep, CreateOrder, ReportPlaced, SagaEnds, Terminate, MenuChanges, vars
<1>4. CASE req' = req
  BY <1>1, <1>2, <1>4 DEF DinnerInv, Engaged, Served, Waiting, PostedBody
<1>5. ASSUME NEW r \in Requests, \A s \in Requests \ {r} : req'[s] = req[s],
             req'[r].key \notin WebKeys, tab[t].asks # r
      PROVE  DinnerInv(t)'
  <2>1. req'[r].key \notin Started
    BY <1>5 DEF Started
  <2> QED
    BY <1>1, <1>2, <1>5, <2>1, DinnerRequest
<1> QED
  BY <1>3, <1>4, <1>5

\* The page itself: a quote that moves under a stored key is excused unless the
\* page was just refused, and an answer lost always is.
LEMMA DinnerPage ==
    ASSUME NEW t, Tabs = {t}, Typed, Typed', PlaceInv, DinnerInv(t), ~excused', TabStep(t)
    PROVE  DinnerInv(t)'
<1>1. UNCHANGED saga /\ Started' = Started
  BY DEF TabStep, Quote, Press, Hears, AnswerLost, Started
<1>2. t \in Tabs /\ NoRequest \notin Requests
  BY PlacementConstants DEF NoRequest
<1>3. NoKey \notin WebKeys /\ NoKey \notin Started
  BY PlacementConstants DEF NoKey, Started
<1>4. CASE Quote(t)
  <2>1. UNCHANGED <<req, idem>> /\ (idem = NoIdem \/ tab[t].confirm)
    BY <1>4 DEF Quote
  <2>2. PICK q : tab' = [tab EXCEPT ![t] = Tab(@.lines, q, @.asks, FALSE)]
    BY <1>4 DEF Quote
  <2>3. tab'[t].asks = tab[t].asks /\ ~Served(t)
    BY <1>2, <1>4, <2>2 DEF Typed, Tab, Quote, Served
  <2>4. idem.key = NoKey \/ tab[t].confirm
    BY <2>1 DEF NoIdem
  <2>5. ~Engaged(t)
    BY <2>1, <2>4 DEF DinnerInv
  <2>6. ~Engaged(t)'
    BY <1>1, <2>1, <2>3, <2>5 DEF Engaged, Waiting
  <2>7. \A k \in Started : FALSE
    BY <2>3, <2>5 DEF DinnerInv, Engaged
  <2> QED
    BY <1>1, <2>1, <2>3, <2>6, <2>7 DEF DinnerInv, Engaged
<1>5. CASE Press(t)
  <2>1. PICK b : b = PostedBody(t)
    OBVIOUS
  <2>2. PICK r \in Requests, k \in idemKeyFor(b) :
          /\ req' = [req EXCEPT ![r] = Request("row", k, b, NoInput, "", "")]
          /\ tab' = [tab EXCEPT ![t] = Tab(@.lines, @.quote, r, FALSE)]
          /\ idem' = [hash |-> b, key |-> k]
    BY <1>5, <2>1 DEF Press
  <2>3. /\ tab'[t].asks = r /\ ~tab'[t].confirm /\ PostedBody(t)' = b
        /\ idem'.key = k /\ idem'.hash = b
    BY <1>2, <2>1, <2>2 DEF Typed, Tab, PostedBody
  <2>4. ~Waiting(t) /\ b.expected # NoTotal /\ ~Served(t)
    BY <1>5, <2>1 DEF Press, PostedBody, Body, Served
  <2>5. k \in WebKeys /\ (idem.key \in Started => k = idem.key)
    <3>1. idem.key \in Started => b = idem.hash
      BY <2>1, <2>4 DEF DinnerInv, Engaged
    <3>2. idem.hash = b => idem.key # NoKey
      BY <2>4 DEF PlaceInv, KeyInv
    <3> QED
      BY <2>2, <3>1, <3>2 DEF idemKeyFor, PlaceInv, KeyInv
  <2>6. \A j \in Started : j = k
    BY <2>4, <2>5 DEF DinnerInv
  <2>7. \A s \in Requests : req[s].key \notin WebKeys
    BY <1>2, <2>4 DEF DinnerInv, Waiting
  <2>8. \A s \in Requests : req'[s].key \in WebKeys => s = r /\ req'[s].key = k /\ req'[s].answer = ""
    BY <2>2, <2>7 DEF Typed, Request
  <2>9. idem'.key # NoKey /\ req'[r].key = k
    BY <1>3, <2>2, <2>3, <2>5 DEF Typed, Request
  <2> QED
    BY <1>1, <2>3, <2>6, <2>8, <2>9 DEF DinnerInv, Started, Refusals
<1>6. CASE Hears(t)
  <2>1. PICK r, a : r = tab[t].asks /\ a = req[r].answer
    OBVIOUS
  <2>2. r \in Requests /\ Waiting(t)
    BY <1>6, <2>1 DEF Typed, Hears, Waiting
  <2>3. req' = [req EXCEPT ![r] = FreeRequest] /\ FreeRequest.key = NoKey
    BY <1>6, <2>1 DEF Hears, FreeRequest, Request
  <2>4. \A s \in Requests : req'[s].key \notin WebKeys
    BY <1>3, <2>1, <2>2, <2>3 DEF Typed, DinnerInv
  <2>5. CASE a \in {"PLACED", "PENDING", "REPLAYED"}
    <3>1. tab' = [tab EXCEPT ![t] = Tab(<<>>, NoTotal, NoRequest, FALSE)] /\ idem' = NoIdem
      BY <1>6, <2>1, <2>5 DEF Hears
    <3>2. Served(t)'
      BY <1>2, <3>1 DEF Typed, Tab, Served, Waiting
    <3>3. ~Engaged(t)'
      BY <3>2 DEF Engaged, Served
    <3> QED
      BY <1>1, <2>4, <3>2, <3>3 DEF DinnerInv, Started, Engaged
  <2>6. CASE a \notin {"PLACED", "PENDING", "REPLAYED"}
    <3>1. /\ tab' = [tab EXCEPT ![t] = Tab(@.lines, @.quote, NoRequest, a = "PRICE_CHANGED")]
          /\ idem' = idem
      BY <1>6, <2>1, <2>6 DEF Hears
    <3>2. /\ PostedBody(t)' = PostedBody(t) /\ ~Waiting(t)' /\ tab'[t].confirm = (a = "PRICE_CHANGED")
      BY <1>2, <3>1 DEF Typed, Tab, PostedBody, Waiting
    <3>3. Engaged(t) /\ ~Served(t)
      BY <2>2 DEF Engaged, Served
    <3>4. \A k \in Started : k = idem.key
      BY <3>3 DEF DinnerInv
    <3>5. Engaged(t)' => idem.key \in Started
      BY <1>1, <3>1, <3>2 DEF Engaged
    <3>6. idem.key \in Started => a # "PRICE_CHANGED"
      <4>1. req[r].key = idem.key
        BY <2>1, <2>2 DEF DinnerInv
      <4> QED
        BY <2>1, <2>2, <4>1 DEF DinnerInv, Refusals
    <3> QED
      BY <1>1, <2>4, <3>1, <3>2, <3>3, <3>4, <3>5, <3>6 DEF DinnerInv, Started
  <2> QED
    BY <2>5, <2>6
<1>7. CASE AnswerLost(t)
  BY <1>7 DEF AnswerLost
<1> QED
  BY <1>4, <1>5, <1>6, <1>7 DEF TabStep

\* Once the page is excused, it stays so.
LEMMA DinnerStep ==
    ASSUME NEW t, Tabs = {t}, Typed, Typed', PlaceInv, ~excused => DinnerInv(t), [Next]_vars
    PROVE  (~excused => DinnerInv(t))'
<1> SUFFICES ASSUME ~excused' PROVE DinnerInv(t)'
  OBVIOUS
<1>1. ~excused
  BY DEF Next, ServerStep, SagaStep, TabStep, ReadRow, Resolve, StartOrAttach, StartFails,
     AwaitPlacement, AwaitTimesOut, AwaitBreaks, AttachIfRunning, ApiPost, ApiHears, CreateOrder, ReportPlaced,
     SagaEnds, Terminate, Quote, Press, Hears, AnswerLost, MenuChanges, vars
<1>2. DinnerInv(t)
  BY <1>1
<1>3. CASE \E r \in Requests : ServerStep(r)
  BY <1>2, <1>3, DinnerStart, DinnerServer, DinnerOthers DEF ServerStep
<1>4. CASE \E s \in Tabs : TabStep(s)
  BY <1>2, <1>4, DinnerPage
<1>5. CASE (\E k \in Keys : SagaStep(k)) \/ MenuChanges \/ UNCHANGED vars
  BY <1>2, <1>5, DinnerOthers
<1> QED
  BY <1>3, <1>4, <1>5 DEF Next

\* With one page whose cart is not edited, a second live order of the browser's
\* takes a lost answer, a quote that moved under a stored key, or a probe that
\* Temporal did not answer or that found the first order finished.
THEOREM DinnerCorrect ==
    ASSUME NEW CONSTANT t, Tabs = {t}
    PROVE  Spec => []OneDinner
<1>1. Init => (~excused => DinnerInv(t))
  BY DinnerInit
<1>2. /\ Typed /\ Typed' /\ PlaceInv /\ (~excused => DinnerInv(t)) /\ [Next]_vars
      => (~excused => DinnerInv(t))'
  BY DinnerStep
<1>3. PlaceInv /\ (~excused => DinnerInv(t)) => OneDinner
  <2> SUFFICES ASSUME PlaceInv, ~excused, DinnerInv(t)
               PROVE  Cardinality({k \in Ordered \cap WebKeys : rows[k].status # "CANCELLED"}) <= 1
    BY DEF OneDinner
  <2>1. PICK S : S = {k \in Ordered \cap WebKeys : rows[k].status # "CANCELLED"}
    OBVIOUS
  <2>2. \A j, k \in S : j = k
    BY <2>1 DEF PlaceInv, SagaInv, DinnerInv, Started, Ordered
  <2>3. CASE S = {}
    BY <2>1, <2>3, FS_EmptySet
  <2>4. CASE S # {}
    <3>1. PICK k \in S : S = {k}
      BY <2>2, <2>4
    <3> QED
      BY <2>1, <3>1, FS_Singleton
  <2> QED
    BY <2>3, <2>4
<1> QED
  BY <1>1, <1>2, <1>3, PlaceHolds, PTL DEF Spec

-----------------------------------------------------------------------------
(* The catalog: what holds of its rows, transactions and events.           *)

CatKinds == {"add_category", "update_category", "delete_category"}
ItemKinds == {"add_item", "toggle_item", "move_item", "delete_item"}
ShopKinds == {"onboard", "create_branch", "rename", "status", "override", "publish", "republish"}
Statuses == {"open", "paused", NoOne}

\* Rows keep their shapes; owners are there; a branch has its brand.
RowsOK(d) ==
    /\ d = Db(d.shops, d.cats, d.items, d.overrides)
    /\ d.shops \in [Shops -> [name : Names \cup {NoOne}, status : Statuses]]
    /\ d.cats \in [Cats -> Shops \cup {NoOne}]
    /\ d.items \in [Items -> [owner : Shops \cup {NoOne}, cat : Cats \cup {NoOne}, available : BOOLEAN]]
    /\ d.overrides \subseteq Branches \X Items
    /\ \A s \in Shops : Exists(d, s) => d.shops[s].name \in Names
    /\ \A c \in Cats : d.cats[c] # NoOne => Exists(d, d.cats[c])
    /\ \A i \in Items : d.items[i].owner # NoOne => Exists(d, d.items[i].owner)
    /\ \A b \in Branches : Exists(d, b) => Exists(d, Brand)

\* An item hangs under a category its owner can see.
Filed(d) ==
    \A i \in Items : d.items[i].owner # NoOne =>
        d.items[i].cat \in Cats /\ d.cats[d.items[i].cat] \in MenuScope(d.items[i].owner)

\* What an operation that was let in names is there, or is its own to insert.
OpOK(d, o) ==
    /\ o = OpOn(o.kind, o.shop, o.id, o.val, o.rows)
    /\ o.kind \in ShopKinds \cup CatKinds \cup ItemKinds
    /\ o.shop \in Shops
    /\ o.kind \notin {"onboard", "create_branch"} => Exists(d, o.shop)
    /\ o.kind \in {"onboard", "rename"} => o.shop = Brand
    /\ o.kind \in {"create_branch", "status", "override"} => o.shop \in Branches
    /\ o.kind \in {"onboard", "create_branch", "rename"} => o.val \in Names
    /\ o.kind = "create_branch" => Exists(d, Brand)
    /\ o.kind = "status" => o.val \in {"open", "paused"}
    /\ o.rows \subseteq {s \in Shops : Exists(d, s)}
    /\ o.kind = "override" => o.id \in Items
    /\ o.kind \in CatKinds => o.id \in Cats /\ d.cats[o.id] \in {o.shop, NoOne}
    /\ o.kind = "add_category" => d.cats[o.id] = NoOne
    /\ o.kind \in ItemKinds => o.id \in Items /\ d.items[o.id].owner \in {o.shop, NoOne}
    /\ o.kind = "add_item" => d.items[o.id].owner = NoOne
    /\ o.kind \in {"add_item", "move_item"} =>
          o.val \in Cats /\ d.cats[o.val] \in MenuScope(o.shop) \cup {NoOne}

\* ... and still is when its transaction has written, by the locks.
OpenOK(d, o) ==
    /\ o.kind \in {"toggle_item", "move_item"} => d.items[o.id].owner = o.shop
    /\ o.kind \in {"add_item", "move_item"} => d.cats[o.val] # NoOne
    /\ o.kind = "delete_category" => \A i \in Items : d.items[i].cat # o.id
    /\ o.kind = "onboard" => ~Exists(d, Brand)

\* What a transaction that has written has staged, and has yet to.
BegunTx(x) == x.pc \in {"write", "snap", "touch", "commit"}
OpenTx(x) == x.pc \in {"snap", "touch", "commit"}
Queued(x, b) == x.pc # "commit" /\ \E k \in DOMAIN x.todo : x.todo[k] = b
Fanned(d, x) ==
    \/ x.pc = "touch" /\ x.todo = <<Brand>>
    \/ /\ \A k \in DOMAIN x.todo : x.todo[k] \in Branches
       /\ \A b \in get_branches(Apply(d, x.op)) : x.staged[b] # NoDoc \/ Queued(x, b)
Staging(d, x) ==
    /\ DOMAIN x.staged = Shops
    /\ x.todo \in Seq(Shops)
    /\ \A k \in DOMAIN x.todo : Exists(Apply(d, x.op), x.todo[k])
    /\ x.pc \in {"snap", "touch"} => x.todo # <<>>
    /\ x.pc = "touch" => x.staged[Head(x.todo)] # NoDoc
    /\ \/ x.pc = "snap" /\ x.staged = Nothing /\ x.todo = <<x.op.shop>> /\ x.dirty = FALSE
       \/ x.staged[x.op.shop] # NoDoc
    /\ x.op.shop # Brand /\ x.pc # "commit" => x.todo = <<x.op.shop>>
    /\ x.dirty = FALSE =>
         /\ \A s \in Shops : x.staged[s] # NoDoc =>
               x.staged[s] = Doc(Apply(d, x.op), s) /\ Exists(Apply(d, x.op), s)
         /\ x.op.shop = Brand /\ x.staged[Brand] # NoDoc => Fanned(d, x)

Holds(x) ==
    /\ x.op.kind \in {"toggle_item", "move_item", "delete_item"} => <<"menu_items", x.op.id>> \in x.held
    /\ x.op.kind = "onboard" => <<"label", Brand>> \in x.held

TxOK(d, x) ==
    /\ x = Tx(x.pc, x.op, x.todo, x.staged, x.held, x.dirty)
    /\ x.dirty \in BOOLEAN
    /\ BegunTx(x) => OpOK(d, x.op)
    /\ OpenTx(x) => OpenOK(d, x.op) /\ Staging(d, x) /\ Holds(x)
    /\ ~BegunTx(x) => x.op = NoOp
    /\ ~OpenTx(x) => x.staged = Nothing /\ x.held = {} /\ x.dirty = FALSE

\* Nobody else is at an id that is being inserted; a row has one holder, and
\* no row is deleted under one that refers to it.
Apart(x, y) ==
    /\ x.op.kind = "add_category" =>
          /\ y.op.kind \in CatKinds => y.op.id # x.op.id
          /\ y.op.kind \in {"add_item", "move_item"} => y.op.val # x.op.id
    /\ x.op.kind = "add_item" /\ y.op.kind \in ItemKinds => y.op.id # x.op.id
    /\ x.held \cap y.held = {}
    /\ OpenTx(x) /\ OpenTx(y) => Deleted(x.op) \cap Referenced(y.op) = {}

Told(d, t, r) ==
    \A s \in Shops : s \notin r /\ t[s] # NoDoc => Exists(d, s) /\ t[s] = Doc(d, s)

SameName(d) == \A b \in get_branches(d) : d.shops[b].name = d.shops[Brand].name
Knows(d, x) ==
    /\ OpenTx(x) /\ x.op.kind = "rename" => x.op.rows = {Brand} \cup get_branches(d)
    /\ x.op.kind = "create_branch" => x.op.val = d.shops[Brand].name

CatInv ==
    /\ DOMAIN tx = Editors /\ DOMAIN topic = Shops /\ raced \subseteq Shops /\ torn \in BOOLEAN
    /\ RowsOK(db) /\ Filed(db)
    /\ \A e \in Editors : TxOK(db, tx[e])
    /\ \A e, f \in Editors : e # f => Apart(tx[e], tx[f])
    /\ Told(db, topic, raced)
    /\ torn = FALSE => SameName(db) /\ \A e \in Editors : Knows(db, tx[e])

-----------------------------------------------------------------------------
(* The rows after an operation.                                            *)

\* SetToSeq lists every element of a finite set.
LEMMA ListedOnce ==
    ASSUME NEW S, IsFiniteSet(S)
    PROVE  /\ SetToSeq(S) \in Seq(S)
           /\ \A x \in S : \E k \in DOMAIN SetToSeq(S) : SetToSeq(S)[k] = x
           /\ SetToSeq(S) = <<>> => S = {}
<1> DEFINE n == Cardinality(S)
           q == SetToSeq(S)
<1>1. n \in Nat /\ \E f \in [1..n -> S] : IsInjective(f) /\ f \in Surjection(1..n, S)
  BY FS_CardinalityType DEF ExistsBijection, Bijection, Injection, Surjection
<1>2. q \in [1..n -> S] /\ IsInjective(q)
  BY <1>1 DEF SetToSeq
<1>3. q \in Seq(S)
  BY <1>1, <1>2
<1>4. IsFiniteSet(1..n) /\ Cardinality(1..n) = n
  BY <1>1, FS_Interval
<1>5. q \in Surjection(1..n, S)
  BY <1>2, <1>4, FS_Injection, Zenon DEF Injection
<1>6. \A x \in S : \E k \in DOMAIN q : q[k] = x
  BY <1>2, <1>5 DEF Surjection
<1>7. q = <<>> => S = {}
  BY <1>6
<1> QED BY <1>3, <1>6, <1>7

Born(o) == IF o.kind = "onboard" THEN {Brand, FirstBranch}
           ELSE IF o.kind = "create_branch" THEN {o.shop} ELSE {}

\* What Apply makes of the restaurants, and that it leaves four tables.
LEMMA ShopTable ==
    ASSUME NEW d, RowsOK(d), NEW o, OpOK(d, o)
    PROVE  LET a == Apply(d, o)
           IN  /\ a = Db(a.shops, a.cats, a.items, a.overrides)
               /\ o.kind = "onboard" => a.shops = OnboardRows(d, o).shops
               /\ o.kind = "create_branch" => a.shops = BranchRow(d, o).shops
               /\ o.kind = "rename" => a.shops = RenameRows(d, o).shops
               /\ o.kind = "status" => a.shops = StatusRow(d, o).shops
               /\ o.kind \notin {"onboard", "create_branch", "rename", "status"} => a.shops = d.shops
<1> USE DEF Apply, OnboardRows, BranchRow, RenameRows, StatusRow, InsertCategory, DeleteCategoryRow,
            InsertItem, ToggleItem, MoveItem, DeleteItemRow, OverrideRow, WithShops, WithCat, WithItem, Db
<1>1. d = [shops |-> d.shops, cats |-> d.cats, items |-> d.items, overrides |-> d.overrides]
  BY DEF RowsOK
<1>2. CASE o.kind \in {"onboard", "create_branch", "rename", "status", "override"}
  BY <1>1, <1>2 DEF ItemKinds
<1>3. CASE o.kind \in CatKinds
  BY <1>1, <1>3 DEF CatKinds, ItemKinds
<1>4. CASE o.kind \in ItemKinds
  BY <1>1, <1>4 DEF ItemKinds
<1>5. CASE o.kind \in {"publish", "republish"}
  BY <1>1, <1>5 DEF ItemKinds
<1> QED BY <1>2, <1>3, <1>4, <1>5 DEF OpOK, ShopKinds

\* ... of the categories and the overrides.
LEMMA CategoryTable ==
    ASSUME NEW d, RowsOK(d), NEW o, OpOK(d, o)
    PROVE  LET a == Apply(d, o)
           IN  /\ o.kind = "add_category" => a.cats = [d.cats EXCEPT ![o.id] = o.shop]
               /\ o.kind = "delete_category" => a.cats = [d.cats EXCEPT ![o.id] = NoOne]
               /\ o.kind \notin {"add_category", "delete_category"} => a.cats = d.cats
               /\ o.kind = "override" => a.overrides = OverrideRow(d, o).overrides
               /\ o.kind # "override" => a.overrides = d.overrides
<1> USE DEF Apply, OnboardRows, BranchRow, RenameRows, StatusRow, InsertCategory, DeleteCategoryRow,
            InsertItem, ToggleItem, MoveItem, DeleteItemRow, OverrideRow, WithShops, WithCat, WithItem, Db
<1>1. d = [shops |-> d.shops, cats |-> d.cats, items |-> d.items, overrides |-> d.overrides]
  BY DEF RowsOK
<1>2. CASE o.kind \in {"onboard", "create_branch", "rename", "status", "override"}
  BY <1>1, <1>2 DEF ItemKinds
<1>3. CASE o.kind \in CatKinds
  BY <1>1, <1>3 DEF CatKinds, ItemKinds
<1>4. CASE o.kind \in ItemKinds
  BY <1>1, <1>4 DEF ItemKinds
<1>5. CASE o.kind \in {"publish", "republish"}
  BY <1>1, <1>5 DEF ItemKinds
<1> QED BY <1>2, <1>3, <1>4, <1>5 DEF OpOK, ShopKinds

\* ... of the items.
LEMMA ItemTable ==
    ASSUME NEW d, RowsOK(d), NEW o, OpOK(d, o)
    PROVE  LET a == Apply(d, o)
           IN  /\ o.kind = "add_item" => a.items = [d.items EXCEPT ![o.id] = ItemRow(o.shop, o.val, TRUE)]
               /\ o.kind = "toggle_item" => a.items = ToggleItem(d, o).items
               /\ o.kind = "move_item" => a.items = MoveItem(d, o).items
               /\ o.kind = "delete_item" => a.items = [d.items EXCEPT ![o.id] = NoItem]
               /\ o.kind \notin ItemKinds => a.items = d.items
<1> USE DEF Apply, OnboardRows, BranchRow, RenameRows, StatusRow, InsertCategory, DeleteCategoryRow,
            InsertItem, ToggleItem, MoveItem, DeleteItemRow, OverrideRow, WithShops, WithCat, WithItem, Db
<1>1. d = [shops |-> d.shops, cats |-> d.cats, items |-> d.items, overrides |-> d.overrides]
  BY DEF RowsOK
<1>2. CASE o.kind \in {"onboard", "create_branch", "rename", "status", "override"}
  BY <1>1, <1>2 DEF ItemKinds
<1>3. CASE o.kind \in CatKinds
  BY <1>1, <1>3 DEF CatKinds, ItemKinds
<1>4. CASE o.kind \in ItemKinds
  BY <1>1, <1>4 DEF ItemKinds
<1>5. CASE o.kind \in {"publish", "republish"}
  BY <1>1, <1>5 DEF ItemKinds
<1> QED BY <1>2, <1>3, <1>4, <1>5 DEF OpOK, ShopKinds

\* A shop row written is a shop row; nothing un-exists.
LEMMA ShopsAfter ==
    ASSUME NEW d, RowsOK(d), NEW o, OpOK(d, o)
    PROVE  /\ Apply(d, o).shops \in [Shops -> [name : Names \cup {NoOne}, status : Statuses]]
           /\ \A s \in Shops : Exists(Apply(d, o), s) <=> Exists(d, s) \/ s \in Born(o)
           /\ \A s \in Shops : Exists(Apply(d, o), s) => Apply(d, o).shops[s].name \in Names
           /\ \A s \in Shops : o.kind \notin {"onboard", "rename"} /\ s # o.shop =>
                 Apply(d, o).shops[s] = d.shops[s]
<1> DEFINE a == Apply(d, o)
<1> USE NoOneIsNobody, CatalogConstants, ShopTable DEF ShopRow, NoShop, Exists, Born, Statuses
<1>1. /\ d.shops \in [Shops -> [name : Names \cup {NoOne}, status : Statuses]]
      /\ \A s \in Shops : Exists(d, s) => d.shops[s].name \in Names
  BY DEF RowsOK
<1>2. CASE o.kind = "onboard"
  <2>1. a.shops = OnboardRows(d, o).shops
    BY <1>2
  <2>2. o.val \in Names
    BY <1>2 DEF OpOK
  <2> QED BY <1>1, <1>2, <2>1, <2>2 DEF OnboardRows, WithShops, Db, Shops
<1>3. CASE o.kind = "create_branch"
  <2>1. a.shops = BranchRow(d, o).shops
    BY <1>3
  <2>2. o.val \in Names /\ o.shop \in Shops
    BY <1>3 DEF OpOK
  <2> QED BY <1>1, <1>3, <2>1, <2>2 DEF BranchRow, WithShops, Db
<1>4. CASE o.kind = "rename"
  <2>1. a.shops = RenameRows(d, o).shops
    BY <1>4
  <2>2. o.val \in Names /\ \A s \in o.rows : Exists(d, s)
    BY <1>4 DEF OpOK
  <2> QED BY <1>1, <1>4, <2>1, <2>2 DEF RenameRows, WithShops, Db
<1>5. CASE o.kind = "status"
  <2>1. a.shops = StatusRow(d, o).shops
    BY <1>5
  <2>2. o.val \in {"open", "paused"} /\ o.shop \in Shops /\ Exists(d, o.shop)
    BY <1>5 DEF OpOK
  <2>3. a.shops = [d.shops EXCEPT ![o.shop] = ShopRow(d.shops[o.shop].name, o.val)]
    BY <2>1 DEF StatusRow, WithShops, Db
  <2>4. ShopRow(d.shops[o.shop].name, o.val) # NoShop
    BY <2>2 DEF NoOne
  <2>5. d.shops[o.shop].name \in Names
    BY <1>1, <2>2
  <2> QED BY <1>1, <1>5, <2>2, <2>3, <2>4, <2>5
<1>6. CASE o.kind \notin {"onboard", "create_branch", "rename", "status"}
  BY <1>1, <1>6
<1> QED BY <1>2, <1>3, <1>4, <1>5, <1>6

\* A category changes hands only at the id of a category operation.
LEMMA CatsAfter ==
    ASSUME NEW d, RowsOK(d), NEW o, OpOK(d, o)
    PROVE  /\ Apply(d, o).cats \in [Cats -> Shops \cup {NoOne}]
           /\ \A c \in Cats : Apply(d, o).cats[c] # d.cats[c] =>
                 /\ o.kind \in {"add_category", "delete_category"} /\ c = o.id
                 /\ o.kind = "add_category" => d.cats[c] = NoOne /\ Apply(d, o).cats[c] = o.shop
                 /\ o.kind = "delete_category" => Apply(d, o).cats[c] = NoOne
<1>1. d.cats \in [Cats -> Shops \cup {NoOne}]
  BY DEF RowsOK
<1>2. o.shop \in Shops /\ (o.kind \in CatKinds => o.id \in Cats) /\ (o.kind = "add_category" => d.cats[o.id] = NoOne)
  BY DEF OpOK
<1>3. CASE o.kind = "add_category"
  <2>1. Apply(d, o).cats = [d.cats EXCEPT ![o.id] = o.shop]
    BY <1>3, CategoryTable
  <2> QED BY <1>1, <1>2, <1>3, <2>1 DEF CatKinds
<1>4. CASE o.kind = "delete_category"
  <2>1. Apply(d, o).cats = [d.cats EXCEPT ![o.id] = NoOne]
    BY <1>4, CategoryTable
  <2> QED BY <1>1, <1>2, <1>4, <2>1 DEF CatKinds
<1>5. CASE o.kind \notin {"add_category", "delete_category"}
  BY <1>1, <1>5, CategoryTable
<1> QED BY <1>3, <1>4, <1>5

\* An item changes only at the id of an item operation, and stays with the
\* operation's restaurant or goes.
LEMMA ItemsAfter ==
    ASSUME NEW d, RowsOK(d), NEW o, OpOK(d, o), OpenOK(d, o)
    PROVE  LET a == Apply(d, o)
           IN  /\ a.items \in [Items -> [owner : Shops \cup {NoOne}, cat : Cats \cup {NoOne}, available : BOOLEAN]]
               /\ \A i \in Items : a.items[i] # d.items[i] => o.kind \in ItemKinds /\ i = o.id
               /\ o.kind \in {"add_item", "toggle_item", "move_item"} => a.items[o.id].owner = o.shop
               /\ o.kind \in {"add_item", "move_item"} => a.items[o.id].cat = o.val
               /\ o.kind = "toggle_item" => a.items[o.id].cat = d.items[o.id].cat
               /\ o.kind = "delete_item" => a.items[o.id] = NoItem
<1> DEFINE ItemRows == [owner : Shops \cup {NoOne}, cat : Cats \cup {NoOne}, available : BOOLEAN]
           a == Apply(d, o)
<1>1. d.items \in [Items -> ItemRows]
  BY DEF RowsOK
<1>2. /\ o.shop \in Shops
      /\ o.kind \in ItemKinds => o.id \in Items
      /\ o.kind \in {"add_item", "move_item"} => o.val \in Cats
  BY DEF OpOK
<1>3. CASE o.kind = "add_item"
  <2>1. a.items = [d.items EXCEPT ![o.id] = ItemRow(o.shop, o.val, TRUE)]
    BY <1>3, ItemTable
  <2>2. ItemRow(o.shop, o.val, TRUE) \in ItemRows
    BY <1>2, <1>3 DEF ItemRow
  <2> QED BY <1>1, <1>2, <1>3, <2>1, <2>2 DEF ItemKinds, ItemRow
<1>4. CASE o.kind = "toggle_item"
  <2> DEFINE r == ItemRow(o.shop, d.items[o.id].cat, ~d.items[o.id].available)
  <2>1. a.items = [d.items EXCEPT ![o.id] = r]
    BY <1>4, ItemTable DEF ToggleItem, WithItem, Db
  <2>2. r \in ItemRows
    BY <1>1, <1>2, <1>4 DEF ItemRow, ItemKinds
  <2> QED BY <1>1, <1>2, <1>4, <2>1, <2>2 DEF ItemKinds, ItemRow
<1>5. CASE o.kind = "move_item"
  <2> DEFINE r == ItemRow(o.shop, o.val, d.items[o.id].available)
  <2>1. a.items = [d.items EXCEPT ![o.id] = r]
    BY <1>5, ItemTable DEF MoveItem, WithItem, Db
  <2>2. r \in ItemRows
    BY <1>1, <1>2, <1>5 DEF ItemRow, ItemKinds
  <2> QED BY <1>1, <1>2, <1>5, <2>1, <2>2 DEF ItemKinds, ItemRow
<1>6. CASE o.kind = "delete_item"
  <2>1. a.items = [d.items EXCEPT ![o.id] = NoItem]
    BY <1>6, ItemTable
  <2>2. NoItem \in ItemRows
    BY DEF NoItem, ItemRow
  <2> QED BY <1>1, <1>2, <1>6, <2>1, <2>2 DEF ItemKinds
<1>7. CASE o.kind \notin ItemKinds
  BY <1>1, <1>7, ItemTable DEF ItemKinds
<1> QED BY <1>3, <1>4, <1>5, <1>6, <1>7 DEF ItemKinds

\* Overrides are of branches, and of the operation's own.
LEMMA OverridesAfter ==
    ASSUME NEW d, RowsOK(d), NEW o, OpOK(d, o)
    PROVE  /\ Apply(d, o).overrides \subseteq Branches \X Items
           /\ \A s \in Shops : o.kind # "override" \/ s # o.shop =>
                 OverrideIds(Apply(d, o), s) = OverrideIds(d, s)
<1>1. CASE o.kind = "override"
  <2>1. Apply(d, o).overrides \in {d.overrides \cup {<<o.shop, o.id>>}, d.overrides \ {<<o.shop, o.id>>}}
    BY <1>1, CategoryTable DEF OverrideRow, Db
  <2>2. o.shop \in Branches /\ o.id \in Items
    BY <1>1 DEF OpOK
  <2>3. d.overrides \subseteq Branches \X Items
    BY DEF RowsOK
  <2> QED BY <1>1, <2>1, <2>2, <2>3 DEF OverrideIds
<1>2. CASE o.kind # "override"
  BY <1>2, CategoryTable DEF RowsOK, OverrideIds
<1> QED BY <1>1, <1>2

LEMMA RowsAfter ==
    ASSUME NEW d, RowsOK(d), NEW o, OpOK(d, o), OpenOK(d, o)
    PROVE  RowsOK(Apply(d, o))
<1> DEFINE a == Apply(d, o)
<1>1. a = Db(a.shops, a.cats, a.items, a.overrides)
  BY ShopTable
<1>2. \A s \in Shops : Exists(d, s) => Exists(a, s)
  BY ShopsAfter
<1>3. \A c \in Cats : a.cats[c] # NoOne => Exists(a, a.cats[c])
  <2> SUFFICES ASSUME NEW c \in Cats, a.cats[c] # NoOne PROVE Exists(a, a.cats[c])
    OBVIOUS
  <2>1. CASE a.cats[c] = d.cats[c]
    BY <1>2, <2>1 DEF RowsOK
  <2>2. CASE a.cats[c] # d.cats[c]
    <3>1. o.kind = "add_category" /\ a.cats[c] = o.shop
      BY <2>2, CatsAfter
    <3> QED BY <1>2, <3>1 DEF OpOK
  <2> QED BY <2>1, <2>2
<1>4. \A i \in Items : a.items[i].owner # NoOne => Exists(a, a.items[i].owner)
  <2> SUFFICES ASSUME NEW i \in Items, a.items[i].owner # NoOne PROVE Exists(a, a.items[i].owner)
    OBVIOUS
  <2>1. CASE a.items[i] = d.items[i]
    BY <1>2, <2>1 DEF RowsOK
  <2>2. CASE a.items[i] # d.items[i]
    <3>1. o.kind \in ItemKinds /\ i = o.id /\ o.kind # "delete_item"
      BY <2>2, ItemsAfter DEF NoItem, ItemRow
    <3>2. a.items[i].owner = o.shop
      BY <3>1, ItemsAfter DEF ItemKinds
    <3>3. o.shop \in Shops /\ Exists(d, o.shop)
      BY <3>1 DEF OpOK, ItemKinds
    <3> QED BY <1>2, <3>2, <3>3
  <2> QED BY <2>1, <2>2
<1>5. \A b \in Branches : Exists(a, b) => Exists(a, Brand)
  <2>1. Exists(d, Brand) => Exists(a, Brand)
    BY <1>2 DEF Shops
  <2>2. o.kind = "create_branch" => Exists(d, Brand)
    BY DEF OpOK
  <2>3. \A b \in Branches : Exists(d, b) => Exists(d, Brand)
    BY DEF RowsOK
  <2>4. Branches \cup {Brand} = Shops
    BY DEF Shops
  <2> QED BY <2>1, <2>2, <2>3, <2>4, ShopsAfter DEF Born
<1> QED BY <1>1, <1>3, <1>4, <1>5, ShopsAfter, CatsAfter, ItemsAfter, OverridesAfter DEF RowsOK

LEMMA FiledAfter ==
    ASSUME NEW d, RowsOK(d), Filed(d), NEW o, OpOK(d, o), OpenOK(d, o)
    PROVE  Filed(Apply(d, o))
<1> DEFINE a == Apply(d, o)
<1> SUFFICES ASSUME NEW i \in Items, a.items[i].owner # NoOne
             PROVE  a.items[i].cat \in Cats /\ a.cats[a.items[i].cat] \in MenuScope(a.items[i].owner)
  BY DEF Filed
<1>1. a.items[i].cat \in Cats /\ d.cats[a.items[i].cat] \in MenuScope(a.items[i].owner)
  <2>1. CASE a.items[i] = d.items[i]
    BY <2>1 DEF Filed
  <2>2. CASE a.items[i] # d.items[i]
    <3>1. o.kind \in ItemKinds /\ i = o.id /\ o.kind # "delete_item"
      BY <2>2, ItemsAfter DEF NoItem, ItemRow
    <3>2. a.items[i].owner = o.shop
      BY <3>1, ItemsAfter DEF ItemKinds
    <3>3. CASE o.kind = "toggle_item"
      <4>1. a.items[i].cat = d.items[i].cat /\ d.items[i].owner = o.shop
        BY <3>1, <3>3, ItemsAfter DEF OpenOK
      <4> QED BY <3>2, <4>1 DEF Filed
    <3>4. CASE o.kind # "toggle_item"
      <4>1. o.kind \in {"add_item", "move_item"} /\ a.items[i].cat = o.val
        BY <3>1, <3>4, ItemsAfter DEF ItemKinds
      <4>2. o.val \in Cats /\ d.cats[o.val] \in MenuScope(o.shop)
        BY <4>1 DEF OpOK, OpenOK
      <4> QED BY <3>2, <4>1, <4>2
    <3> QED BY <3>3, <3>4
  <2> QED BY <2>1, <2>2
<1>2. d.cats[a.items[i].cat] # NoOne
  <2>1. a.items[i].owner \in Shops
    BY ItemsAfter
  <2> QED BY <1>1, <2>1, NoOneIsNobody DEF MenuScope, Shops
<1>3. a.cats[a.items[i].cat] = d.cats[a.items[i].cat]
  <2> SUFFICES ASSUME a.cats[a.items[i].cat] # d.cats[a.items[i].cat] PROVE FALSE
    OBVIOUS
  <2>1. o.kind = "delete_category" /\ a.items[i].cat = o.id
    BY <1>1, <1>2, CatsAfter
  <2>2. a.items[i] = d.items[i]
    BY <2>1, ItemsAfter DEF ItemKinds
  <2> QED BY <2>1, <2>2 DEF OpenOK
<1> QED BY <1>1, <1>3

\* An edit of a branch shows in no other restaurant's document.
LEMMA Confined ==
    ASSUME NEW d, RowsOK(d), Filed(d), NEW o, OpOK(d, o), OpenOK(d, o),
           NEW s \in Shops, o.shop \notin MenuScope(s)
    PROVE  Doc(Apply(d, o), s) = Doc(d, s)
<1> DEFINE a == Apply(d, o)
<1>1. MenuScope(s) \subseteq Shops /\ NoOne \notin MenuScope(s) /\ s # o.shop /\ o.shop # Brand
  BY NoOneIsNobody DEF MenuScope, Shops
<1>2. a.shops[s] = d.shops[s]
  <2>1. o.kind \notin {"onboard", "rename"}
    BY <1>1 DEF OpOK
  <2> QED BY <1>1, <2>1, ShopsAfter
<1>3. \A i \in Items : (a.items[i].owner \in MenuScope(s) \/ d.items[i].owner \in MenuScope(s)) =>
                        a.items[i] = d.items[i]
  <2> SUFFICES ASSUME NEW i \in Items, a.items[i] # d.items[i]
               PROVE  a.items[i].owner \notin MenuScope(s) /\ d.items[i].owner \notin MenuScope(s)
    OBVIOUS
  <2>1. o.kind \in ItemKinds /\ i = o.id
    BY ItemsAfter
  <2>2. d.items[i].owner \in {o.shop, NoOne}
    BY <2>1 DEF OpOK
  <2>3. a.items[i].owner \in {o.shop, NoOne}
    BY <2>1, ItemsAfter DEF ItemKinds, NoItem, ItemRow
  <2> QED BY <1>1, <2>2, <2>3
<1>4. \A c \in Cats : (a.cats[c] \in MenuScope(s) \/ d.cats[c] \in MenuScope(s)) => a.cats[c] = d.cats[c]
  <2> SUFFICES ASSUME NEW c \in Cats, a.cats[c] # d.cats[c]
               PROVE  a.cats[c] \notin MenuScope(s) /\ d.cats[c] \notin MenuScope(s)
    OBVIOUS
  <2>1. o.kind \in {"add_category", "delete_category"} /\ c = o.id
    BY CatsAfter
  <2>2. d.cats[c] \in {o.shop, NoOne}
    BY <2>1 DEF OpOK, CatKinds
  <2>3. a.cats[c] \in {o.shop, NoOne}
    BY <2>1, CatsAfter
  <2> QED BY <1>1, <2>2, <2>3
<1>5. \A i \in Items : d.items[i].owner \in MenuScope(s) => d.items[i].cat \in Cats
  BY <1>1 DEF Filed
<1>6. PricingRows(a, s) = PricingRows(d, s)
  BY <1>3 DEF PricingRows
<1>7. MenuRows(a, s) = MenuRows(d, s)
  BY <1>3, <1>4, <1>5, <1>6 DEF MenuRows, PricingRows, category_in_scope
<1>8. OverrideIds(a, s) = OverrideIds(d, s)
  BY <1>1, OverridesAfter
<1>9. \A i \in MenuRows(d, s) : a.items[i] = d.items[i]
  BY <1>3 DEF MenuRows, PricingRows
<1>10. MenuSnapshot(a, s) = MenuSnapshot(d, s)
  BY <1>7, <1>8, <1>9 DEF MenuSnapshot
<1> QED BY <1>2, <1>10 DEF Doc

LEMMA DocExists ==
    ASSUME NEW d, NEW s, Exists(d, s)
    PROVE  Doc(d, s) # NoDoc
BY DEF Exists, Doc, NoDoc

-----------------------------------------------------------------------------
(* What a commit leaves to the transactions that are still under way.      *)

\* What another operation names is still there.
LEMMA OpKept ==
    ASSUME NEW d, RowsOK(d), NEW x, NEW y, OpOK(d, x.op), OpenOK(d, x.op), OpOK(d, y.op),
           Apart(x, y), Apart(y, x)
    PROVE  OpOK(Apply(d, x.op), y.op)
<1> DEFINE a == Apply(d, x.op)
           o == x.op
           p == y.op
<1>1. \A s \in Shops : Exists(d, s) => Exists(a, s)
  BY ShopsAfter
<1>2. p.kind \notin {"onboard", "create_branch"} => Exists(a, p.shop)
  BY <1>1 DEF OpOK
<1>3. p.kind = "create_branch" => Exists(a, Brand)
  BY <1>1 DEF OpOK, Shops
<1>4. p.rows \subseteq {s \in Shops : Exists(a, s)}
  BY <1>1 DEF OpOK
<1>5. /\ p.kind \in CatKinds => a.cats[p.id] \in {p.shop, NoOne}
      /\ p.kind = "add_category" => a.cats[p.id] = NoOne
  <2> SUFFICES ASSUME p.kind \in CatKinds
               PROVE  a.cats[p.id] \in {p.shop, NoOne} /\ (p.kind = "add_category" => a.cats[p.id] = NoOne)
    BY DEF CatKinds
  <2>1. p.id \in Cats /\ d.cats[p.id] \in {p.shop, NoOne} /\ (p.kind = "add_category" => d.cats[p.id] = NoOne)
    BY DEF OpOK
  <2>2. ~(o.kind = "add_category" /\ o.id = p.id)
    BY DEF Apart
  <2> QED BY <2>1, <2>2, CatsAfter
<1>6. /\ p.kind \in ItemKinds => a.items[p.id].owner \in {p.shop, NoOne}
      /\ p.kind = "add_item" => a.items[p.id].owner = NoOne
  <2> SUFFICES ASSUME p.kind \in ItemKinds
               PROVE  a.items[p.id].owner \in {p.shop, NoOne} /\ (p.kind = "add_item" => a.items[p.id].owner = NoOne)
    BY DEF ItemKinds
  <2>1. p.id \in Items /\ d.items[p.id].owner \in {p.shop, NoOne} /\ (p.kind = "add_item" => d.items[p.id].owner = NoOne)
    BY DEF OpOK
  <2>2. CASE a.items[p.id] = d.items[p.id]
    BY <2>1, <2>2
  <2>3. CASE a.items[p.id] # d.items[p.id]
    <3>1. o.kind \in ItemKinds /\ o.id = p.id
      BY <2>1, <2>3, ItemsAfter
    <3>2. o.kind # "add_item" /\ p.kind # "add_item"
      BY <3>1 DEF Apart
    <3>3. CASE o.kind = "delete_item"
      BY <3>1, <3>2, <3>3, ItemsAfter DEF NoItem, ItemRow
    <3>4. CASE o.kind \in {"toggle_item", "move_item"}
      <4>1. a.items[p.id].owner = o.shop /\ d.items[p.id].owner = o.shop
        BY <3>1, <3>4, ItemsAfter DEF OpenOK
      <4> QED BY <2>1, <3>2, <4>1
    <3> QED BY <3>1, <3>2, <3>3, <3>4 DEF ItemKinds
  <2> QED BY <2>2, <2>3
<1>7. p.kind \in {"add_item", "move_item"} => a.cats[p.val] \in MenuScope(p.shop) \cup {NoOne}
  <2> SUFFICES ASSUME p.kind \in {"add_item", "move_item"} PROVE a.cats[p.val] \in MenuScope(p.shop) \cup {NoOne}
    OBVIOUS
  <2>1. p.val \in Cats /\ d.cats[p.val] \in MenuScope(p.shop) \cup {NoOne}
    BY DEF OpOK
  <2>2. ~(o.kind = "add_category" /\ o.id = p.val)
    BY DEF Apart
  <2> QED BY <2>1, <2>2, CatsAfter
<1> QED BY <1>2, <1>3, <1>4, <1>5, <1>6, <1>7 DEF OpOK

\* What an open transaction has locked is as it found it.
LEMMA OpenKept ==
    ASSUME NEW d, RowsOK(d), NEW x, NEW y, OpOK(d, x.op), OpenOK(d, x.op), OpOK(d, y.op), OpenOK(d, y.op),
           OpenTx(x), OpenTx(y), Holds(x), Holds(y), Apart(x, y), Apart(y, x)
    PROVE  OpenOK(Apply(d, x.op), y.op)
<1> DEFINE a == Apply(d, x.op)
           o == x.op
           p == y.op
<1>1. p.kind \in {"toggle_item", "move_item"} => a.items[p.id].owner = p.shop
  <2> SUFFICES ASSUME p.kind \in {"toggle_item", "move_item"}, a.items[p.id] # d.items[p.id] PROVE FALSE
    BY DEF OpenOK
  <2>1. p.id \in Items
    BY DEF OpOK, ItemKinds
  <2>2. o.kind \in ItemKinds /\ o.id = p.id
    BY <2>1, ItemsAfter
  <2>3. o.kind # "add_item"
    BY <2>2 DEF Apart, ItemKinds
  <2>4. <<"menu_items", p.id>> \in x.held \cap y.held
    BY <2>2, <2>3 DEF Holds, ItemKinds
  <2> QED BY <2>4 DEF Apart
<1>2. p.kind \in {"add_item", "move_item"} => a.cats[p.val] # NoOne
  <2> SUFFICES ASSUME p.kind \in {"add_item", "move_item"}, a.cats[p.val] = NoOne PROVE FALSE
    OBVIOUS
  <2>1. p.val \in Cats /\ d.cats[p.val] # NoOne
    BY DEF OpOK, OpenOK
  <2>2. o.kind = "delete_category" /\ o.id = p.val
    <3>1. o.kind = "add_category" => o.shop # NoOne
      BY NoOneIsNobody DEF OpOK
    <3> QED BY <2>1, <3>1, CatsAfter
  <2>3. <<"menu_categories", p.val>> \in Deleted(o) \cap Referenced(p)
    BY <2>2 DEF Deleted, Referenced
  <2> QED BY <2>3 DEF Apart
<1>3. p.kind = "delete_category" => \A i \in Items : a.items[i].cat # p.id
  <2> SUFFICES ASSUME p.kind = "delete_category", NEW i \in Items, a.items[i].cat = p.id PROVE FALSE
    OBVIOUS
  <2>1. p.id \in Cats /\ d.items[i].cat # p.id
    BY DEF OpOK, OpenOK, CatKinds
  <2>2. o.kind \in ItemKinds /\ o.id = i
    BY <2>1, ItemsAfter
  <2>3. o.kind # "delete_item"
    BY <2>1, <2>2, ItemsAfter, NoOneIsNobody DEF NoItem, ItemRow
  <2>4. o.kind \in {"add_item", "move_item"} /\ o.val = p.id
    BY <2>1, <2>2, <2>3, ItemsAfter DEF ItemKinds
  <2>5. <<"menu_categories", p.id>> \in Deleted(p) \cap Referenced(o)
    BY <2>4 DEF Deleted, Referenced
  <2> QED BY <2>5 DEF Apart
<1>4. p.kind = "onboard" => ~Exists(a, Brand)
  <2> SUFFICES ASSUME p.kind = "onboard", Exists(a, Brand) PROVE FALSE
    OBVIOUS
  <2>1. ~Exists(d, Brand)
    BY DEF OpenOK
  <2>2. o.kind # "create_branch"
    BY <2>1 DEF OpOK
  <2>3. o.kind = "onboard"
    BY <2>1, <2>2, ShopsAfter DEF Born, Shops
  <2>4. <<"label", Brand>> \in x.held \cap y.held
    BY <2>3 DEF Holds
  <2> QED BY <2>4 DEF Apart
<1> QED BY <1>1, <1>2, <1>3, <1>4 DEF OpenOK

\* A transaction another commit goes around is marked once it has staged.
Marked(y) == IF y.staged # Nothing THEN Tx(y.pc, y.op, y.todo, y.staged, y.held, TRUE) ELSE y

LEMMA StagingKept ==
    ASSUME NEW d, RowsOK(d), NEW x, NEW y, OpOK(d, x.op), OpenOK(d, x.op), OpOK(d, y.op),
           RowsOK(Apply(d, x.op)), OpOK(Apply(d, x.op), y.op), Staging(d, y)
    PROVE  Staging(Apply(d, x.op), Marked(y))
<1> DEFINE a == Apply(d, x.op)
           z == Marked(y)
<1>1. /\ z.pc = y.pc /\ z.op = y.op /\ z.todo = y.todo /\ z.staged = y.staged
      /\ z.dirty = IF y.staged # Nothing THEN TRUE ELSE y.dirty
  BY DEF Marked, Tx
<1>2. \A s \in Shops : Exists(Apply(d, y.op), s) => Exists(Apply(a, y.op), s)
  BY ShopsAfter
<1>3. \A k \in DOMAIN y.todo : y.todo[k] \in Shops
  BY DEF Staging
<1>4. \A k \in DOMAIN y.todo : Exists(Apply(a, y.op), y.todo[k])
  BY <1>2, <1>3 DEF Staging
<1>5. CASE y.staged # Nothing
  <2>1. y.staged[y.op.shop] # NoDoc
    BY <1>5 DEF Staging
  <2> QED BY <1>1, <1>4, <1>5, <2>1 DEF Staging
<1>6. CASE y.staged = Nothing
  <2>1. \A s \in Shops : y.staged[s] = NoDoc
    BY <1>6 DEF Nothing
  <2>2. y.op.shop \in Shops
    BY DEF OpOK
  <2>3. y.pc = "snap" /\ y.todo = <<y.op.shop>> /\ y.dirty = FALSE
    BY <2>1, <2>2 DEF Staging
  <2>4. \A s \in Shops : z.staged[s] # NoDoc => FALSE
    BY <1>1, <2>1
  <2>5. z.staged[Brand] = NoDoc
    BY <1>1, <2>1 DEF Shops
  <2> QED BY <1>1, <1>4, <1>6, <2>3, <2>4, <2>5 DEF Staging
<1> QED BY <1>5, <1>6

LEMMA TxKept ==
    ASSUME NEW d, RowsOK(d), Filed(d), NEW x, NEW y, OpenTx(x), TxOK(d, x), TxOK(d, y), Apart(x, y), Apart(y, x)
    PROVE  TxOK(Apply(d, x.op), Marked(y))
<1> DEFINE a == Apply(d, x.op)
           z == Marked(y)
<1>1. /\ z.pc = y.pc /\ z.op = y.op /\ z.todo = y.todo /\ z.staged = y.staged /\ z.held = y.held
      /\ z.dirty \in BOOLEAN /\ (y.staged = Nothing => z.dirty = y.dirty)
      /\ z = Tx(z.pc, z.op, z.todo, z.staged, z.held, z.dirty)
  BY DEF Marked, Tx, TxOK
<1>2. OpOK(d, x.op) /\ OpenOK(d, x.op) /\ Holds(x)
  BY DEF TxOK, OpenTx, BegunTx
<1>3. RowsOK(a)
  BY <1>2, RowsAfter
<1>4. BegunTx(y) => OpOK(a, y.op)
  BY <1>2, OpKept DEF TxOK
<1>5. OpenTx(y) => OpenOK(a, y.op) /\ Staging(a, z)
  <2> SUFFICES ASSUME OpenTx(y) PROVE OpenOK(a, y.op) /\ Staging(a, z)
    OBVIOUS
  <2>1. OpOK(d, y.op) /\ OpenOK(d, y.op) /\ Holds(y) /\ Staging(d, y)
    BY DEF TxOK, OpenTx, BegunTx
  <2>2. OpOK(a, y.op)
    BY <1>4 DEF OpenTx, BegunTx
  <2> QED BY <1>2, <1>3, <2>1, <2>2, OpenKept, StagingKept
<1>6. OpenTx(y) => Holds(z)
  BY <1>1 DEF TxOK, Holds
<1>7. (OpenTx(z) <=> OpenTx(y)) /\ (BegunTx(z) <=> BegunTx(y))
  BY <1>1 DEF OpenTx, BegunTx
<1>8. ~OpenTx(y) => z.staged = Nothing /\ z.held = {} /\ z.dirty = FALSE
  BY <1>1 DEF TxOK
<1>9. ~BegunTx(y) => z.op = NoOp
  BY <1>1 DEF TxOK
<1> QED BY <1>1, <1>4, <1>5, <1>6, <1>7, <1>8, <1>9 DEF TxOK

LEMMA ApartMarked ==
    ASSUME NEW x, NEW y, Apart(x, y)
    PROVE  Apart(Marked(x), Marked(y))
<1>1. /\ Marked(x).pc = x.pc /\ Marked(x).op = x.op /\ Marked(x).held = x.held
      /\ Marked(y).pc = y.pc /\ Marked(y).op = y.op /\ Marked(y).held = y.held
  BY DEF Marked, Tx
<1> QED BY <1>1 DEF Apart, OpenTx

\* A request that holds no transaction is in nobody's way.
Resting(pc) == pc \notin {"write", "snap", "touch", "commit"}
LEMMA RestOK ==
    ASSUME NEW d, NEW pc, Resting(pc), NEW todo
    PROVE  /\ TxOK(d, After(pc, todo)) /\ Knows(d, After(pc, todo))
           /\ \A y : Apart(After(pc, todo), y) /\ Apart(y, After(pc, todo))
<1> DEFINE x == After(pc, todo)
<1>1. x.pc = pc /\ x.op = NoOp /\ x.staged = Nothing /\ x.held = {} /\ x.dirty = FALSE
      /\ x = Tx(x.pc, x.op, x.todo, x.staged, x.held, x.dirty) /\ x.op.kind = "none"
  BY DEF After, Tx, NoOp, Op, OpOn
<1>2. ~OpenTx(x) /\ ~BegunTx(x)
  BY <1>1 DEF Resting, OpenTx, BegunTx
<1>3. TxOK(d, x) /\ Knows(d, x)
  BY <1>1, <1>2 DEF TxOK, Knows
<1>4. \A y : Apart(x, y) /\ Apart(y, x)
  BY <1>1, <1>2 DEF Apart, CatKinds, ItemKinds
<1> QED BY <1>3, <1>4

\* A step of one request that commits nothing.
LEMMA OneTx ==
    ASSUME CatInv, NEW e \in Editors, NEW y, TxOK(db, y),
           \A f \in Editors \ {e} : Apart(y, tx[f]) /\ Apart(tx[f], y),
           torn = FALSE => Knows(db, y),
           tx' = [tx EXCEPT ![e] = y], UNCHANGED <<db, topic, raced, torn>>
    PROVE  CatInv'
<1>1. DOMAIN tx' = Editors /\ \A f \in Editors : tx'[f] = IF f = e THEN y ELSE tx[f]
  BY DEF CatInv
<1>2. \A f \in Editors : TxOK(db, tx'[f])
  BY <1>1 DEF CatInv
<1>3. \A f, g \in Editors : f # g => Apart(tx'[f], tx'[g])
  BY <1>1 DEF CatInv
<1>4. torn = FALSE => SameName(db) /\ \A f \in Editors : Knows(db, tx'[f])
  BY <1>1 DEF CatInv
<1> QED BY <1>1, <1>2, <1>3, <1>4 DEF CatInv

LEMMA ToRest ==
    ASSUME CatInv, NEW e \in Editors, NEW pc, Resting(pc), NEW todo,
           tx' = [tx EXCEPT ![e] = After(pc, todo)], UNCHANGED <<db, topic, raced, torn>>
    PROVE  CatInv'
BY RestOK, OneTx

LEMMA Elsewhere ==
    ASSUME CatInv, UNCHANGED <<tx, db, topic, raced, torn>>
    PROVE  CatInv'
BY DEF CatInv

-----------------------------------------------------------------------------
(* Requests.                                                               *)

LEMMA Begins ==
    ASSUME CatInv, NEW e \in Editors, NEW o, Begin(e, o), OpOK(db, o), o.rows = {},
           o.kind \in {"add_category", "add_item"} => Fresh(o.id),
           o.kind \in CatKinds \ {"add_category"} => db.cats[o.id] # NoOne,
           o.kind \in {"add_item", "move_item"} => db.cats[o.val] # NoOne,
           o.kind \in ItemKinds \ {"add_item"} => db.items[o.id].owner # NoOne,
           o.kind = "create_branch" => o.val = db.shops[Brand].name
    PROVE  CatInv'
<1> DEFINE y == Tx("write", o, <<>>, Nothing, {}, FALSE)
<1>1. /\ y.pc = "write" /\ y.op = o /\ y.staged = Nothing /\ y.held = {} /\ y.dirty = FALSE
      /\ y = Tx(y.pc, y.op, y.todo, y.staged, y.held, y.dirty)
  BY DEF Tx
<1>2. ~OpenTx(y) /\ BegunTx(y)
  BY <1>1 DEF OpenTx, BegunTx
<1>3. TxOK(db, y)
  BY <1>1, <1>2 DEF TxOK
<1>4. Knows(db, y)
  BY <1>1, <1>2 DEF Knows
<1>5. ASSUME NEW f \in Editors \ {e} PROVE Apart(y, tx[f]) /\ Apart(tx[f], y)
  <2> DEFINE p == tx[f].op
  <2>1. p.kind = "none" \/ OpOK(db, p)
    BY DEF CatInv, TxOK, NoOp, Op, OpOn
  <2>2. Apart(y, tx[f])
    BY <1>1, <1>2 DEF Apart, Fresh
  <2>3. p.kind = "add_category" /\ o.kind \in CatKinds => o.id # p.id
    <3>1. CASE o.kind = "add_category"
      BY <3>1 DEF Fresh
    <3>2. CASE o.kind # "add_category"
      BY <2>1, <3>2 DEF OpOK
    <3> QED BY <3>1, <3>2
  <2>4. p.kind = "add_category" /\ o.kind \in {"add_item", "move_item"} => o.val # p.id
    BY <2>1 DEF OpOK
  <2>5. p.kind = "add_item" /\ o.kind \in ItemKinds => o.id # p.id
    <3>1. CASE o.kind = "add_item"
      BY <3>1 DEF Fresh
    <3>2. CASE o.kind # "add_item"
      BY <2>1, <3>2 DEF OpOK
    <3> QED BY <3>1, <3>2
  <2>6. Apart(tx[f], y)
    BY <1>1, <1>2, <2>3, <2>4, <2>5 DEF Apart
  <2> QED BY <2>2, <2>6
<1>6. tx' = [tx EXCEPT ![e] = y] /\ UNCHANGED <<db, topic, raced, torn>>
  BY DEF Begin, told
<1> QED BY <1>3, <1>4, <1>5, <1>6, OneTx

\* A restaurant's own rows name restaurants that are there.
LEMMA OwnersThere ==
    ASSUME CatInv
    PROVE  /\ \A c \in Cats : db.cats[c] # NoOne => db.cats[c] \in Shops /\ Exists(db, db.cats[c])
           /\ \A i \in Items : db.items[i].owner # NoOne =>
                 db.items[i].owner \in Shops /\ Exists(db, db.items[i].owner)
BY DEF CatInv, RowsOK

LEMMA EditRestaurant ==
    ASSUME CatInv, NEW e \in Editors, RestaurantRoutes(e)
    PROVE  CatInv'
<1> USE DEF Op, OpOn, OpOK, CatKinds, ItemKinds, ShopKinds
<1>1. CASE create_restaurant(e)
  <2>1. CASE \E n \in Names : Begin(e, Op("onboard", Brand, NoOne, n))
    <3>1. PICK n \in Names : Begin(e, Op("onboard", Brand, NoOne, n))
      BY <2>1
    <3>2. OpOK(db, Op("onboard", Brand, NoOne, n))
      BY DEF Shops
    <3> HIDE DEF OpOK
    <3> QED BY <3>1, <3>2, Begins
  <2>2. CASE tx' = [tx EXCEPT ![e] = After("grant", <<>>)] /\ UNCHANGED <<db, edits, claim, reading, told>>
    BY <2>2, ToRest DEF told, Resting
  <2> QED BY <1>1, <2>1, <2>2 DEF create_restaurant
<1>2. CASE update_restaurant(e)
  <2>1. PICK n \in Names : Exists(db, Brand) /\ Begin(e, Op("rename", Brand, NoOne, n))
    BY <1>2 DEF update_restaurant
  <2>2. OpOK(db, Op("rename", Brand, NoOne, n))
    BY <2>1 DEF Shops
  <2> HIDE DEF OpOK
  <2> QED BY <2>1, <2>2, Begins
<1>3. CASE set_status(e)
  <2>1. PICK b \in get_branches(db), v \in {"open", "paused"} : Begin(e, Op("status", b, NoOne, v))
    BY <1>3 DEF set_status
  <2>2. OpOK(db, Op("status", b, NoOne, v))
    BY DEF Shops, get_branches
  <2> HIDE DEF OpOK
  <2> QED BY <2>1, <2>2, Begins
<1> QED BY <1>1, <1>2, <1>3 DEF RestaurantRoutes

LEMMA EditBranch ==
    ASSUME CatInv, NEW e \in Editors, BranchRoutes(e)
    PROVE  CatInv'
<1> USE DEF Op, OpOn, OpOK, CatKinds, ItemKinds, ShopKinds
<1>1. CASE create_branch(e)
  <2>1. PICK b \in Branches : Begin(e, Op("create_branch", b, NoOne, db.shops[Brand].name))
    BY <1>1 DEF create_branch
  <2>2. Exists(db, Brand)
    BY <1>1 DEF create_branch
  <2>3. db.shops[Brand].name \in Names
    BY <2>2 DEF CatInv, RowsOK, Shops
  <2>4. OpOK(db, Op("create_branch", b, NoOne, db.shops[Brand].name))
    BY <2>2, <2>3 DEF Shops
  <2> HIDE DEF OpOK
  <2> QED BY <2>1, <2>4, Begins
<1>2. CASE set_base_item_availability(e)
  <2>1. PICK b \in get_branches(db), i \in Items, v \in {"sold_out", "back"} : Begin(e, Op("override", b, i, v))
    BY <1>2 DEF set_base_item_availability
  <2>2. OpOK(db, Op("override", b, i, v))
    BY DEF Shops, get_branches
  <2> HIDE DEF OpOK
  <2> QED BY <2>1, <2>2, Begins
<1> QED BY <1>1, <1>2 DEF BranchRoutes

LEMMA EditCategory ==
    ASSUME CatInv, NEW e \in Editors, CategoryRoutes(e)
    PROVE  CatInv'
<1> USE DEF Op, OpOn, OpOK, CatKinds, ItemKinds, ShopKinds
<1>1. CASE add_category(e)
  <2>1. PICK s \in Shops, c \in Cats :
            Exists(db, s) /\ db.cats[c] = NoOne /\ Fresh(c) /\ Begin(e, Op("add_category", s, c, NoOne))
    BY <1>1 DEF add_category, OwnIds, Cats
  <2>2. OpOK(db, Op("add_category", s, c, NoOne))
    BY <2>1
  <2> HIDE DEF OpOK
  <2> QED BY <2>1, <2>2, Begins
<1>2. CASE update_category(e)
  <2>1. PICK c \in Cats : db.cats[c] # NoOne /\ Begin(e, Op("update_category", db.cats[c], c, NoOne))
    BY <1>2 DEF update_category
  <2>2. OpOK(db, Op("update_category", db.cats[c], c, NoOne))
    BY <2>1, OwnersThere
  <2> HIDE DEF OpOK
  <2> QED BY <2>1, <2>2, Begins
<1>3. CASE delete_category(e)
  <2>1. PICK c \in Cats : db.cats[c] # NoOne /\ Begin(e, Op("delete_category", db.cats[c], c, NoOne))
    BY <1>3 DEF delete_category
  <2>2. OpOK(db, Op("delete_category", db.cats[c], c, NoOne))
    BY <2>1, OwnersThere
  <2> HIDE DEF OpOK
  <2> QED BY <2>1, <2>2, Begins
<1> QED BY <1>1, <1>2, <1>3 DEF CategoryRoutes

LEMMA EditItem ==
    ASSUME CatInv, NEW e \in Editors, ItemRoutes(e)
    PROVE  CatInv'
<1> USE DEF Op, OpOn, OpOK, CatKinds, ItemKinds, ShopKinds
<1>1. \A s \in Shops : NoOne \notin MenuScope(s)
  BY NoOneIsNobody DEF MenuScope, Shops
<1>2. CASE add_item(e)
  <2>1. PICK s \in Shops, c \in Cats, i \in Items :
            /\ Exists(db, s) /\ category_in_scope(db, s, c)
            /\ db.items[i] = NoItem /\ Fresh(i) /\ Begin(e, Op("add_item", s, i, c))
    BY <1>2 DEF add_item, OwnIds, Items
  <2>2. db.items[i].owner = NoOne /\ db.cats[c] \in MenuScope(s) /\ db.cats[c] # NoOne
    BY <1>1, <2>1 DEF NoItem, ItemRow, category_in_scope
  <2>3. OpOK(db, Op("add_item", s, i, c))
    BY <2>1, <2>2
  <2> HIDE DEF OpOK
  <2> QED BY <2>1, <2>2, <2>3, Begins
<1>3. CASE update_item(e)
  <2>1. PICK i \in Items : LET s == db.items[i].owner IN
            /\ s # NoOne
            /\ \/ Begin(e, Op("toggle_item", s, i, NoOne))
               \/ \E c \in Cats \ {db.items[i].cat} :
                    category_in_scope(db, s, c) /\ Begin(e, Op("move_item", s, i, c))
    BY <1>3 DEF update_item
  <2> DEFINE s == db.items[i].owner
  <2>2. s \in Shops /\ Exists(db, s) /\ s # NoOne
    BY <2>1, OwnersThere
  <2>3. CASE Begin(e, Op("toggle_item", s, i, NoOne))
    <3>1. OpOK(db, Op("toggle_item", s, i, NoOne))
      BY <2>2
    <3> HIDE DEF OpOK
    <3> QED BY <2>2, <2>3, <3>1, Begins
  <2>4. CASE \E c \in Cats : category_in_scope(db, s, c) /\ Begin(e, Op("move_item", s, i, c))
    <3>1. PICK c \in Cats : category_in_scope(db, s, c) /\ Begin(e, Op("move_item", s, i, c))
      BY <2>4
    <3>2. db.cats[c] \in MenuScope(s) /\ db.cats[c] # NoOne
      BY <1>1, <2>2, <3>1 DEF category_in_scope
    <3>3. OpOK(db, Op("move_item", s, i, c))
      BY <2>2, <3>2
    <3> HIDE DEF OpOK
    <3> QED BY <2>2, <3>1, <3>2, <3>3, Begins
  <2> QED BY <2>1, <2>3, <2>4
<1>4. CASE delete_item(e)
  <2>1. PICK i \in Items : db.items[i].owner # NoOne /\ Begin(e, Op("delete_item", db.items[i].owner, i, NoOne))
    BY <1>4 DEF delete_item
  <2>2. OpOK(db, Op("delete_item", db.items[i].owner, i, NoOne))
    BY <2>1, OwnersThere
  <2> HIDE DEF OpOK
  <2> QED BY <2>1, <2>2, Begins
<1> QED BY <1>2, <1>3, <1>4 DEF ItemRoutes

LEMMA EditOperations ==
    ASSUME CatInv, NEW e \in Editors, Operations(e)
    PROVE  CatInv'
<1>1. PICK s \in Shops, k \in {"publish", "republish"} : Exists(db, s) /\ Begin(e, Op(k, s, NoOne, NoOne))
  BY DEF Operations, converge_brand_events, republish_all, Shops
<1>2. OpOK(db, Op(k, s, NoOne, NoOne))
  BY <1>1 DEF Op, OpOn, OpOK, CatKinds, ItemKinds, ShopKinds
<1> QED BY <1>1, <1>2, Begins DEF Op, OpOn, CatKinds, ItemKinds

-----------------------------------------------------------------------------
(* The transaction.                                                        *)

\* Once the rows are written, what was read before is so under the locks.
LEMMA RowsWritten ==
    ASSUME NEW d, RowsOK(d), NEW o, OpOK(d, o), Integrity(d, o)
    PROVE  LET p == OpOn(o.kind, o.shop, o.id, o.val, Matched(d, o))
           IN  OpOK(d, p) /\ OpenOK(d, p)
<1> DEFINE p == OpOn(o.kind, o.shop, o.id, o.val, Matched(d, o))
<1>1. /\ p.kind = o.kind /\ p.shop = o.shop /\ p.id = o.id /\ p.val = o.val /\ p.rows = Matched(d, o)
      /\ p = OpOn(p.kind, p.shop, p.id, p.val, p.rows)
  BY DEF OpOn
<1>2. p.rows \subseteq {s \in Shops : Exists(d, s)}
  <2>1. o.kind = "rename" => Exists(d, Brand)
    BY DEF OpOK
  <2> QED BY <1>1, <2>1 DEF Matched, get_branches, Shops
<1>3. OpOK(d, p)
  BY <1>1, <1>2 DEF OpOK
<1>4. OpenOK(d, p)
  BY <1>1 DEF OpenOK, Integrity, OpOK
<1> QED BY <1>3, <1>4

LEMMA StepWriteRows ==
    ASSUME CatInv, NEW e \in Editors, WriteRows(e)
    PROVE  CatInv'
<1> DEFINE o == tx[e].op
           p == OpOn(o.kind, o.shop, o.id, o.val, Matched(db, o))
           y == Tx("snap", p, <<o.shop>>, Nothing, Written(db, o), FALSE)
<1>1. tx[e].pc = "write" /\ ~Blocked(e) /\ UNCHANGED <<db, topic, raced, torn>>
  BY DEF WriteRows, told
<1>2. OpOK(db, o) /\ RowsOK(db)
  BY <1>1 DEF CatInv, TxOK, BegunTx
<1>3. CASE ~Integrity(db, o)
  <2>1. \E pc \in {"grant", "idle"} : tx' = [tx EXCEPT ![e] = After(pc, <<>>)]
    BY <1>3 DEF WriteRows, IdleTx
  <2> QED BY <1>1, <2>1, ToRest DEF Resting
<1>4. CASE Integrity(db, o)
  <2>1. tx' = [tx EXCEPT ![e] = y]
    BY <1>4 DEF WriteRows
  <2>2. OpOK(db, p) /\ OpenOK(db, p)
    BY <1>2, <1>4, RowsWritten
  <2>3. /\ p.kind = o.kind /\ p.shop = o.shop /\ p.id = o.id /\ p.val = o.val /\ p.rows = Matched(db, o)
    BY DEF OpOn
  <2> HIDE DEF p
  <2>4. /\ y.pc = "snap" /\ y.op = p /\ y.todo = <<o.shop>> /\ y.staged = Nothing
        /\ y.held = Written(db, o) /\ y.dirty = FALSE
        /\ y = Tx(y.pc, y.op, y.todo, y.staged, y.held, y.dirty)
    BY DEF Tx
  <2> HIDE DEF y
  <2>5. OpenTx(y) /\ BegunTx(y)
    BY <2>4 DEF OpenTx, BegunTx
  <2>6. Exists(Apply(db, p), o.shop)
    <3>1. o.shop \in Shops
      BY <1>2 DEF OpOK
    <3> QED BY <1>2, <2>2, <2>3, <3>1, ShopsAfter DEF OpOK, Born
  <2>7. Staging(db, y)
    <3>1. y.todo \in Seq(Shops) /\ y.todo # <<>> /\ DOMAIN y.todo = {1} /\ y.todo[1] = o.shop
      BY <1>2, <2>4 DEF OpOK
    <3>2. DOMAIN y.staged = Shops /\ \A s \in Shops : y.staged[s] = NoDoc
      BY <2>4 DEF Nothing
    <3>3. Brand \in Shops
      BY DEF Shops
    <3> QED BY <2>3, <2>4, <2>6, <3>1, <3>2, <3>3 DEF Staging
  <2>8. Holds(y)
    BY <1>2, <2>3, <2>4 DEF Holds, Written, OpOK
  <2>9. TxOK(db, y)
    BY <2>2, <2>4, <2>5, <2>7, <2>8 DEF TxOK
  <2>10. torn = FALSE => Knows(db, y)
    <3>1. p.kind = "rename" => p.rows = {Brand} \cup get_branches(db)
      BY <2>3 DEF Matched
    <3>2. torn = FALSE /\ o.kind = "create_branch" => o.val = db.shops[Brand].name
      BY DEF CatInv, Knows
    <3> QED BY <2>3, <2>4, <3>1, <3>2 DEF Knows
  <2>11. ASSUME NEW f \in Editors \ {e} PROVE Apart(y, tx[f]) /\ Apart(tx[f], y)
    <3>1. Apart(tx[e], tx[f]) /\ Apart(tx[f], tx[e]) /\ (~OpenTx(tx[f]) => tx[f].held = {})
      BY DEF CatInv, TxOK
    <3>2. OpenTx(tx[f]) => /\ Written(db, o) \cap tx[f].held = {}
                           /\ Deleted(o) \cap Referenced(tx[f].op) = {}
                           /\ Referenced(o) \cap Deleted(tx[f].op) = {}
      BY <1>1 DEF Blocked, Open, OpenTx
    <3>3. Deleted(p) = Deleted(o) /\ Referenced(p) = Referenced(o)
      BY <2>3 DEF Deleted, Referenced
    <3> QED BY <2>3, <2>4, <3>1, <3>2, <3>3 DEF Apart
  <2> QED BY <1>1, <2>1, <2>9, <2>10, <2>11, OneTx
<1> QED BY <1>3, <1>4

\* An open transaction goes on: its operation stays, its locks grow by rows
\* that nobody else holds.
LEMMA TxGoesOn ==
    ASSUME CatInv, NEW e \in Editors, Open(e), NEW y, OpenTx(y), Staging(db, y),
           y.op = tx[e].op, y = Tx(y.pc, y.op, y.todo, y.staged, y.held, y.dirty),
           y.dirty \in BOOLEAN, tx[e].held \subseteq y.held,
           \A f \in Editors \ {e} : (y.held \ tx[e].held) \cap tx[f].held = {},
           tx' = [tx EXCEPT ![e] = y], UNCHANGED <<db, topic, raced, torn>>
    PROVE  CatInv'
<1>1. OpenTx(tx[e]) /\ BegunTx(tx[e]) /\ BegunTx(y)
  BY DEF Open, OpenTx, BegunTx
<1>2. TxOK(db, tx[e])
  BY DEF CatInv
<1>3. TxOK(db, y)
  BY <1>1, <1>2 DEF TxOK, Holds
<1>4. torn = FALSE => Knows(db, y)
  BY <1>1 DEF CatInv, Knows
<1>5. ASSUME NEW f \in Editors \ {e} PROVE Apart(y, tx[f]) /\ Apart(tx[f], y)
  <2>1. Apart(tx[e], tx[f]) /\ Apart(tx[f], tx[e])
    BY DEF CatInv
  <2>2. y.held \cap tx[f].held = {}
    BY <2>1 DEF Apart
  <2> QED BY <1>1, <2>1, <2>2 DEF Apart
<1> QED BY <1>3, <1>4, <1>5, OneTx

LEMMA StepSnapshot ==
    ASSUME CatInv, NEW e \in Editors, Snapshot(e)
    PROVE  CatInv'
<1> DEFINE x == tx[e]
           s == Head(x.todo)
           a == Apply(db, x.op)
           y == Tx("touch", x.op, x.todo, [x.staged EXCEPT ![s] = Doc(View(e), s)], x.held, x.dirty)
<1>1. x.pc = "snap" /\ tx' = [tx EXCEPT ![e] = y] /\ UNCHANGED <<db, topic, raced, torn>>
  BY DEF Snapshot, told
<1>2. Open(e) /\ OpenTx(x) /\ TxOK(db, x) /\ OpOK(db, x.op) /\ Staging(db, x)
  BY <1>1 DEF Open, OpenTx, BegunTx, CatInv, TxOK
<1>3. /\ y.pc = "touch" /\ y.op = x.op /\ y.todo = x.todo /\ y.held = x.held /\ y.dirty = x.dirty
      /\ y.staged = [x.staged EXCEPT ![s] = Doc(a, s)]
      /\ y = Tx(y.pc, y.op, y.todo, y.staged, y.held, y.dirty)
  BY DEF Tx, View
<1> HIDE DEF y
<1>4. x.todo \in Seq(Shops) /\ x.todo # <<>> /\ s = x.todo[1] /\ 1 \in DOMAIN x.todo /\ s \in Shops
  BY <1>1, <1>2 DEF Staging
<1>5. Exists(a, s) /\ Doc(a, s) # NoDoc
  BY <1>2, <1>4, DocExists DEF Staging
<1>6. /\ DOMAIN y.staged = Shops /\ y.staged[s] = Doc(a, s)
      /\ \A t \in Shops : t # s => y.staged[t] = x.staged[t]
  BY <1>2, <1>3, <1>4 DEF Staging
<1>7. x.op.shop \in Shops /\ y.staged[x.op.shop] # NoDoc
  <2>1. x.op.shop \in Shops
    BY <1>2 DEF OpOK
  <2>2. CASE x.staged[x.op.shop] # NoDoc
    BY <1>5, <1>6, <2>1, <2>2
  <2>3. CASE x.todo = <<x.op.shop>>
    BY <1>4, <1>5, <1>6, <2>3
  <2> QED BY <1>2, <2>1, <2>2, <2>3 DEF Staging
<1>8. ASSUME x.dirty = FALSE, x.op.shop = Brand PROVE Fanned(db, y)
  <2>1. CASE x.todo = <<Brand>>
    BY <1>3, <2>1 DEF Fanned
  <2>2. CASE x.staged[Brand] # NoDoc
    <3>1. Fanned(db, x)
      BY <1>2, <1>8, <2>2 DEF Staging
    <3>2. ASSUME NEW b \in get_branches(a) PROVE y.staged[b] # NoDoc \/ Queued(y, b)
      <4>1. x.staged[b] # NoDoc \/ Queued(x, b)
        BY <1>1, <3>1 DEF Fanned
      <4>2. b \in Shops
        BY DEF get_branches, Shops
      <4> QED BY <1>3, <1>5, <1>6, <4>1, <4>2 DEF Queued
    <3> QED BY <1>1, <1>3, <3>1, <3>2 DEF Fanned
  <2> QED BY <1>2, <1>8, <2>1, <2>2 DEF Staging
<1>9. Staging(db, y)
  <2>1. x.dirty = FALSE => \A t \in Shops : y.staged[t] # NoDoc => y.staged[t] = Doc(a, t) /\ Exists(a, t)
    BY <1>2, <1>5, <1>6 DEF Staging
  <2>2. x.op.shop # Brand => x.todo = <<x.op.shop>>
    BY <1>1, <1>2 DEF Staging
  <2>3. \A k \in DOMAIN x.todo : Exists(a, x.todo[k])
    BY <1>2 DEF Staging
  <2> QED BY <1>3, <1>4, <1>5, <1>6, <1>7, <1>8, <2>1, <2>2, <2>3 DEF Staging
<1>10. OpenTx(y) /\ y.dirty \in BOOLEAN
  BY <1>2, <1>3 DEF OpenTx, TxOK
<1> QED BY <1>1, <1>2, <1>3, <1>9, <1>10, TxGoesOn

LEMMA StepTouch ==
    ASSUME CatInv, NEW e \in Editors, Touch(e)
    PROVE  CatInv'
<1> DEFINE x == tx[e]
           s == Head(x.todo)
           a == Apply(db, x.op)
           row == <<"restaurants", s>>
           fan == SetToSeq(get_branches(a))
           rest == IF s = Brand THEN fan ELSE Tail(x.todo)
           y == Tx(IF rest = <<>> THEN "commit" ELSE "snap", x.op, rest, x.staged, x.held \cup {row}, x.dirty)
<1>1. /\ x.pc = "touch" /\ tx' = [tx EXCEPT ![e] = y] /\ UNCHANGED <<db, topic, raced, torn>>
      /\ \A f \in Editors \ {e} : row \notin tx[f].held
  BY DEF Touch, told, View
<1>2. Open(e) /\ OpenTx(x) /\ TxOK(db, x) /\ OpOK(db, x.op) /\ Staging(db, x)
  BY <1>1 DEF Open, OpenTx, BegunTx, CatInv, TxOK
<1>3. /\ y.pc = (IF rest = <<>> THEN "commit" ELSE "snap") /\ y.op = x.op /\ y.todo = rest
      /\ y.held = x.held \cup {row} /\ y.dirty = x.dirty /\ y.staged = x.staged
      /\ y = Tx(y.pc, y.op, y.todo, y.staged, y.held, y.dirty)
  BY DEF Tx
<1>4. x.todo \in Seq(Shops) /\ x.todo # <<>> /\ s = x.todo[1] /\ 1 \in DOMAIN x.todo /\ s \in Shops
  BY <1>1, <1>2 DEF Staging
<1>5. /\ fan \in Seq(get_branches(a))
      /\ \A b \in get_branches(a) : \E k \in DOMAIN fan : fan[k] = b
      /\ fan = <<>> => get_branches(a) = {}
  <2>1. IsFiniteSet(get_branches(a))
    BY CatalogConstants, FS_Subset DEF get_branches
  <2> QED BY <2>1, ListedOnce
<1>6. fan \in Seq(Shops) /\ (\A k \in DOMAIN fan : fan[k] \in Branches /\ Exists(a, fan[k]))
  <2>1. get_branches(a) \subseteq Shops /\ (\A b \in get_branches(a) : b \in Branches /\ Exists(a, b))
    BY DEF get_branches, Shops
  <2> QED BY <1>5, <2>1
<1>7. Tail(x.todo) \in Seq(Shops)
      /\ \A k \in DOMAIN x.todo : k = 1 \/ (k - 1 \in DOMAIN Tail(x.todo) /\ Tail(x.todo)[k - 1] = x.todo[k])
  BY <1>4
<1>8. \A k \in DOMAIN Tail(x.todo) : k + 1 \in DOMAIN x.todo /\ Tail(x.todo)[k] = x.todo[k + 1]
  BY <1>4
<1> HIDE DEF y, fan
<1>9. rest \in Seq(Shops) /\ \A k \in DOMAIN rest : Exists(a, rest[k])
  <2>1. \A k \in DOMAIN x.todo : Exists(a, x.todo[k])
    BY <1>2 DEF Staging
  <2> QED BY <1>6, <1>7, <1>8, <2>1
<1>10. x.staged[s] # NoDoc /\ x.staged[x.op.shop] # NoDoc
  BY <1>1, <1>2 DEF Staging
<1>11. x.op.shop # Brand => y.pc = "commit"
  <2> SUFFICES ASSUME x.op.shop # Brand PROVE y.pc = "commit"
    OBVIOUS
  <2>1. x.todo = <<x.op.shop>>
    BY <1>1, <1>2 DEF Staging
  <2>2. s # Brand /\ Tail(x.todo) = <<>>
    BY <1>4, <2>1
  <2> QED BY <1>3, <2>2
<1>12. ASSUME x.dirty = FALSE, x.op.shop = Brand PROVE Fanned(db, y)
  <2>1. Fanned(db, x)
    BY <1>2, <1>10, <1>12 DEF Staging
  <2>2. CASE s = Brand
    <3>1. y.todo = fan
      BY <1>3, <2>2
    <3>2. ASSUME NEW b \in get_branches(a) PROVE Queued(y, b)
      <4>1. PICK k \in DOMAIN fan : fan[k] = b
        BY <1>5
      <4>2. fan # <<>>
        BY <1>5, <3>2
      <4>3. y.pc # "commit"
        BY <1>3, <2>2, <4>2
      <4> QED BY <3>1, <4>1, <4>3 DEF Queued
    <3> QED BY <1>3, <1>6, <3>1, <3>2 DEF Fanned
  <2>3. CASE s # Brand
    <3>1. y.todo = Tail(x.todo)
      BY <1>3, <2>3
    <3>2. \A k \in DOMAIN x.todo : x.todo[k] \in Branches
      BY <1>4, <2>1, <2>3 DEF Fanned
    <3>3. ASSUME NEW b \in get_branches(a), x.staged[b] = NoDoc PROVE Queued(y, b)
      <4>1. x.todo # <<Brand>>
        BY <1>4, <2>3
      <4>2. PICK k \in DOMAIN x.todo : x.todo[k] = b
        BY <2>1, <3>3, <4>1 DEF Fanned, Queued
      <4>3. k # 1
        BY <1>4, <1>10, <3>3, <4>2
      <4>4. k - 1 \in DOMAIN y.todo /\ y.todo[k - 1] = b
        BY <1>7, <3>1, <4>2, <4>3
      <4>5. y.todo # <<>>
        BY <4>4
      <4>6. y.pc # "commit"
        BY <1>3, <4>5
      <4> QED BY <4>4, <4>6 DEF Queued
    <3> QED BY <1>3, <1>8, <3>1, <3>2, <3>3 DEF Fanned
  <2> QED BY <2>2, <2>3
<1>13. Staging(db, y)
  <2>1. DOMAIN x.staged = Shops
        /\ (x.dirty = FALSE => \A t \in Shops : x.staged[t] # NoDoc => x.staged[t] = Doc(a, t) /\ Exists(a, t))
    BY <1>2 DEF Staging
  <2>2. y.pc # "touch" /\ (y.pc \in {"snap", "touch"} => y.todo # <<>>)
    BY <1>3
  <2> HIDE DEF rest
  <2> QED BY <1>3, <1>9, <1>10, <1>11, <1>12, <2>1, <2>2 DEF Staging
<1>14. OpenTx(y) /\ y.dirty \in BOOLEAN
  BY <1>2, <1>3 DEF OpenTx, TxOK
<1>15. tx[e].held \subseteq y.held /\ \A f \in Editors \ {e} : (y.held \ tx[e].held) \cap tx[f].held = {}
  BY <1>1, <1>3
<1> QED BY <1>1, <1>2, <1>3, <1>13, <1>14, <1>15, TxGoesOn

\* A commit that nothing went around leaves every surviving event true: what
\* it changed it staged; one that something went around is on record.
LEMMA StepCommit ==
    ASSUME CatInv, NEW e \in Editors, Commit(e)
    PROVE  CatInv'
<1> DEFINE x == tx[e]
           o == x.op
           a == Apply(db, o)
           mine == StagedEvents(x)
           rest(pc) == After(pc, IF pc = "invalidate" THEN SetToSeq(mine) ELSE <<>>)
<1>1. /\ x.pc = "commit" /\ db' = a
      /\ topic' = [s \in Shops |-> IF s \in mine THEN x.staged[s] ELSE topic[s]]
      /\ raced' = IF x.dirty THEN raced \cup mine \cup {s \in Shops : Doc(a, s) # Doc(db, s)}
                  ELSE raced \ mine
      /\ torn' = (torn \/ \E f \in Editors : {o.kind, tx[f].op.kind} = {"rename", "create_branch"})
  BY DEF Commit, View
<1>2. PICK pc \in {"grant", "idle", "invalidate"} :
          tx' = [f \in Editors |-> IF f = e THEN rest(pc) ELSE Marked(tx[f])]
  <2> DEFINE next == IF o.kind = "onboard" THEN "grant" ELSE IF o.kind = "republish" THEN "idle" ELSE "invalidate"
  <2>1. tx' = [f \in Editors |-> IF f = e THEN rest(next) ELSE Marked(tx[f])]
    BY DEF Commit, Marked
  <2> HIDE DEF rest
  <2> QED BY <2>1
<1>3. OpenTx(x) /\ TxOK(db, x) /\ OpOK(db, o) /\ OpenOK(db, o) /\ Staging(db, x) /\ x.dirty \in BOOLEAN
  BY <1>1 DEF OpenTx, BegunTx, CatInv, TxOK
<1>4. RowsOK(db) /\ Filed(db) /\ RowsOK(a) /\ Filed(a)
  BY <1>3, RowsAfter, FiledAfter DEF CatInv
<1>5. \A f \in Editors \ {e} : TxOK(a, Marked(tx[f]))
  BY <1>3, <1>4, TxKept DEF CatInv
<1>6. \A f \in Editors : TxOK(a, tx'[f])
  BY <1>2, <1>5, RestOK DEF Resting
<1>7. \A f, g \in Editors : f # g => Apart(tx'[f], tx'[g])
  BY <1>2, ApartMarked, RestOK DEF Resting, CatInv
<1>8. Told(a, topic', raced')
  <2> SUFFICES ASSUME NEW s \in Shops, s \notin raced', topic'[s] # NoDoc
               PROVE  Exists(a, s) /\ topic'[s] = Doc(a, s)
    BY DEF Told
  <2>1. topic'[s] = IF s \in mine THEN x.staged[s] ELSE topic[s]
    BY <1>1
  <2>2. s \in mine <=> x.staged[s] # NoDoc
    BY DEF StagedEvents
  <2>3. CASE x.dirty
    <3>1. s \notin mine /\ s \notin raced /\ Doc(a, s) = Doc(db, s)
      BY <1>1, <2>3
    <3>2. Exists(db, s) /\ topic[s] = Doc(db, s) /\ topic'[s] = topic[s]
      BY <2>1, <3>1 DEF CatInv, Told
    <3>3. Exists(a, s)
      BY <1>3, <1>4, <3>2, ShopsAfter
    <3> QED BY <3>1, <3>2, <3>3
  <2>4. CASE ~x.dirty /\ s \in mine
    BY <1>3, <2>1, <2>2, <2>4 DEF Staging
  <2>5. CASE ~x.dirty /\ s \notin mine
    <3>1. s \notin raced /\ topic'[s] = topic[s]
      BY <1>1, <2>1, <2>5
    <3>2. Exists(db, s) /\ topic[s] = Doc(db, s)
      BY <3>1 DEF CatInv, Told
    <3>3. Exists(a, s)
      BY <1>3, <1>4, <3>2, ShopsAfter
    <3>4. x.staged[o.shop] # NoDoc
      BY <1>1, <1>3 DEF Staging
    <3>5. s # o.shop
      BY <2>2, <2>5, <3>4
    <3>6. o.shop # Brand
      <4> SUFFICES ASSUME o.shop = Brand PROVE FALSE
        OBVIOUS
      <4>1. Fanned(db, x) /\ x.pc = "commit"
        BY <1>1, <1>3, <2>5, <3>4 DEF Staging
      <4>2. s \in get_branches(a)
        BY <3>3, <3>5 DEF get_branches, Shops
      <4>3. x.staged[s] # NoDoc
        BY <4>1, <4>2 DEF Fanned, Queued
      <4> QED BY <2>2, <2>5, <4>3
    <3>7. o.shop \notin MenuScope(s)
      BY <3>5, <3>6 DEF MenuScope
    <3>8. Doc(a, s) = Doc(db, s)
      BY <1>3, <1>4, <3>7, Confined
    <3> QED BY <3>1, <3>2, <3>3, <3>8
  <2> QED BY <1>3, <2>3, <2>4, <2>5
<1>9. ASSUME torn' = FALSE PROVE SameName(a) /\ \A f \in Editors : Knows(a, tx'[f])
  <2>1. torn = FALSE
    <3>1. torn \in BOOLEAN
      BY DEF CatInv
    <3>2. torn => torn'
      BY <1>1, Zenon
    <3> QED BY <1>9, <3>1, <3>2
  <2>2. SameName(db) /\ \A f \in Editors : Knows(db, tx[f])
    BY <2>1 DEF CatInv
  <2>3. ASSUME NEW f \in Editors \ {e}
        PROVE  {o.kind, tx[f].op.kind} # {"rename", "create_branch"}
    <3> SUFFICES ASSUME {o.kind, tx[f].op.kind} = {"rename", "create_branch"} PROVE FALSE
      OBVIOUS
    <3>1. \E g \in Editors : {o.kind, tx[g].op.kind} = {"rename", "create_branch"}
      BY Zenon
    <3> HIDE DEF o
    <3> QED BY <1>1, <1>9, <3>1
  <2> DEFINE nm == IF o.kind \in {"onboard", "rename"} THEN o.val ELSE db.shops[Brand].name
  <2>4. /\ a.shops[Brand].name = nm
        /\ \A b \in get_branches(a) : a.shops[b].name = nm
        /\ o.kind \notin {"onboard", "create_branch"} => get_branches(a) = get_branches(db)
    <3>1. db.shops \in [Shops -> [name : Names \cup {NoOne}, status : Statuses]] /\ Brand \in Shops /\ Branches \subseteq Shops
          /\ Brand \notin Branches /\ FirstBranch \in Branches
      BY <1>4, CatalogConstants DEF RowsOK, Shops
    <3>2. get_branches(a) = get_branches(db) \cup (Branches \cap Born(o))
      BY <1>3, <1>4, <3>1, ShopsAfter DEF get_branches
    <3>3. CASE o.kind = "onboard"
      <4>1. ~Exists(db, Brand)
        BY <1>3, <3>3 DEF OpenOK
      <4>2. get_branches(db) = {}
        BY <1>4, <4>1 DEF RowsOK, get_branches
      <4>3. a.shops = OnboardRows(db, o).shops
        BY <1>3, <1>4, <3>3, ShopTable
      <4> QED BY <3>1, <3>2, <3>3, <4>2, <4>3 DEF OnboardRows, WithShops, Db, ShopRow, Born
    <3>4. CASE o.kind = "create_branch"
      <4>1. a.shops = [db.shops EXCEPT ![o.shop] = ShopRow(o.val, "open")]
        BY <1>3, <1>4, <3>4, ShopTable DEF BranchRow, WithShops, Db
      <4>2. o.val = db.shops[Brand].name /\ o.shop \in Branches
        BY <1>3, <2>2, <3>4 DEF Knows, OpOK
      <4> QED BY <2>2, <3>1, <3>2, <3>4, <4>1, <4>2 DEF Born, SameName, ShopRow
    <3>5. CASE o.kind = "rename"
      <4>1. a.shops = RenameRows(db, o).shops
        BY <1>3, <1>4, <3>5, ShopTable
      <4>2. o.rows = {Brand} \cup get_branches(db)
        BY <1>3, <2>2, <3>5 DEF Knows
      <4> QED BY <3>1, <3>2, <3>5, <4>1, <4>2 DEF RenameRows, WithShops, Db, ShopRow, Born, get_branches
    <3>6. CASE o.kind = "status"
      <4>1. a.shops = [db.shops EXCEPT ![o.shop] = ShopRow(db.shops[o.shop].name, o.val)]
        BY <1>3, <1>4, <3>6, ShopTable DEF StatusRow, WithShops, Db
      <4>2. o.shop \in Branches
        BY <1>3, <3>6 DEF OpOK
      <4> QED BY <2>2, <3>1, <3>2, <3>6, <4>1, <4>2 DEF Born, SameName, ShopRow
    <3>7. CASE o.kind \notin {"onboard", "create_branch", "rename", "status"}
      <4>1. a.shops = db.shops
        BY <1>3, <1>4, <3>7, ShopTable
      <4> QED BY <2>2, <3>1, <3>2, <3>7, <4>1 DEF Born, SameName
    <3> QED BY <3>3, <3>4, <3>5, <3>6, <3>7
  <2>5. ASSUME NEW f \in Editors \ {e} PROVE Knows(a, Marked(tx[f]))
    <3> DEFINE p == tx[f].op
    <3>1. Marked(tx[f]).op = p /\ (OpenTx(Marked(tx[f])) <=> OpenTx(tx[f]))
      BY DEF Marked, Tx, OpenTx
    <3>2. OpenTx(tx[f]) /\ p.kind = "rename" => p.rows = {Brand} \cup get_branches(a)
      <4> SUFFICES ASSUME OpenTx(tx[f]), p.kind = "rename" PROVE p.rows = {Brand} \cup get_branches(a)
        OBVIOUS
      <4>1. o.kind # "create_branch"
        BY <2>3
      <4>2. Exists(db, Brand)
        BY DEF CatInv, TxOK, OpenTx, BegunTx, OpOK
      <4>3. o.kind # "onboard"
        BY <1>3, <4>2 DEF OpenOK
      <4> QED BY <2>2, <2>4, <4>1, <4>3 DEF Knows
    <3>3. p.kind = "create_branch" => p.val = a.shops[Brand].name
      <4> SUFFICES ASSUME p.kind = "create_branch" PROVE p.val = a.shops[Brand].name
        OBVIOUS
      <4>1. o.kind # "rename"
        BY <2>3
      <4>2. BegunTx(tx[f])
        BY DEF CatInv, TxOK, NoOp, Op, OpOn
      <4>3. Exists(db, Brand)
        BY <4>2 DEF CatInv, TxOK, OpOK
      <4>4. o.kind # "onboard"
        BY <1>3, <4>3 DEF OpenOK
      <4> QED BY <2>2, <2>4, <4>1, <4>4 DEF Knows
    <3> QED BY <3>1, <3>2, <3>3 DEF Knows
  <2>6. \A f \in Editors : Knows(a, tx'[f])
    BY <1>2, <2>5, RestOK DEF Resting
  <2> QED BY <2>4, <2>6 DEF SameName
<1>10. DOMAIN tx' = Editors /\ DOMAIN topic' = Shops /\ raced' \subseteq Shops /\ torn' \in BOOLEAN
  BY <1>1, <1>2 DEF CatInv, StagedEvents
<1> QED BY <1>1, <1>4, <1>6, <1>7, <1>8, <1>9, <1>10 DEF CatInv

LEMMA StepTx ==
    ASSUME CatInv, NEW e \in Editors, TxStep(e) \/ Crash(e)
    PROVE  CatInv'
<1>1. CASE InvalidateMenu(e)
  <2>1. \E t : tx' = [tx EXCEPT ![e] = After("invalidate", t)] \/ tx' = [tx EXCEPT ![e] = After("idle", t)]
    BY <1>1 DEF InvalidateMenu, IdleTx
  <2> QED BY <1>1, <2>1, ToRest DEF InvalidateMenu, Resting, told
<1>2. CASE Grant(e) \/ Crash(e)
  BY <1>2, ToRest DEF Grant, Crash, IdleTx, Resting, told
<1> QED BY <1>1, <1>2, StepWriteRows, StepSnapshot, StepTouch, StepCommit DEF TxStep

LEMMA CatalogInits ==
    CatalogInit => CatInv
<1> SUFFICES ASSUME CatalogInit PROVE CatInv
  OBVIOUS
<1>1. \A e \in Editors : \E pc \in {"idle", Absent} : tx[e] = After(pc, <<>>)
  BY DEF CatalogInit, IdleTx
<1>2. \A e \in Editors : TxOK(db, tx[e]) /\ Knows(db, tx[e])
  BY <1>1, RestOK DEF Resting, Absent
<1>3. \A e, f \in Editors : Apart(tx[e], tx[f])
  BY <1>1, RestOK DEF Resting, Absent
<1>4. DOMAIN tx = Editors /\ topic = Nothing /\ raced = {} /\ torn = FALSE
  BY DEF CatalogInit
<1>5. DOMAIN topic = Shops /\ Told(db, topic, raced)
  BY <1>4 DEF Nothing, Told
<1>6. RowsOK(db) /\ Filed(db) /\ SameName(db)
  <2>1. CASE db = EmptyDb
    BY <2>1, NoOneIsNobody DEF EmptyDb, Db, RowsOK, Filed, SameName, get_branches, Exists, NoShop, ShopRow,
                NoItem, ItemRow, Statuses, Shops
  <2>2. CASE db = Minted
    <3> DEFINE nm == CHOOSE n \in Names : TRUE
               cat == CHOOSE c \in BaseCats : TRUE
    <3>1. nm \in Names /\ nm # NoOne /\ (BaseItems # {} => cat \in BaseCats)
      BY CatalogConstants, NoOneIsNobody
    <3>2. Brand \in Shops /\ FirstBranch \in Branches /\ Brand \notin Branches /\ Brand # NoOne
      BY CatalogConstants, NoOneIsNobody DEF Shops
    <3> HIDE DEF nm, cat
    <3>3. /\ db.shops = [s \in Shops |-> IF s = Brand THEN ShopRow(nm, NoOne)
                              ELSE IF s = FirstBranch THEN ShopRow(nm, "open") ELSE NoShop]
          /\ db.cats = [c \in Cats |-> IF c \in BaseCats THEN Brand ELSE NoOne]
          /\ db.items = [i \in Items |-> IF i \in BaseItems THEN ItemRow(Brand, cat, TRUE) ELSE NoItem]
          /\ db.overrides = {}
          /\ db = Db(db.shops, db.cats, db.items, db.overrides)
      BY <2>2 DEF Minted, Db, nm, cat
    <3>4. BaseCats \subseteq Cats
      BY DEF Cats
    <3>5. Exists(db, Brand) /\ \A s \in Shops : Exists(db, s) <=> s \in {Brand, FirstBranch}
      BY <3>1, <3>2, <3>3 DEF Exists, NoShop, ShopRow, Shops, NoOne
    <3>6. RowsOK(db)
      <4>1. db.shops \in [Shops -> [name : Names \cup {NoOne}, status : Statuses]]
        BY <3>1, <3>3 DEF ShopRow, NoShop, Statuses
      <4>2. db.cats \in [Cats -> Shops \cup {NoOne}]
        BY <3>2, <3>3
      <4>3. db.items \in [Items -> [owner : Shops \cup {NoOne}, cat : Cats \cup {NoOne}, available : BOOLEAN]]
        BY <3>1, <3>2, <3>3, <3>4 DEF ItemRow, NoItem
      <4>4. \A c \in Cats : db.cats[c] # NoOne => Exists(db, db.cats[c])
        BY <3>3, <3>5
      <4>5. \A i \in Items : db.items[i].owner # NoOne => Exists(db, db.items[i].owner)
        BY <3>3, <3>5 DEF ItemRow, NoItem
      <4>6. \A s \in Shops : Exists(db, s) => db.shops[s].name \in Names
        <5>1. db.shops[Brand].name = nm /\ (FirstBranch \in Shops => db.shops[FirstBranch].name = nm)
          BY <3>2, <3>3 DEF ShopRow
        <5> QED BY <3>1, <3>5, <5>1
      <4> QED BY <3>3, <3>5, <4>1, <4>2, <4>3, <4>4, <4>5, <4>6 DEF RowsOK
    <3>7. Filed(db)
      BY <3>1, <3>3, <3>4 DEF Filed, ItemRow, NoItem, MenuScope
    <3>8. SameName(db)
      <4>1. \A b \in get_branches(db) : b = FirstBranch /\ b \in Shops
        BY <3>2, <3>5 DEF get_branches, Shops
      <4>2. db.shops[Brand].name = nm
        BY <3>2, <3>3 DEF ShopRow
      <4>3. db.shops[FirstBranch].name = nm
        BY <3>2, <3>3 DEF ShopRow, Shops
      <4> QED BY <4>1, <4>2, <4>3 DEF SameName
    <3> QED BY <3>6, <3>7, <3>8
  <2> QED BY <2>1, <2>2 DEF CatalogInit
<1>7. torn \in BOOLEAN /\ raced \subseteq Shops
  BY <1>4
<1> QED BY <1>2, <1>3, <1>4, <1>5, <1>6, <1>7 DEF CatInv

LEMMA CatalogSteps ==
    CatInv /\ [CatalogNext]_catalogVars => CatInv'
<1> SUFFICES ASSUME CatInv, [CatalogNext]_catalogVars PROVE CatInv'
  OBVIOUS
<1>1. CASE \E e \in Editors : Edit(e)
  BY <1>1, EditRestaurant, EditBranch, EditCategory, EditItem, EditOperations DEF Edit
<1>2. CASE \E e \in Editors : TxStep(e) \/ Crash(e)
  BY <1>2, StepTx
<1>3. CASE \E r \in Readers : get_menu(r) \/ browse(r) \/ ReadStep(r) \/ RendererDies(r)
  BY <1>3, Elsewhere DEF get_menu, browse, ReadStep, Recheck, ConsistentRead, FillCache, RendererDies, told
<1>4. CASE \E s \in Browsed : MenuExpires(s) \/ LockExpires(s)
  BY <1>4, Elsewhere DEF MenuExpires, LockExpires, told
<1>5. CASE (\E b \in Branches : ProvisionStock(b)) \/ PageExpires \/ ConvergeGrant
  BY <1>5, Elsewhere DEF ProvisionStock, PageExpires, ConvergeGrant, told
<1>6. CASE UNCHANGED catalogVars
  BY <1>6, Elsewhere DEF catalogVars
<1> QED BY <1>1, <1>2, <1>3, <1>4, <1>5, <1>6 DEF CatalogNext

\* The rows, the transactions and the surviving events fit together in every
\* state, whoever edits beside whom and wherever a request dies.
THEOREM CatalogInductive == CatalogSpec => []CatInv
BY CatalogInits, CatalogSteps, PTL DEF CatalogSpec

\* The last event of a restaurant, which is all that compaction keeps, carries
\* its committed rows, the brand's menu and the branch's overrides included,
\* unless another edit committed after it was staged (_publish, _stage_one).
THEOREM EventsTellAll == CatalogSpec => []LastEventTellsAll
<1>1. CatInv => LastEventTellsAll
  BY DEF CatInv, Told, LastEventTellsAll
<1> QED BY <1>1, CatalogInductive, PTL

\* A branch carries its brand's name, through copy_profile_to_branches and the
\* name create_branch read, unless one of the two ran around the other.
THEOREM BranchesShareName == CatalogSpec => []NamesAgree
<1>1. CatInv => NamesAgree
  <2> SUFFICES ASSUME CatInv, ~torn PROVE SameName(db)
    BY DEF SameName, NamesAgree
  <2>1. torn = FALSE
    BY DEF CatInv
  <2> QED BY <2>1 DEF CatInv
<1> QED BY <1>1, CatalogInductive, PTL

\* The pricing read asks for no category and the menu hangs items under
\* categories; they list the same items all the same, for foreign keys and
\* row locks keep every item filed under a category in its owner's scope.
THEOREM MenuSells == CatalogSpec => []MenuIsWhatSells
<1>1. CatInv => MenuIsWhatSells
  <2> SUFFICES ASSUME CatInv, NEW s \in Shops PROVE pricing_read(db, s, Items) = MenuSnapshot(db, s)
    BY DEF MenuIsWhatSells
  <2>1. \A i \in PricingRows(db, s) : i \in Items /\ db.items[i].owner \in MenuScope(s)
    BY DEF PricingRows
  <2>2. NoOne \notin MenuScope(s)
    BY NoOneIsNobody DEF MenuScope, Shops
  <2>3. MenuRows(db, s) = PricingRows(db, s)
    BY <2>1, <2>2 DEF MenuRows, category_in_scope, CatInv, Filed, MenuScope
  <2>4. Items \cap PricingRows(db, s) = PricingRows(db, s)
    BY <2>1
  <2> QED BY <2>3, <2>4 DEF pricing_read, MenuSnapshot
<1> QED BY <1>1, CatalogInductive, PTL
=============================================================================
