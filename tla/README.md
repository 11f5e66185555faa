# SmartFoodOps in TLA+

SmartFoodOps is a food-ordering platform: Python services with one database
each, joined by Temporal workflows, HTTP calls and Kafka topics. This directory
models the parts where its correctness depends on interleavings, retries,
crashes and lost or repeated messages. TLC checks the models on small
instances; TLAPS proves the most important properties for every value of the
constants.

    tlc -workers 2 -config OrderSaga.cfg MCOrderSaga      # one run (see PROJECT.json)
    tlapm OrderSagaProofs.tla                             # one module's proofs

`PROJECT.json` lists the components, the runs with their properties, a mutant
for each property (a plausible bug that the property catches), the source
lines each definition models, the hazards the properties are for, and the
theorems.

## The system

| Component | State it keeps | Operations that change it | Talks to |
|---|---|---|---|
| order saga (`order/workflows.py`, `activities.py`) | workflow position, signals received, unwind arguments; the order row and its outbox | reserve, authorize, mark, confirm, start delivery, unwind, capture, settle | inventory, payment, dispatch (activities); kitchen and customer (signals) |
| kitchen and cancel API (`order/domain`) | the same order row | decide, preparing, ready, request cancel | the saga, by signal |
| order placement (`order/domain/service.py`), pricing | quotes, consented totals, one idempotency key per cart (browser) | quote, place, attach | catalog, identity, Temporal |
| inventory | stock rows, kitchen load row, reservations | reserve, release, commit, expire, admin edits, provisioning | called by the saga; consumes catalog events |
| payment, mock PSP, idempotency library | payments row, ledger, outbox, idempotency keys; the PSP's holds and replay memory | authorize, capture, void, refund; reserve, take over, complete and release a key | called by the saga; calls the PSP |
| dispatch | rider rows (lock, jobs), delivery rows | offer, accept, assign, revoke, pick up, deliver, cancel, shift | called by DeliveryWorkflow; signals it through the order service |
| outbox and kafka libraries | outbox rows, topics, group offsets, DLQ | stage, drain, mark, poll, handle, retry, park, commit, replay | every service |
| notification | inbox rows, receipts, delivery log | handle events, render and send receipts, sweep | Kafka, Celery, mailer |
| analytics | order facts, views, item facts | fold, repoint | Kafka |
| catalog | restaurants, brands, categories, items, overrides, outbox; menu and browse caches | onboarding, branches, edits, snapshots, invalidation | Kafka, Redis, identity |
| identity, edge BFF | users, sessions, addresses, signing keys; cached key set, rate-limit windows | register, log in, refresh, grant; verify, route, limit, proxy | Kafka, Redis |
| AI assistant | conversations, facts; menu index and its queue; order history, profiles; content drafts | ask, turn, drain, recommend, credit, draft, publish | catalog, Kafka, Celery, model providers |
| tracking stream, bell, rider gateway | none that must survive: tickets, hints, presence keys | publish, subscribe, relay, ping | Redis, SSE, WebSocket |
| frontend | the pair of tokens, the cart's key, panels, what a page has read | check out, refresh, ask, publish, poll | the edge |
| auth, api, otel libraries | the verifier's key cache | verify, middleware | |
| tools, deployment | outside the services | | |

What is hard in it:

* **At-least-once everywhere.** A Temporal activity is retried after its effect
  happened, a message is handled again after its offset was not committed, an
  HTTP call takes effect after its caller has stopped listening.
* **Guarded rows instead of locks.** Orders, payments, reservations and
  deliveries move by compare-and-set. Each race is decided by one write, and
  the code after the write must act on who won.
* **Two writes that belong together** but cannot be one transaction: PSP and
  payments row, rider row and delivery row, handler and offset.
* **Caches and hints beside the record.** Menu caches, key sets, search indexes
  and live streams are all copies of a row that may move first; each needs a
  way to catch up that does not depend on a message arriving.
* **Undoing.** A saga that fails half way must give back exactly what it took,
  also what it does not know it took.

## Modules

| Module | Subject | Composes or implements |
|---|---|---|
| `OrderLifecycle` | what the order service promises about one order: status, money, announcements | |
| `OrderSaga` | the workflow, its child, the API beside it and the effects of the activities | implements `OrderLifecycle` |
| `Explain` | what the assistant says of an order, from the timeline it is given, as operators | |
| `OrderExplained` | the timeline order answers of the saga's row, and what its customer is told | `OrderSaga` and `Explain` |
| `Inventory` | stock, slots and reservations, statement by statement | the services behind `OrderSaga`'s reservation |
| `Payment` | payments row, ledger, keys and PSP | the services behind `OrderSaga`'s hold and payment |
| `Dispatch` | riders, deliveries and the offer cascade | refines the child that `OrderSaga` keeps as a few steps |
| `EventPipeline` | outbox, topic, consumer groups, DLQ and replay | carries what the saga announces |
| `Pricing` | price_order and is_open_at as operators | used by `Placement` |
| `Placement` | checkout page, quote, key, place(), workflow start and attach | the step before `OrderSaga` begins |
| `Catalog` | brand, branches, menus, events, caches, the consumers that follow | shares the run `storefront` with `Placement` |
| `Edge` | routes, limits, header stamping as operators | used by `Identity` |
| `Identity` | account, sessions, tabs, key rotation, grants, limiter | |
| `Receipts` | a settled order's receipt, a refund's bell entry | what `EventPipeline` delivers |
| `Live` | order page and bell over hints, tickets, streams and polls | shares the run `notification` with `Receipts` |
| `Presence` | rider socket, presence keys | what `Dispatch` leaves to chance |
| `Assistant` | a chat turn from question to settled row and reader | |
| `Knowledge`, `Recommend`, `Studio` | menu index; recommendations; content drafts | each extends the one before |
| `MC*` | instances for TLC (lines of orders, symmetry) | |
| `*Proofs` | theorems and their proofs | extend the module they are about |

The tables below name what the runs check. Further properties are stated in
the modules and hold on the same instances (add them to the run's `.cfg` to
repeat it); they are listed as *also stated* and are not in the runs, which are
kept to the deepest ones.

### OrderSaga

One order. `status`, `reason` and `events` are the order's row and outbox;
`resv`, `hold` and `pay` are what inventory, the PSP and payment hold for it;
`pc` and `childPc` say where `OrderWorkflow.run` and `DeliveryWorkflow.run`
stand; `mail` holds the signals that API requests have decided to send. An
activity attempt performs its effects one transaction or call at a time. After
an effect the answer may arrive, may be lost (`AnswerLost`: the attempt starts
again), or the workflow may give the attempt up before its effect happened
(`AttemptAbandoned`): the effect then waits in `strays` and lands at any later
time, or never. This is how a `schedule_to_close` deadline that fires under a
running attempt shows in the model. The kitchen, the customer and inventory's
reaper act at any time.

`OrderLifecycle` is the promise without workflow, retries or messages; the
refinement mapping reads `money` off the three books.

`Explain` is the decision tree of the assistant's `explain.py` over whatever the
readers of order, payment and dispatch answered (or failed to);
`OrderExplained` feeds it with the row of the saga, which is the whole of what
the order service tells it, and every delivery the dispatch service may report.

| Property | Says |
|---|---|
| `MoneyFollowsFood` | money is captured only for delivered food, and a settled order was captured |
| `FailsOnlyOnUnheardMove` | a workflow fails at BEGIN_CANCEL of a row that an unheard attempt moved on, or at a retry of `mark_accepted` the kitchen outran, and nowhere else |
| `ImplementsLifecycle` | every step is a step of `OrderLifecycle` or none |
| `MoneySentenceIsTrue` | nobody is told that nothing was charged while a hold is on the card, or of a hold that never was |
| `CompensationCompletes` | an unwind that has begun ends |

*Also stated*, and proved: `TypeOK`, `KitchenCancelHoldsNothing`,
`AnnouncedOnce`, `CourierCueHasTarget` (food that is ready never signals a child that does not
exist yet), `ParentOutlivesChild`. Also stated: `DeliveredSettles`,
`CancelIsResolved`.

*Run `order_saga`* (`MaxStrays = 1`, about 91,000 states; an order is stamped and
its customer asks at moments 0 or 700, one beyond each of the tree's timeouts). One order is enough
because orders share nothing in the saga; one abandoned attempt at a time meets
every step of the saga, and several in sequence are covered.

Fairness: Temporal retries an activity until it is heard (strong fairness, as
answers may be lost again and again but not for ever), evaluates a wait whose
condition holds, and delivers a cancellation to the child. The kitchen, the
courier and the customer need never act, except that a courier who has
delivered is heard in the end.

### Inventory

One restaurant (every key contains it). `rows`, `avail`, `active`, `capacity`
and `resv` are the tables; `tx` says how far each process has come in its
transaction. A transaction is as many steps as it has statements that wait for
a row lock or read what another may change (READ COMMITTED). What it has
written, and the locks it holds, follow from how far it is, so neither is a
variable. Any step may fail and roll back; a cycle of waits has a victim.

| Property | Says |
|---|---|
| `SlotsMatchActive` | the load row counts exactly the active reservations |
| `StockConserved` | what is available is never negative and, with what is reserved and consumed, adds up to what was supplied |
| `CapacityRespected` | a slot is given out only below the capacity then in force |
| `EndsOnce` | a reservation ends once: released, consumed or expired |
| `OverdueEnds` | the reaper reaches every overdue reservation |

*Also stated*: `TypeOK` (proved), `RequestsEnd` (lock cycles are broken).

*Run `inventory`*: two orders that name two items in opposite order, one of them
naming an item twice; a batch of one, one failure or crash. A behaviour is a
*rush* (two workers, after which the admins only change the capacity) or a
*shift* (one worker with the admins at work); 92,510 states. Fairness: a
statement that can run again and again does run, PostgreSQL breaks deadlocks,
the reaper's loop goes on.

### Payment

One order. A request is one execution of an operation by some instance; each
transaction and each PSP call is one step, and a request may stall between any
two, so that its idempotency key expires and is taken over while it is alive.
The PSP replays by key and may restart and forget (`psp.gen`); a request that
was not heard stays on the `wire` and may still arrive. Ages of keys are
abstract units that cross the two TTLs.

| Property | Says |
|---|---|
| `EntriesMatchRow` | ledger pairs and staged events are exactly those of the row's movements |
| `BooksAgree` | the row never claims more than the PSP did with the reference it names |
| `OneVerdict` | no two authorize requests are told different verdicts |
| `RetriesEnd` | a caller that keeps trying is answered in the end |

*Also stated*: `TypeOK`, `SuccessIsReal` (proved: an operation that was answered
with success shows in the row).

*Run `payment`*: two concurrent requests of any operations, three operations in
all, one crash or unheard call, one PSP restart; 430,000 states. Three
operations suffice for authorize, capture and a racing void or a repetition.
TTLs of 0 let a key expire as soon as time passes. Fairness: an instance that
is alive goes on, Temporal retries, time passes.

### Dispatch

Riders (`online`, `lock`, `jobs`), delivery rows (`row`), the workflow of each
order (`pc`, `rider`, `offer`, `exclude`, the signals it has) and the running
attempts (`calls`), rider requests (`taps`) and signals (`mail`). Every write is
one conditional DynamoDB `UpdateItem`, so every write is one step. An attempt
whose answer is lost is made again while the old one goes on as a stray. The
geo index is no source of truth and may show or hide any rider; scoring may
prefer any of them.

| Property | Says |
|---|---|
| `CapRespected` | a rider's jobs and the offer under its lock never exceed the cap |
| `PickupIsFinal` | a delivery that was picked up stays with its courier |
| `CascadeEnds`, `DeliveryIsMarked` | the cascade ends whatever riders do, a completed delivery is marked |

*Also stated*: `TypeOK`; `CourierHasJob` (the courier in a delivery row has that
job in its own row, under `rider_cap`'s default of one) and `DeliveredIsReal`,
both proved.

*Run `dispatch`*: one order, two riders, two offers, one loss; 946,000 states.
*Run `dispatch_live`*: one rider and one loss. Fairness: the workflow
and its timers go on, attempts run, signals arrive unless lost, and a rider who
has the food delivers it and repeats the tap until it is taken. Nothing makes a
rider accept or pick up.

### EventPipeline

The events of one order: the topic's key is the order, so they share a
partition. `staged` and `marked` are the outbox; `poller` is its pass; `topic`
and `dlq` are logs; `group` holds each consumer group's committed offset and its
progress through the poll in hand; `facts` and `inbox` are the two handlers'
books; `replay` is the tool. The group "facts" is analytics' projector (batches
that degrade to singles), "inbox" is notification's handler (single events);
the other consumers run the same two loops. At most one event is undecodable or
breaks one handler until a fix ships. There is one poller, which is what
`poller.py` demands, and events are staged in the order of their `occurred_at`.

| Property | Says |
|---|---|
| `NothingSkipped` | what lies below a committed offset was handled or is parked |
| `OrderOfFirstSight` | the topic first shows an order's events in staging order |
| `EveryEventArrives` | each staged event is, again and again, handled by each group or parked and not yet replayed |

*Also stated*: `TypeOK`, `MarkedIsOnTopic` (part of `OrderCorrect`'s invariant),
`ParkedForCause` (proved: fewer transient failures than attempts never park a
healthy event), `FactsSettle` (without replays the projection ends at the newest event
it has seen).

*Run `event_pipeline`*: two events, batches of two, two attempts, one fault,
one replay; 881,000 states. Two events are what order, batches and poison
isolation need. Fairness: the poller's and the consumers' loops go on after each
failure; nothing is assumed of the operator.

### Placement and Pricing

`Pricing` is `price_order` and `is_open_at` as operators. `Placement` is one
customer's checkout: the page (`tab`: cart, quote, the confirm button), the
browser's stored key (`idem`), callers that use the API directly, each request's
way through `place()` (`req`, its pc named for the await it stands at), the
workflow started under an id derived from the key (`saga`) and the order's row.
The menu moves at any time; a start, a probe or an answer may fail or be lost,
and a wait for the workflow may run out of time or break.

| Property | Says |
|---|---|
| `ChargedAsConsented` | an order charges exactly the total its customer consented to |
| `AckIsThisCart` | a page told "placed" holds the cart the order was made of |
| `OneDinner` | retrying a checkout does not order twice, but for the listed causes |

### Catalog

One owner: a brand with its base menu, two branches. `db` holds the committed
rows; `tx` each edit's transaction: data rows, then for every restaurant it
touches a snapshot, a row lock and a staged event, then commit, then cache
invalidation. `topic` is compacted and keeps the last event of each restaurant.
`cache`, `render` and `rd` are the menu cache, its render lock and its readers.

| Property | Says |
|---|---|
| `LastEventTellsAll` | the surviving event tells the restaurant as it is, but for an event staged while another edit committed |
| `MenusConverge` | neither a stale menu nor a stale page outlives its TTL |

*Also stated*: `TypesOK` (both modules), `NamesAgree` (proved), `MenuIsWhatSells` (proved),
`PartnersConverge`.

*Run `storefront`* (about 563,000 states) holds both modules. A checkout keeps
nothing of the menu but its price, so a behaviour is either edits (two edits
side by side, or one beside a reader), a page that presses three times, or a
page beside an API caller with two presses. The second request slot is used only
when the first is busy, as slots are interchangeable. Fairness: an edit, a read
or a consumer that has begun goes on, and TTLs pass; nobody need edit or order.

### Edge and Identity

`Edge` is the front door's decisions as operators: which rule a path matches,
who may call it, which budget it draws on, which identity headers the service
sees. `Identity` is one user: the account's rows, sessions with one current
refresh token each, grants in the request and from the topic, concurrent
additions of addresses; the tabs of one browser, each with the pair in memory,
one storage between them and their single-flight refresh; the requests (`calls`)
through the edge with its cached key set (`jwks`, clamped from refetching) and
its limiter (`hits`).

| Property | Says |
|---|---|
| `KeptSignedIn` | a tab loses its session only for a listed cause, never by accident |
| `GrantConverges` | the owner of a brand gets the role even if the grant in the request was lost |

*Also stated*: `OnboardedIsOwner` (proved: after onboarding returns the tab's
claims carry the new role, but for a refresh already under way),
`ServiceSeesVerified`, `RoleClasses` and `AddressesBounded` (proved),
`IdentityTypeOK`, `RotationConverges`, `CallsReturn`.

*Run `identity`*: the casts say who is at work together (two tabs that share a
storage, requests that share a refresh, overlapping grants, a key rotation, an
armed limiter, two additions); each is small because they meet in the account's
rows only. Fairness: a request that was sent is answered, one way or another;
the consumer reads its topic and does not die for ever (strong fairness on
applying the grant).

### Receipts and Live

`Receipts` has, per order, the receipt row, its `delivery_log` row, the Celery
messages and how far each worker is, the sweeper's read and its enqueues, and
what identity and the mail provider make of the customer; per refund, its
Temporal workflow. Tasks are acknowledged late, so a worker that dies runs
again; a database that fails after the provider took the mail leaves the row to the
sweeper, and the same mail may go out twice.
`Live` is one open page: the order page or the bell. Rows are the record; a
commit is followed, as a step of its own, by a hint on a channel nobody stores;
a stream opened by a ticket relays it and the page fetches again. While its
stream is up a page does not poll.

| Property | Says |
|---|---|
| `CopiesHaveReasons` | a second copy of a money document needs one accepted reason per extra copy |
| `ReceiptIsMailed` | a settled order's customer is mailed, or the row waits parked |
| `QuietMeansCurrent` | when nothing is under way, a page that hears its stream shows the record, but for a hint or GET known to be lost |
| `TrackConverges` | the order page shows the last move in the end |
| `BellHasFloor` | a bell without a stream polls until it is current |

*Also stated*: `TypesOK` (both modules, proved), `LedgerAgrees` (proved), `RefundRings`,
`FinishedIsQuiet`, `ReadStaysRead`, `TapIsSeen`.

*Run `notification`*: one order and two Celery messages, which is what two
overlapping chains need (so a sweep's LIMIT never cuts an order off), one
refund, three faults; or one notice delivered
twice, two moves, two mishaps, one tap. Fairness: Kafka delivers, workers, beat
and Temporal run, the bus returns, timers fire, requests are answered (strong
fairness on a GET being answered well); humans promise nothing.

### Presence

Going online writes the rider's record and the two Redis keys the cascade
searches; after that only pings over the rider's socket renew them, and the
gateway accepts the socket by the token's claims. *Run `rider_presence`* shows a
defect: `rider_gateway/main.py:118` asks for a claim `role`, the issuer mints
`roles`, so every socket is refused and an online rider is no candidate any more
after 90 seconds, although `main.py:5` says "a dead socket costs latency, not
correctness". A tick is 30 s, the grain of the two TTLs. With the claim read as
`roles` the property holds. The relay of offers to a socket is unreachable while
no socket opens, and is not modelled.

### Assistant

Two questions asked from one panel. `ask` is the POST that files the question
and the empty answer row in one transaction; `run` the detached task through
guard, retrieval, generation over the providers in failover order, and
grounding; `row` and `facts` what it settles together; `reader` the one stream
the ask's ticket opens, with what it has heard. A text is the set of its pieces.

| Property | Says |
|---|---|
| `FactPerAnswer` | a settled answer has exactly one fact, and it says how the answer ended |
| `HeardWhole` | a reader given the terminal frame has heard every word the row keeps |
| `TurnSettles` | a turn whose process, bus and database hold settles its row |

*Also stated*: `TypeOK` and `OwnContext` (proved), `OneVoice`, `GuardArmedNext`,
`PanelFrees`.

*Run `assistant`*: one panel, two customers, two providers, one chunk per
generation; a behaviour has one fault or one change of customer. Fairness: one
condition, that something that can run does; behaviours are finite.

### Knowledge, Recommend, Studio

`Knowledge`: each branch's events, the debounce queue (`pending`), the drain
that reads, embeds what changed and replaces a branch's rows. `Recommend`:
orders, profiles, what was shown and which order is credited to it. `Studio`:
drafts, the Celery jobs that write them, the consoles that publish (a PATCH of
the catalog, then a call that records it). A job's write and its completion can
both fail for good, which parks the row.

| Property | Says |
|---|---|
| `IndexConverges` | once the menus stop changing the index shows them, whatever failed |
| `CreditedOnce` | an order is credited exactly once to each showing it could have come from |
| `PublishedWasShipped` | copy recorded as published had been written to the menu first |
| `DraftSettles` | a queued row is in the end written or parked, unless a fault took its message |

*Also stated*: `PersonalNeedsOrders`, `ProfileKept`, `DecisionStands`,
`ToldTheTruth`, `QueuedHasJob`, `OneJobEach` (proved); `TypeOK`,
`NoEditForgotten`, `VectorsMatch`, `FixedWindow`, `EmptyForCause`,
`CombosFitACart`, `SummaryStays`.

*Run `studio`*: two branches of a brand, a dish of the brand's and one of a
branch's own, one drain, two orders, two consoles and two jobs. A behaviour
spends one of a few budgets of edits, faults and presses; each is what one of
the hazards needs, and their product would repeat them. Fairness: one condition,
that something that can run does. The theorems are about `PlaneSpec`, which
starts from any budgets, fresh texts and sets of orders, consoles and jobs.


## Proofs

All theorems hold for every value of the constants that the named `ASSUME`s
allow. Each rests on an inductive invariant, stated in the `*Proofs` module, and
one lemma per action or group of actions that preserves it.

* **OrderSagaProofs.** `TypeCorrect`: `TypeOK`. `MoneyCorrect`:
  `MoneyFollowsFood`. The property is not inductive, since an abandoned capture
  may land at any time. `MoneyInv` adds who may have a capture outstanding: a
  capture is attempted, or is a stray, only after the child closed as delivered
  (`ChildInv`), the position of the parent implies the row it has seen
  (`PositionInv`), an unwind never runs beside a delivered order (`PlanInv`),
  and settling follows a capture (`SettlingInv`, `PaidInv`, `CueInv`).
  The others rest on `PathInv`: for each row and plan, where parent and child may
  stand (`WhereAt`, `CourierAt`), which effects may still land late (`StrayAt`),
  what the books and the stock then hold (`BooksAt`, `StockAt`), and what an
  unwind has still to return (`ReturnAt`). A step is split into the effect, with
  the control where it was, and the move of the control after it, so that each
  effect is looked at once, whoever attempts it or abandoned it. From it follow
  `FailsCorrect` (`FailsOnlyOnUnheardMove`: `MayFail` in each answer and wait), `CancelCorrect`, `AnnouncedCorrect`,
  `CourierCorrect` and `SentenceCorrect` (`MoneySentenceIsTrue`: each branch of
  the decision tree that mentions money, against the rows in which the tree can
  take it). `LifecycleCorrect` is the refinement: the initial state maps to
  `OrderLifecycle`'s, and each effect to one of its moves or to a stutter.
* **InventoryProofs.** `SlotsCorrect`, `EndsOnceCorrect`, `CapacityCorrect`. The
  invariant relates the load row to the active reservations and what each open
  transaction has prepared; exclusion on the load row follows from the derived
  locks. `StockCorrect` (`StockConserved`): a stock row has one holder and what a
  reserve has taken of it is on the shelf (`ClaimInv`), an item without a row is
  in no reservation (`RowInv`), and the sums balance (`Balanced`). The sums are
  folds over sets; that a fold adds, whatever elements it chooses, is proved
  first (`SumExists`, `FoldAdds`) by taking a smallest counterexample, which the
  library's `WFMin` provides without an operator as parameter. `InventoryTypes`
  is `TypeOK`.
* **DispatchProofs.** `CapCorrect`: the cap holds because every conditional
  write keeps jobs and lock of a rider in step (`Ledger`). `PickupFinal`: every
  move of a delivery row is one of a table of moves. `MarkedIsDelivered`
  (`DeliveredIsReal`): whoever is said to have delivered has (`Heard`), the
  workflow has one attempt whose answer it takes (`Calling`), and it means the
  rider it heard of (`Marked`). `CourierKeepsJob` (`CourierHasJob`): a rider who
  accepts under a cap of one holds nothing yet, so at most one thing at a time
  speaks for the job of a delivery that is not over: the accept on its way to
  the row, the row, or the revoke on its way to the rider (`Claims`).
* **PaymentProofs.** `EntriesCorrect` (`EntriesInv`), `VerdictCorrect`
  (`ToldInv`, `StoredInv`, `PendingInv`: what was told, stored under the key or
  is about to be written agrees with the row) and `BooksCorrect` (`RefInv`,
  `HoldInv`, `CallInv`, `WriteInv`: references come from the PSP's present or an
  earlier life, and a write that is pending is one the PSP has performed).
  `SuccessReal` (`SuccessIsReal`): whatever will be answered as a success, from a
  request, a key or the row as it was read, has a movement behind it that no
  later one takes back (`SaidInv`).
* **EventPipelineProofs.** `SkipCorrect`: besides the offsets, the invariant
  follows a poll in hand. What is behind is accounted for (`Behind`), and what a
  batch leaves out because it cannot be decoded has been parked (`Ahead`).
  `OrderCorrect`: the batch in hand is the oldest part of what is not published
  (`OldestInv`), what was sent or parked has been on the topic (`SentInv`,
  `ParkedInv`), so a send repeats an event or is the next new one.
  `ParksWithCause` (`ParkedForCause`) counts: the failures there have been are at
  least the attempts that have been charged (`Tally`).
* **StorefrontProofs.** About `Placement`: `ShapesCorrect`: `TypeOK`. `ConsentCorrect`
  (`ChargedAsConsented`) and `AckCorrect` (`AckIsThisCart`) rest on `PlaceInv`: a
  workflow's input was priced for one body (`SagaInv`), what a request holds at
  each of its awaits agrees with the workflow of its key (`RequestInv`), and a key
  of a page was only ever posted with the cart it was minted for (`KeyInv`).
  `DinnerCorrect` (`OneDinner`) is for one page: the property itself excuses what
  a second tab may do. It adds which keys of the browser may have a live order
  (`DinnerInv`). About `Catalog`: `EventsTellAll` (`LastEventTellsAll`),
  `BranchesShareName` (`NamesAgree`) and `MenuSells` (`MenuIsWhatSells`), for any
  number of editors and branches, from one invariant, `CatInv`. It says that rows
  keep their owners (`RowsOK`) and items a category their owner sees (`Filed`);
  that what an operation in flight names is still there or still its own (`OpOK`,
  `OpenOK`), which needs who holds which row and who refers to what is being
  deleted (`Apart`); and that an open transaction nobody committed around has
  staged the document it will commit, of the brand and then of every branch
  (`Staging`, `Fanned`). An edit of a branch shows in no other document
  (`Confined`), so what a commit changes it has staged.
* **AssistantProofs.** `TurnsHold`: `TypeOK` and `TurnInv`, which says for every
  place of a turn's task what its row (`RowOk`), its facts and its reader
  (`ReaderOk`) may be; each turn by itself, so a step is looked at for the turn
  that takes it. `FactCorrect` (`FactPerAnswer`) and `HeardCorrect`
  (`HeardWhole`) follow. `ContextCorrect` (`OwnContext`): who owns a conversation
  and what a turn has read of it (`ContextInv`).
  About the plane that `Studio` completes, `PlaneSpec`: `CreditCorrect`
  (`CreditedOnce`) rests on `ShopInv`. Showings and orders have instants of their
  own, so what an order may be credited to is settled when it is placed; the
  first handling pays all of it, a redelivery finds it paid (`Claims`), and of
  each payment one fact is staged (`Facts`), although a batch stages them in
  whatever order it finds them. `PersonalCorrect` and `ProfileCorrect` follow
  from the rows a profile is built of (`Tastes`). `ShippedCorrect`
  (`PublishedWasShipped`), `ToldCorrect` and `DecisionFinal` are read off the
  moves a draft, a console and the menu can make (`StudioMove`): a row that was
  decided does not change, so a console that still holds it (`InHand`) records
  only what its own PATCH wrote, and what it was told stays true (`Confirmed`).
  `QueuedCorrect` and `OneJobCorrect` count the messages of a row over its life:
  one from the time it is queued until a worker ends it, one more for each
  redelivery (`JobLimit`); a queued row has one left or a fault on record
  (`HasJob`).
* **CustomerProofs.** About `Receipts`: `CopiesCorrect` (`CopiesHaveReasons`)
  counts, for each order, the sends that have passed the check of the log and
  those the provider has accepted (`SendInv`); a step changes these numbers by
  one. `LedgerCorrect` (`LedgerAgrees`) and `ReceiptTypes` with it. About `Live`:
  `QuietCorrect` (`QuietMeansCurrent`) says what a page that knows an old record
  still has under way: a hint due or in the pipe, an event on the wire, a GET
  (`NewestInv`), with what an open stream implies of its page (`StreamInv`,
  `PastInv`). `LiveTypesCorrect` is its type invariant. These are theorems of
  `LiveSpec`, any page alone, of which the run `notification` checks two.
  About `Identity`: `RolesCorrect` (`RoleClasses`) follows the grants on their way:
  whoever ends with both roles had both granted at once (`RoleInv`).
  `ServiceCorrect` (`ServiceSeesVerified`): claims are the rows of the moment of
  issue and rows only grow, so what a token says stays vouched for (`ClaimInv`),
  and a header of the client's never reaches a service. `KeptCorrect`
  (`KeptSignedIn`): until trouble is on record, a tab that holds a session has its
  current refresh token, or its own refresh has just replaced it (`TokenInv`).
  `OwnerCorrect` (`OnboardedIsOwner`): the refresh that follows a grant reads the
  roles after it (`OwnerInv`). `AddressesCorrect` (`AddressesBounded`) counts the
  additions that have passed their check (`AddressInv`).

The assumptions on constants are those of the modules: bounds are numbers, names
that mean "nothing" name nothing, reservations have lines with positive
quantities, carts and panels exist, menu totals are numbers, an account may have
an address, and no request for a rider's role is one of the page's. TLC evaluates them
in every run.

Only model-checked: every liveness property (fairness and ENABLED are outside
the proof system's reach); the properties of `Knowledge`, `RotationConverges` of
`Identity` and `SummaryStays` of `Studio`, for which no inductive invariant has
been written yet; `EmptyForCause` and `CombosFitACart`, whose lists are filtered
and sorted copies of others (what `SelectSeq` and `SortSeq` compute is an
induction over data); the type properties of `Payment`, `Dispatch`,
`EventPipeline`, `Identity` and `Studio` that are listed as also stated; the
pricing and routing operators, which TLC compares with reference definitions
over all small inputs (`PricingRanks`, `HoursFollowTheClock`, `RoutesAgree`,
`StampedAgree`).

## Disagreements

Each line says what the code does and what a comment or document says of it.
Only the first has a run of its own (`rider_presence`). Those with a `.cfg` are
properties the code does not meet, kept with an instance whose counterexample
TLC finds in seconds:

    tlc -config OrderSagaAcceptRetryFails.cfg MCOrderSaga    # AcceptedOrderHasWorkflow
    tlc -config DispatchStrandedRider.cfg MCDispatch         # CancelFreesRiders
    tlc -config DispatchOverlooked.cfg MCDispatch            # NoCourierOverlooked
    tlc -config DispatchAcceptReply.cfg MCDispatch           # AcceptAnswersSuccess
    tlc -config EventPipelineReplay.cfg MCEventPipeline      # LastEventWins
    tlc -config AssistantGuard.cfg MCAssistant               # GuardStaysArmed

Order saga, inventory, payment, dispatch, events:

* `mark_accepted` whose answer was lost is retried after the kitchen has moved
  on, raises `IllegalTransition` (`activities.py:179`) and fails the workflow of
  an order that is being cooked; `activities.py:5` says "A retried activity
  therefore replays instead of repeating".
* `workflows.py:74` says of an exhausted forward deadline that "it can never
  become a workflow failure"; when the last attempt moved the row unheard, the
  unwind names a stale state (`workflows.py:179`) and fails the workflow on the
  guard. `FailsOnlyOnUnheardMove` says exactly when.
* DeliveryWorkflow cleans up only on `asyncio.CancelledError`. A child that is
  cancelled inside an activity gets an `ActivityError`, the dispatch is not
  cancelled and the rider's lock stays, although "a cancelled order must never
  strand a locked or assigned rider".
* `rider_cap` (`dispatch/config.py:29`) is a setting, but only its default of one
  keeps the two tables together: with two, a late `find_and_offer` can offer a
  revoked delivery again while an old accept of the same rider is on its way,
  which then assigns a row whose job the revoke has taken away (`CourierHasJob`
  without its premise).
* `expire_offer` between the two writes of `accept_offer` overlooks a courier
  who has the job in their own row.
* The order service's courier client never sends the offer's id, the order
  service answers 422, and every accept is answered 503.
* `payment/domain/service.py:228` refuses to void a payment that has no row, and
  the order's client takes that 409 for a no-op. When the PSP approved and the
  row was never written the hold stays, although `workflows.py:173` promises to
  "undo everything it could have acquired".
* Inventory's reaper expires a reservation 1800 s after it was made, whatever
  the order is doing; settling then consumes nothing (`activities.py:214`).
* `IdempotencyStore._take_over` guards by status alone, so two requests that
  read the same stale IN_PROGRESS key both take it over, although its docstring
  says "exactly one wins". The payment service survives it, which the `payment`
  run checks.
* One failed release ends the reaper's pass (`inventory/domain/service.py:293`),
  although the docstring says "a single failure can't wedge the whole batch";
  the next pass repairs it (`OverdueEnds`).
* `unassign_stalled` that is retried after its own success reports a pickup
  (`dispatch/domain/service.py:246`); the workflow then waits for a courier it
  has just released.
* The DLQ is shared by all groups, so a replay for one group puts an old event
  behind newer ones for the others and `order_facts.status` goes back, although
  analytics' `db.py:40` says "last-write-wins here is genuinely last-event-wins".

Placement and catalog:

* A second body under a key whose workflow runs without a row yet is
  acknowledged with the first's order (`temporal_client.py:90`); `order/domain/
  service.py:12` says the key is bound to its body. The page cannot meet it (a
  new cart mints a new key), an API caller can.
* Two tabs can order twice once the first success cleared the key, although
  `client.ts` says "a new tab with the same cart must replay, not double-order".
  A quote that refreshes by itself after 30 s also mints a new key.
* RestaurantNotFound and the 503s bypass the attach probe; an attach to a
  workflow that has finished leaves the refusal standing; a start that failed
  answers "Nothing was written" though it may have begun.
* A catalog event may tell less than the rows when another edit committed
  while it was staged (`service.py:324`), although lines 9-12 say each stands
  alone; the next edit repairs it.
* A brand's cuisines are not copied to its branches, although `BrandOwnedField`
  says "copies propagate". MAX_BRANCHES can be passed by a race; a branch
  created around a rename keeps the old name; deleting a category or a base item
  that others still refer to is a foreign-key error (500); the render lock is
  deleted even if it has expired and another holds it.

Identity and edge:

* Onboarding may join a refresh already in flight and get a token without the
  new role. Any refresh that is not ok (429, 503) logs out, although the comment
  names only "rotated family / reuse-revoked / expired". Of two tabs that share
  a storage the loser of a refresh clears it for both; a sign-out during a
  refresh signs in again; logout leaves the session row.
* The JWKS publishes one key (`docs/ARCHITECTURE.md:175` says two); a token of a
  retired key is "invalid" and not refreshed. A failed fetch of the keys is a
  500 on protected routes and anonymous on public ones.
* The two grants can both pass their checks; MAX_ADDRESSES can be passed by
  concurrent adds; two registrations of one address race into a 500.

Notifications and live views:

* A chain parks what another has sent: the log says sent, the status parked. The
  sweep's LIMIT has no ORDER BY. `fetch_recipients`' 404 is retried for the
  whole budget although `activities.py` says "non-retryable application error
  instead of an hour of polling".
* A hint lost while the bell's stream is up leaves it stale until the next hint
  or refetch, although `push.py` says "a lost hint costs at most one poll
  interval of staleness"; a hint lost between the order page's snapshot and its
  subscription lasts until the stream's lifetime ends (15-30 minutes), although
  `tracking.py` says "a few seconds of staleness". A failed POST for a ticket is
  never repeated (the page polls); a GET that fails under an open stream is not
  repeated; OrderNotFound in `stream_order` is a 500.

Assistant and its indexes:

* The guard leaves with the history window (`policy.py:83`, `turn.py:174`):
  a condition declared early no longer holds later in the conversation.
* A bus that is out during the failure path leaves a row `streaming`, with no
  fact and no terminal frame, although `run_turn` says "A failure marks the
  message `failed` and closes the stream". On shutdown chat tasks are not among
  those waited for, although the comment says "Turns first".
* `OrderTimelineClient` drops `payment_cleared_at`, the stamp that `explain.py:83`
  calls "the evidence"; an order that was authorized and then cancelled for
  `system_timeout` is explained without a word of the money. What is said is true
  (`MoneySentenceIsTrue`), but less than the module's docstring intends.
* The panel asks for a ticket route and reads frame fields the server does not
  have, so a resume always fails. An ask answered after the customer changed
  shows the old customer's turn (`AssistantPanel.tsx:196`). A lost commit reply
  adds the "couldn't finish" note to a complete answer. An answer that is only
  an unfinished marker is sent twice.
* Chat turns pass neither the budget guard nor the semaphore, although
  `domain/service.py` calls it "the only thing standing between a chat burst"
  and the providers.
* Two drains of one restaurant can overwrite a newer index with no pending row
  left (the run has one drain); a poison row starves the others.
* Copy for a base item cannot be published from a branch's console (404); a
  Reject between the PATCH and its record leaves the copy on the menu; two
  consoles whose PATCHes and approvals arrive in different orders leave a row
  that names the other's text. A late park or complete of a redelivered job can
  land on a row that was replayed meanwhile. A failed enqueue or park leaves a
  row `queued`, although `_run_job` says "leave NOTHING in `queued`". The panel
  of recommendations can be empty although its docstring says never.

## Not modelled, and why

* Scoring, geo arithmetic, prompts, retrieval fusion, SQL aggregates, search
  documents, images, formatting: data that no property tells apart; the models
  leave the choice open.
* Analytics' views, items and repoints: the same consumer loop over other
  columns; its aggregates are read only.
* Reads without state: profiles, lists, address reads; proxying of bodies.
* The token budget guard: no chat turn reaches it.
* The offer relay of the rider gateway: no socket opens (see Presence).
* The idempotency janitor: no service starts it. Several pollers of one outbox:
  excluded by the poller's own documentation.
* Opening hours of a branch, menu snapshots that fail to load in the assistant,
  the chunk a restaurant has for itself.
* Rendering and plain forms, seed data, simulators, dashboards, deployment:
  they appear as the requests they may send.

## Plan

Done: the order saga and its promise, placement, pricing, catalog, inventory,
payment with the idempotency library and the PSP, dispatch and presence, the
event pipeline, identity and edge, receipts and live views, the assistant with
its index, recommendations, content studio and explanation of orders; fifty-three
theorems, the refinement of `OrderLifecycle` among them.

Proofs: next is `NoEditForgotten` for one drain, as in the run `studio`. With the
feed read to its end, every pending row of a place carries its current payload,
and a place the index does not mirror has such a row. It needs what `SelectSeq`
keeps of a list, by a smallest counterexample.
