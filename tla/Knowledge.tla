------------------------------ MODULE Knowledge ------------------------------
(***************************************************************************)
(* The assistant's index of the menus: Catalog's change events, the        *)
(* debounce queue they are staged in, the drain that embeds what changed   *)
(* and replaces a restaurant's rows.                                       *)
(*                                                                         *)
(* The menus themselves are Catalog's (modelled in Catalog): here only     *)
(* what an event carries, a dish's text, the dishes a branch has switched  *)
(* off and whether it is open.  A dish belongs to the brand or to one      *)
(* branch; a branch serves its own dishes and its brand's.  The chunk a    *)
(* restaurant has for itself is written and kept with its dishes' and is   *)
(* left out.                                                               *)
(***************************************************************************)
EXTENDS Naturals, Sequences, FiniteSets, SequencesExt

CONSTANTS
    Branches,   \* the places; the index has rows for these only
    Brand,      \* the template they inherit from
    Dishes,     \* item ids, in the order of DishOrder
    DishOrder,  \* the dishes in the order of their ids
    Texts,      \* what a dish's text can say
    Owner,      \* the place or brand each dish belongs to
    Drains,     \* the service processes that run a drain
    BatchSize   \* knowledge_drain_batch

Places == Branches \cup {Brand}
Gone == ""

ASSUME PlacesAssumption == Brand \notin Branches /\ IsFiniteSet(Branches)
ASSUME DishesAssumption == /\ Gone \notin Texts
                           /\ Owner \in [Dishes -> Places]
                           /\ DishOrder \in Seq(Dishes)
ASSUME BatchAssumption == BatchSize \in Nat \ {0}

VARIABLES
    text,       \* Catalog: each dish's text, Gone when it is not on the menu
    off,        \* Catalog: the dishes each branch has switched off
    open,       \* Catalog: the branches taking orders
    feed,       \* catalog.changes: each place's events not yet committed
    read,       \* how many of those this consumer has handled
    pending,    \* knowledge_pending, in the order of due_at
    drain,      \* what each drain is doing
    index,      \* item_chunks: a row per branch and dish
    left        \* how many more edits, faults and other events a run allows

catalog == <<text, off, open, feed>>
kvars == <<text, off, open, feed, read, pending, drain, index, left>>

Serves(r, d) == Owner[d] \in {r, Brand}

Payloads == [text : [Dishes -> Texts \cup {Gone}], off : SUBSET Dishes, open : BOOLEAN]
Payload(t, o, p, r) ==
    [text |-> [d \in Dishes |-> IF Serves(r, d) THEN t[d] ELSE Gone],
     off |-> IF r \in Branches THEN o[r] ELSE {},
     open |-> r \in p]

Pending == [place : Branches, payload : Payloads, due : BOOLEAN]
Chunks == [content : Texts \cup {Gone}, available : BOOLEAN, open : BOOLEAN,
           vector : Texts \cup {Gone}]
NoChunk == [content |-> Gone, available |-> FALSE, open |-> FALSE, vector |-> Gone]
Contents == [Dishes -> Texts \cup {Gone}]
Passes == [batch : Seq(Pending), at : {"read", "embed", "write"}, stored : Contents]
Idle == [batch |-> <<>>, at |-> "read", stored |-> [d \in Dishes |-> Gone]]

KTypeOK ==
    /\ text \in [Dishes -> Texts \cup {Gone}]
    /\ off \in [Branches -> SUBSET Dishes] /\ open \subseteq Branches
    /\ feed \in [Places -> Seq(Payloads)] /\ read \in [Places -> Nat]
    /\ \A r \in Places : read[r] <= Len(feed[r])
    /\ pending \in Seq(Pending) /\ drain \in [Drains -> Passes]
    /\ index \in [Branches -> [Dishes -> Chunks]]

------------------------------------------------------------------------------
(* Chunking.  A dish's text is what is embedded and matched; price,         *)
(* availability and status are columns beside it.                           *)

is_indexable(r) == r # Brand

chunk(p) ==
    [d \in Dishes |->
        IF p.text[d] = Gone THEN NoChunk
        ELSE [content |-> p.text[d], available |-> d \notin p.off, open |-> p.open,
              vector |-> Gone]]

Columns(c) == [content |-> c.content, available |-> c.available, open |-> c.open]
Mirrors(r) ==
    \A d \in Dishes :
        Columns(index[r][d]) = Columns(chunk(Payload(text, off, open, r))[d])

KInit(t0, budget) ==
    /\ text = t0 /\ off = [r \in Branches |-> {}] /\ open = Branches
    /\ feed = [r \in Places |-> <<>>] /\ read = [r \in Places |-> 0]
    /\ pending = <<>> /\ drain = [p \in Drains |-> Idle]
    /\ index = [r \in Branches |->
                   [d \in Dishes |->
                       [chunk(Payload(t0, [q \in Branches |-> {}], Branches, r))[d]
                           EXCEPT !.vector = IF Serves(r, d) THEN t0[d] ELSE Gone]]]
    /\ left = budget

Spend(what) == left[what] > 0 /\ left' = [left EXCEPT ![what] = @ - 1]

------------------------------------------------------------------------------
(* Catalog's writes.  A write publishes the full state of the place it was  *)
(* addressed to and, at the brand, of every branch.                         *)

_publish(o) ==
    feed' = [r \in Places |->
                IF o \in {r, Brand} THEN Append(feed[r], Payload(text', off', open', r))
                ELSE feed[r]]

\* PATCH .../items: the item is looked up under exactly the owner addressed.
Found(o, d) == Owner[d] = o /\ text[d] # Gone
update_item(o, d, t) ==
    /\ Found(o, d)
    /\ text' = [text EXCEPT ![d] = t]
    /\ UNCHANGED <<off, open>>
    /\ _publish(o)

Describe(d, t) ==
    /\ Spend("edits") /\ text[d] # t /\ update_item(Owner[d], d, t)
    /\ UNCHANGED <<read, pending, drain, index>>

delete_item(d) ==
    /\ Spend("deletes") /\ Found(Owner[d], d)
    /\ text' = [text EXCEPT ![d] = Gone]
    /\ UNCHANGED <<off, open>> /\ _publish(Owner[d])
    /\ UNCHANGED <<read, pending, drain, index>>

\* A base dish by the branch's own switch, its own dish by its PATCH.
SetAvailability(r, d) ==
    /\ Spend("edits") /\ Serves(r, d) /\ text[d] # Gone
    /\ off' = [off EXCEPT ![r] = IF d \in @ THEN @ \ {d} ELSE @ \cup {d}]
    /\ UNCHANGED <<text, open>> /\ _publish(r)
    /\ UNCHANGED <<read, pending, drain, index>>

set_status(r) ==
    /\ Spend("edits")
    /\ open' = IF r \in open THEN open \ {r} ELSE open \cup {r}
    /\ UNCHANGED <<text, off>> /\ _publish(r)
    /\ UNCHANGED <<read, pending, drain, index>>

------------------------------------------------------------------------------
(* The consumer and its queue                                               *)

RowOf(r) == {k \in DOMAIN pending : pending[k].place = r}

\* The payload is the newest; the deadline stays that of the first change.
stage(r, p) ==
    pending' = IF RowOf(r) = {}
               THEN Append(pending, [place |-> r, payload |-> p, due |-> FALSE])
               ELSE [k \in DOMAIN pending |->
                        IF k \in RowOf(r) THEN [pending[k] EXCEPT !.payload = p]
                        ELSE pending[k]]

handle(r) ==
    /\ read[r] < Len(feed[r])
    /\ read' = [read EXCEPT ![r] = @ + 1]
    /\ IF is_indexable(r) THEN stage(r, feed[r][read[r] + 1]) ELSE UNCHANGED pending
    /\ UNCHANGED <<text, off, open, feed, drain, index, left>>

CommitOffset(r) ==
    /\ read[r] > 0
    /\ feed' = [feed EXCEPT ![r] = SubSeq(@, read[r] + 1, Len(@))]
    /\ read' = [read EXCEPT ![r] = 0]
    /\ UNCHANGED <<text, off, open, pending, drain, index, left>>

\* A deadline passes.  Every row waits the same time, so they fall due in order.
FallDue ==
    \E k \in DOMAIN pending :
        /\ ~pending[k].due /\ \A j \in 1 .. k - 1 : pending[j].due
        /\ pending' = [pending EXCEPT ![k].due = TRUE]
        /\ UNCHANGED <<text, off, open, feed, read, drain, index, left>>

------------------------------------------------------------------------------
(* The drain                                                                *)

due == LET rows == SelectSeq(pending, LAMBDA row : row.due)
       IN SubSeq(rows, 1, IF Len(rows) < BatchSize THEN Len(rows) ELSE BatchSize)

tick(p) ==
    /\ drain[p] = Idle /\ due # <<>>
    /\ drain' = [drain EXCEPT ![p].batch = due]
    /\ UNCHANGED <<text, off, open, feed, read, pending, index, left>>

Drained(p) == Head(drain[p].batch)
Working(p, step) == drain[p].batch # <<>> /\ drain[p].at = step

contents_for(r) == [d \in Dishes |-> index[r][d].content]

\* The chunks whose text differs from what is stored under their id.
_stale(k, stored) == {d \in Dishes : k[d].content \notin {Gone, stored[d]}}

ReadStored(p) ==
    /\ Working(p, "read")
    /\ LET stored == contents_for(Drained(p).place) IN
       drain' = [drain EXCEPT ![p].stored = stored,
                              ![p].at = IF _stale(chunk(Drained(p).payload), stored) = {}
                                        THEN "write" ELSE "embed"]
    /\ UNCHANGED <<text, off, open, feed, read, pending, index, left>>

embed(p) ==
    /\ Working(p, "embed")
    /\ drain' = [drain EXCEPT ![p].at = "write"]
    /\ UNCHANGED <<text, off, open, feed, read, pending, index, left>>

\* Mutant: the failed pass takes its rows with it.
EmbedFails_drops(p) ==
    /\ Spend("faults") /\ Working(p, "embed")
    /\ pending' = SelectSeq(pending, LAMBDA row : row \notin ToSet(drain[p].batch))
    /\ drain' = [drain EXCEPT ![p] = Idle]
    /\ UNCHANGED <<text, off, open, feed, read, index>>

\* The provider fails: the exception ends the whole pass, the rows stay queued.
EmbedFails(p) ==
    /\ Spend("faults") /\ Working(p, "embed")
    /\ drain' = [drain EXCEPT ![p] = Idle]
    /\ UNCHANGED <<text, off, open, feed, read, pending, index>>

\* A chunk with no new vector is an UPDATE of the row there is; one with a
\* vector is an upsert.  Chunks that share a text share its vector.
_upsert(row, c, vectors) ==
    IF c.content \in vectors THEN [c EXCEPT !.vector = c.content]
    ELSE IF row = NoChunk THEN NoChunk ELSE [c EXCEPT !.vector = row.vector]

\* What is no longer listed is deleted: an event carries the absence only.
_reconcile(r, k) == {d \in Dishes : index[r][d] # NoChunk /\ k[d] = NoChunk}

replace_restaurant(r, k, vectors) ==
    index' = [index EXCEPT ![r] =
                 [d \in Dishes |-> IF d \in _reconcile(r, k) THEN NoChunk
                                   ELSE IF k[d] = NoChunk THEN @[d]
                                   ELSE _upsert(@[d], k[d], vectors)]]

\* The row goes only if it still holds the payload that was drained.
complete(r, p) ==
    pending' = SelectSeq(pending, LAMBDA row : ~(row.place = r /\ row.payload = p))

_drain_one(p) ==
    /\ Working(p, "write")
    /\ LET row == Drained(p)
           k == chunk(row.payload)
           vectors == {k[d].content : d \in _stale(k, drain[p].stored)} IN
       /\ replace_restaurant(row.place, k, vectors)
       /\ complete(row.place, row.payload)
    /\ drain' = [drain EXCEPT ![p] = [Idle EXCEPT !.batch = Tail(drain[p].batch)]]
    /\ UNCHANGED <<text, off, open, feed, read, left>>

\* The process restarts: the pass is lost and uncommitted events are read again.
Restart(p) ==
    /\ Spend("faults") /\ (drain[p] # Idle \/ \E r \in Places : read[r] > 0)
    /\ drain' = [drain EXCEPT ![p] = Idle]
    /\ read' = [r \in Places |-> 0]
    /\ UNCHANGED <<text, off, open, feed, pending, index>>

------------------------------------------------------------------------------
Edits ==
    \/ \E d \in Dishes : (\E t \in Texts : Describe(d, t)) \/ delete_item(d)
    \/ \E r \in Branches : set_status(r) \/ \E d \in Dishes : SetAvailability(r, d)

Indexing ==
    \/ \E r \in Places : handle(r) \/ CommitOffset(r)
    \/ FallDue
    \/ \E p \in Drains : tick(p) \/ ReadStored(p) \/ embed(p) \/ _drain_one(p)

KFaults == \E p \in Drains : EmbedFails(p) \/ Restart(p)

KNext == Edits \/ Indexing \/ KFaults

------------------------------------------------------------------------------
\* Once every event of a branch has been handled, its rows are the menu or the
\* change is still queued: no edit is lost in the seconds an embedding takes,
\* and a dish taken off the menu leaves the index (PendingRepo.complete,
\* replace_restaurant, _reconcile).
NoEditForgotten ==
    \A r \in Branches :
        read[r] = Len(feed[r]) =>
            \/ Mirrors(r)
            \/ \E k \in RowOf(r) : pending[k].payload = Payload(text, off, open, r)

\* A row's vector was computed from the text in the row, although a pass
\* embeds only what changed and keeps the other vectors (_stale, _upsert).
VectorsMatch ==
    \A r \in Branches, d \in Dishes : index[r][d].vector = index[r][d].content

\* A queued change is never put off by a later one: its place in the queue and
\* its passed deadline stay until it is drained (the fixed window of stage).
FixedWindow ==
    [][\A r \in Branches :
          (\E k \in RowOf(r) : pending[k].due) =>
              (\E k \in DOMAIN pending' : pending'[k].place = r /\ pending'[k].due)
                  \/ \E p \in Drains : Working(p, "write") /\ Drained(p).place = r
      ]_kvars

\* Once the menus stop changing the index shows them, whatever failed on the way.
IndexConverges == <>[](\A r \in Branches : Mirrors(r))
==============================================================================
