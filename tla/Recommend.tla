------------------------------ MODULE Recommend ------------------------------
(***************************************************************************)
(* What to offer a customer who has asked nothing: the order history the   *)
(* assistant keeps for itself, the taste profiles built from it, the       *)
(* recommendations and combos read from both and from the index, and the   *)
(* join that says an order took something that was shown.                  *)
(*                                                                         *)
(* Every place is in one city.  Hours of the day and the thirty-day and    *)
(* six-month windows are left out: a run is one sitting of a few orders.   *)
(***************************************************************************)
EXTENDS Knowledge

CONSTANTS
    Users,
    OrderIds,
    Cuisine,        \* a dish's cuisine
    MinTotal,       \* what a dish costs at least, required options included
    Budgets,        \* what a customer may say they can spend; 0: nothing said
    LIMIT,          \* recommend_limit
    MIN_ORDERS,     \* orders a profile needs
    WINDOW,         \* how long after a showing an order can have taken it
    THIN,           \* orders business copy needs
    MaxClock

ASSUME LimitAssumption == LIMIT \in Nat \ {0} /\ MIN_ORDERS \in Nat /\ WINDOW \in Nat
ASSUME AttributesAssumption == /\ DOMAIN Cuisine = Dishes
                               /\ MinTotal \in [Dishes -> Nat] /\ Budgets \subseteq Nat

VARIABLES
    clock,
    showings,   \* recommendations_shown
    placed,     \* orders at Order: what OrderPlaced carries
    ofeed,      \* orders.events: the order ids not committed yet
    oread,      \* how many of those are handled
    rows,       \* order_items: <<order, dish>>
    acceptances,\* recommendation_acceptances
    staged,     \* the outbox: the facts staged, in order
    views,      \* menu_views: <<customer, place, when>>
    profile,    \* taste_profiles: the rows and views each was built from
    shelf       \* the panel: the last answer a customer got

rvars == <<clock, showings, placed, ofeed, oread, rows, acceptances, staged, views, profile,
           shelf>>

Order == [user : Users, place : Branches, dishes : SUBSET Dishes, at : Nat]
Showing == [user : Users, dishes : SUBSET Dishes, at : Nat]

RTypeOK ==
    /\ clock \in Nat /\ showings \in Seq(Showing)
    /\ \A o \in DOMAIN placed : o \in OrderIds /\ placed[o] \in Order
    /\ ofeed \in Seq(OrderIds) /\ oread \in 0 .. Len(ofeed)
    /\ rows \subseteq OrderIds \X Dishes
    /\ acceptances \subseteq Nat \X OrderIds
    /\ views \subseteq Users \X Branches \X Nat
    /\ profile \in [Users -> [rows : SUBSET (OrderIds \X Dishes), views : SUBSET views]]

NoProfile == [rows |-> {}, views |-> {}]
NoPanel == [at |-> "never"]

RInit ==
    /\ clock = 0 /\ showings = <<>> /\ placed = [o \in {} |-> 0]
    /\ ofeed = <<>> /\ oread = 0 /\ rows = {} /\ acceptances = {} /\ staged = <<>>
    /\ views = {} /\ profile = [u \in Users |-> NoProfile] /\ shelf = NoPanel

------------------------------------------------------------------------------
(* What may be offered                                                      *)

Pos(d) == CHOOSE k \in DOMAIN DishOrder : DishOrder[k] = d
TakeFirst(s, n) == SubSeq(s, 1, IF Len(s) < n THEN Len(s) ELSE n)

\* The places whose row for the dish says open and available.
texts_by_item(d) == {r \in Branches : /\ index[r][d] # NoChunk
                                      /\ index[r][d].available /\ index[r][d].open}
menu_attributes == {d \in Dishes : texts_by_item(d) # {}}
hydrate(r, d) == r \in texts_by_item(d)

\* A query that keeps one row per dish keeps any of them.
Pins == {pin \in [menu_attributes -> Branches] : \A d \in menu_attributes : hydrate(pin[d], d)}

OrdersOf(S) == {e[1] : e \in S}
PlaceOf(e) == placed[e[1]].place
UserOf(e) == placed[e[1]].user

\* Distinct orders, then the id.
popular_in(d) == Cardinality(OrdersOf({e \in rows : e[2] = d}))
rank(n) == LET counted == {d \in Dishes : popular_in(d) > 0} IN
           TakeFirst(SetToSortSeq(counted, LAMBDA c, d :
               \/ popular_in(c) > popular_in(d)
               \/ popular_in(c) = popular_in(d) /\ Pos(c) < Pos(d)), n)

\* The n cheapest rows, and a dish has a row at every branch that serves it.
Cheaper(c, d) == MinTotal[c] < MinTotal[d] \/ (MinTotal[c] = MinTotal[d] /\ Pos(c) < Pos(d))
any_in(n) ==
    LET cheapest == SetToSortSeq(menu_attributes, Cheaper)
        before(d) == {h \in Branches \X menu_attributes : hydrate(h[1], h[2]) /\ Cheaper(h[2], d)} IN
    SelectSeq(cheapest, LAMBDA d : Cardinality(before(d)) < n)

_passages(ids) == SelectSeq(ids, LAMBDA d : d \in menu_attributes)

popular(n) == IF rank(n) = <<>> THEN _passages(any_in(n)) ELSE _passages(rank(n))

\* A profile: what a customer's rows that are still indexed say, by order.
taste_rows(u) == {e \in rows : UserOf(e) = u /\ index[PlaceOf(e)][e[2]] # NoChunk}
viewed_restaurants(u) == {v \in views : v[1] = u}
build(p) == [orders |-> Cardinality(OrdersOf(p.rows)),
             cuisines |-> [c \in {Cuisine[d] : d \in Dishes} |->
                              Cardinality({e \in p.rows : Cuisine[e[2]] = c})],
             restaurants |-> [r \in Branches |-> Cardinality({e \in p.rows : PlaceOf(e) = r})
                                                + Cardinality({v \in p.views : v[2] = r})],
             ordered |-> {e[2] : e \in p.rows}]
thin(p) == p.orders < MIN_ORDERS

_top(counts) == CHOOSE n \in {counts[k] : k \in DOMAIN counts} \cup {1} :
                    \A k \in DOMAIN counts : counts[k] <= n
\* The weights 1.0, 0.3 and 0.25, brought to one denominator.
score(p, d, pin) ==
    LET tc == _top(p.cuisines)
        tr == _top(p.restaurants) IN
    20 * tr * p.cuisines[Cuisine[d]]
      + 6 * tc * p.restaurants[pin[d]]
      + (IF d \in p.ordered THEN 0 ELSE 5 * tc * tr)
recommend(p, pin, n) == TakeFirst(SetToSortSeq(menu_attributes, LAMBDA c, d :
    \/ score(p, c, pin) > score(p, d, pin)
    \/ score(p, c, pin) = score(p, d, pin) /\ Pos(c) < Pos(d)), n)

Basis(u) == IF profile[u] = NoProfile \/ thin(build(profile[u])) \/ menu_attributes = {}
            THEN "popular" ELSE "taste"
for_user(u, pin, n) == IF Basis(u) = "popular" THEN popular(n)
                       ELSE _passages(recommend(build(profile[u]), pin, n))

\* What business copy is written from, refused when there is too little of it.
for_restaurant(r) == Cardinality(OrdersOf({e \in rows : PlaceOf(e) = r}))

------------------------------------------------------------------------------
(* The panel: dishes and pairs, priced at Catalog now                       *)

Listed(r, d) == Serves(r, d) /\ text[d] # Gone
Orderable(r, d) == Listed(r, d) /\ r \in open /\ d \notin off[r]

\* Pairs ordered together, and where.
co_ordered == {p \in Branches \X Dishes \X Dishes :
                  /\ Pos(p[2]) < Pos(p[3])
                  /\ \E e, f \in rows : /\ e[1] = f[1] /\ e[2] = p[2] /\ f[2] = p[3]
                                        /\ PlaceOf(e) = p[1]}
Together(p) == Cardinality({e[1] : e \in {x \in rows : /\ PlaceOf(x) = p[1] /\ x[2] = p[2]
                                                        /\ <<x[1], p[3]>> \in rows}})

\* The half of a pair, where it was bought, if it can be shown there.
Halves == {<<p[1], p[k]>> : p \in co_ordered, k \in {2, 3}}
Paired == {h \in Halves : hydrate(h[1], h[2])}
Seen(h) == {Together(p) : p \in {q \in co_ordered : q[1] = h[1] /\ h[2] \in {q[2], q[3]}}}
Rarer(h, g) == \A n \in Seen(h) : \E m \in Seen(g) : n <= m

\* Prices are looked up by dish, each at one place: that of the last passage
\* that names it, and the pairs, most ordered first, come after the list.
for_items(rec) ==
    {by \in [{h[2] : h \in rec \cup Paired} -> Branches] :
        \A d \in DOMAIN by :
            LET extra == {h \in Paired \ rec : h[2] = d} IN
            IF extra = {} THEN <<by[d], d>> \in rec
            ELSE <<by[d], d>> \in extra /\ \A g \in extra : Rarer(<<by[d], d>>, g)}

\* What goes with a dish in an answer: its pairs' other halves.
goes_with(d) == {h \in Paired : h[2] # d /\ \E p \in co_ordered :
                                   p[1] = h[1] /\ {d, h[2]} = {p[2], p[3]}}

Within(total, b) == b = 0 \/ total <= b
affordable(ids, b) == SelectSeq(ids, LAMBDA d : Within(MinTotal[d], b))

\* Pairs with both halves priced at their place and orderable, within the budget.
Total(p) == MinTotal[p[2]] + MinTotal[p[3]]
combine(cards, b) ==
    LET floors == {h \in cards : Orderable(h[1], h[2])} IN
    TakeFirst(SetToSortSeq(
        {p \in co_ordered : {<<p[1], p[2]>>, <<p[1], p[3]>>} \subseteq floors /\ Within(Total(p), b)},
        LAMBDA p, q : Together(p) > Together(q) \/ (Together(p) = Together(q) /\ Total(p) < Total(q))),
        LIMIT)

\* Under a budget eight times as many dishes are asked for and filtered.
PanelsFor(u, b) ==
    UNION {
        LET ids == for_user(u, near, IF b = 0 THEN LIMIT ELSE 8 * LIMIT)
            rec == {<<pin[d], d>> : d \in ToSet(ids)} IN
        {[items |-> TakeFirst(affordable(SelectSeq(ids, LAMBDA d : /\ <<by[d], d>> \in rec
                                                                   /\ Listed(by[d], d)), b), LIMIT),
          combos |-> ToSet(combine({<<by[d], d>> : d \in {c \in DOMAIN by : Listed(by[c], c)}}, b)),
          moved |-> {d \in ToSet(ids) : <<by[d], d>> \notin rec}] : by \in for_items(rec)}
        : near \in Pins, pin \in Pins}
Shown(x) == ToSet(x.items) \cup UNION {{p[2], p[3]} : p \in x.combos}

------------------------------------------------------------------------------
(* The panel, the orders and the consumers.  No two showings or orders have *)
(* one instant.                                                             *)

Recommending == UNCHANGED <<text, off, open, feed, read, pending, drain, index>>

record_shown(u, ds) ==
    IF ds = {} THEN UNCHANGED <<showings, staged>>
    ELSE /\ showings' = Append(showings, [user |-> u, dishes |-> ds, at |-> clock])
         /\ staged' = Append(staged, <<"RecommendationShown", Len(showings) + 1>>)

recommendations(u) ==
    /\ Spend("panels")
    /\ \E b \in Budgets : \E x \in PanelsFor(u, b) :
          /\ record_shown(u, Shown(x))
          /\ shelf' = [at |-> clock, user |-> u, budget |-> b, items |-> x.items,
                       combos |-> x.combos, moved |-> x.moved]
    /\ clock' = clock + 1
    /\ UNCHANGED <<placed, ofeed, oread, rows, acceptances, views, profile>>
    /\ Recommending

\* An answer in the chat cites the dish asked about or something that goes with it.
_record_answer_shown(u) ==
    /\ Spend("answers")
    /\ \E d \in menu_attributes : \E ds \in (SUBSET ({d} \cup {h[2] : h \in goes_with(d)})) \ {{}} :
          record_shown(u, ds)
    /\ clock' = clock + 1
    /\ UNCHANGED <<placed, ofeed, oread, rows, acceptances, views, profile, shelf>>
    /\ Recommending

NextOrder == CHOOSE o \in OrderIds : o \notin DOMAIN placed
PlaceOrder(u) ==
    /\ Spend("orders") /\ OrderIds # DOMAIN placed
    /\ \E r \in Branches, ds \in (SUBSET Dishes) \ {{}} :
          /\ \A d \in ds : Orderable(r, d)
          /\ placed' = [x \in DOMAIN placed \cup {NextOrder} |->
                           IF x = NextOrder
                           THEN [user |-> u, place |-> r, dishes |-> ds, at |-> clock]
                           ELSE placed[x]]
    /\ ofeed' = Append(ofeed, NextOrder)
    /\ clock' = clock + 1
    /\ UNCHANGED <<showings, oread, rows, acceptances, staged, views, profile, shelf>>
    /\ Recommending

\* Time passes; only between a showing and an order is it told apart.
Tick ==
    /\ clock < MaxClock /\ left["orders"] > 0 /\ showings # <<>>
    /\ clock' = clock + 1
    /\ UNCHANGED <<showings, placed, ofeed, oread, rows, acceptances, staged, views, profile, shelf, left>>
    /\ Recommending

\* MenuViewed by somebody signed in; a view delivered twice is one row.
record_views(u, r) ==
    /\ Spend("views") /\ views' = views \cup {<<u, r, clock>>}
    /\ UNCHANGED <<clock, showings, placed, ofeed, oread, rows, acceptances, staged, profile, shelf>>
    /\ Recommending

order_rows(o) == {<<o, d>> : d \in placed[o].dishes}

\* Shown to this customer, before the order and within the window.
recent_showings(o) ==
    {k \in DOMAIN showings :
        /\ showings[k].user = placed[o].user
        /\ showings[k].at <= placed[o].at /\ showings[k].at + WINDOW >= placed[o].at}
Taken(o) == {k \in recent_showings(o) : showings[k].dishes \cap placed[o].dishes # {}}

\* Mutant: the fact is staged for every match.
record_acceptance_unclaimed(o) ==
    /\ acceptances' = acceptances \cup {<<k, o>> : k \in Taken(o)}
    /\ staged' = staged \o [n \in 1 .. Cardinality(Taken(o)) |->
                             <<"RecommendationAccepted", SetToSeq(Taken(o))[n], o>>]

\* The pair is claimed once; only a claim stages a fact.
record_acceptance(o) ==
    LET claimed == {k \in Taken(o) : <<k, o>> \notin acceptances} IN
    /\ acceptances' = acceptances \cup {<<k, o>> : k \in claimed}
    /\ staged' = staged \o [n \in 1 .. Cardinality(claimed) |->
                             <<"RecommendationAccepted", SetToSeq(claimed)[n], o>>]

handle_batch ==
    /\ oread < Len(ofeed)
    /\ LET o == ofeed[oread + 1] IN
       /\ rows' = rows \cup order_rows(o)
       /\ record_acceptance(o)
    /\ oread' = oread + 1
    /\ UNCHANGED <<clock, showings, placed, ofeed, views, profile, shelf, left>>
    /\ Recommending

CommitOrders ==
    /\ oread > 0
    /\ ofeed' = SubSeq(ofeed, oread + 1, Len(ofeed)) /\ oread' = 0
    /\ UNCHANGED <<clock, showings, placed, rows, acceptances, staged, views, profile, shelf, left>>
    /\ Recommending

\* The consumer restarts before its offset is committed.
Redelivered ==
    /\ Spend("redeliveries") /\ oread > 0 /\ oread' = 0
    /\ UNCHANGED <<clock, showings, placed, ofeed, rows, acceptances, staged, views, profile, shelf>>
    /\ Recommending

\* One user's turn of a pass.  A customer none of whose dishes is indexed any
\* more keeps the profile there is.
build_profiles(u) ==
    /\ taste_rows(u) # {}
    /\ profile' = [profile EXCEPT ![u] = [rows |-> taste_rows(u), views |-> viewed_restaurants(u)]]
    /\ profile' # profile
    /\ UNCHANGED <<clock, showings, placed, ofeed, oread, rows, acceptances, staged, views, shelf, left>>
    /\ Recommending

Feeding == handle_batch \/ CommitOrders \/ \E u \in Users : build_profiles(u)
Shopping ==
    \/ Tick
    \/ \E u \in Users : \/ recommendations(u) \/ _record_answer_shown(u) \/ PlaceOrder(u)
                        \/ \E r \in Branches : record_views(u, r)

------------------------------------------------------------------------------
Count(f) == Cardinality({k \in DOMAIN staged : staged[k] = f})

\* Every order that was handled, however often, is credited exactly once to
\* each showing it could have come from, and to no other (the window and the
\* claim of _attribute and record_acceptance).
CreditedOnce ==
    \A o \in DOMAIN placed : \A k \in DOMAIN showings :
        LET owed == /\ showings[k].user = placed[o].user
                    /\ showings[k].dishes \cap placed[o].dishes # {}
                    /\ placed[o].at - showings[k].at \in 0 .. WINDOW
            handled == \E d \in Dishes : <<o, d>> \in rows IN
        Count(<<"RecommendationAccepted", k, o>>) = IF owed /\ handled THEN 1 ELSE 0

\* A list called personal rests on at least MIN_ORDERS orders of its customer,
\* however many dishes each held (Taste.thin, build).
PersonalNeedsOrders ==
    \A u \in Users : Basis(u) = "taste" =>
        Cardinality({o \in DOMAIN placed : placed[o].user = u}) >= MIN_ORDERS

Answered == shelf' # shelf

\* While the index shows the menus the panel is empty only when no dish is
\* offered within the budget, when none of the most ordered ones is, or when a
\* pair's half at another branch took the only dish's card (FR-80: any_in,
\* for_items).
EmptyForCause ==
    [][(Answered /\ Shown(shelf') = {} /\ \A r \in Branches : Mirrors(r)) =>
          LET offered == {d \in menu_attributes : Within(MinTotal[d], shelf'.budget)}
              ranked == ToSet(rank(IF shelf'.budget = 0 THEN LIMIT ELSE 8 * LIMIT)) IN
          \/ offered = {}
          \/ Basis(shelf'.user) = "popular" /\ ranked # {} /\ ranked \cap offered = {}
          \/ shelf'.moved # {}
      ]_rvars

\* Both dishes of a combo were bought together at the place it names, and that
\* place sells both now: a cart can hold it (co_ordered's grouping, floors).
CombosFitACart ==
    [][Answered => \A p \in shelf'.combos :
          /\ Orderable(p[1], p[2]) /\ Orderable(p[1], p[3])
          /\ \E o \in DOMAIN placed : placed[o].place = p[1] /\ {p[2], p[3]} \subseteq placed[o].dishes
      ]_rvars

\* A customer who has a profile keeps one, whatever leaves the menu.
ProfileKept == [][\A u \in Users : profile[u] # NoProfile => profile'[u].rows # {}]_rvars
==============================================================================
