---------------------------- MODULE MCStorefront ----------------------------
(* The shop window for TLC: the partners' catalog, and a checkout against    *)
(* the menus it may show.  A checkout reads a menu and keeps nothing of it   *)
(* but the price, so a behaviour is either edits or a checkout.              *)
EXTENDS Placement, Catalog

CONSTANTS e1, e2, r1, q1, q2

\* Two edits side by side, and one edit beside a reader.
MCCasts == {[who |-> {e1, e2}, edits |-> 2], [who |-> {e1, r1}, edits |-> 1]}

\* One dish with a required size, at two prices, the dearer one sold out at
\* times; a cart with the size chosen, and one that orders two.
Sizes == [size |-> [min |-> 1, max |-> 1, options |-> [large |-> 2]]]
Menu(status, available, price) ==
    [status |-> status, open_now |-> TRUE,
     items |-> [dish |-> MenuItem(available, price, Sizes)]]
Large(qty) == <<Line("dish", qty, <<[group |-> "size", option |-> "large"]>>)>>
MCMenus == {Menu("open", TRUE, 8), Menu("open", TRUE, 18)}
MCCarts == {Large(1)}

\* price_order against its specification, over every small menu and cart: the
\* shop's own state outranks a missing dish, that outranks a bad selection,
\* and a total is sum + fee + tax of all lines.
Picks == {<<>>, <<[group |-> "size", option |-> "large"]>>,
          <<[group |-> "size", option |-> "large"], [group |-> "size", option |-> "large"]>>,
          <<[group |-> "gone", option |-> "large"]>>}
SmallLines == {Line(d, 2, p) : d \in {"dish", "deleted"}, p \in Picks}
ASSUME PricingRanks ==
    \A shop \in {"open", "paused"}, here \in BOOLEAN, a, b \in SmallLines, e \in {NoTotal, 46} :
        LET out == price_order(Menu(shop, here, 8), <<a, b>>, e)
            gone(l) == \/ l.item = "deleted" \/ ~here
                       \/ \E i \in DOMAIN l.options : l.options[i].group = "gone"
        IN  /\ out.why = "RESTAURANT_CLOSED" <=> shop = "paused"
            /\ out.why = "ITEM_UNAVAILABLE" <=> shop = "open" /\ (gone(a) \/ gone(b))
            /\ out.why = "VALIDATION_FAILED" <=>
                 shop = "open" /\ ~gone(a) /\ ~gone(b) /\ (Len(a.options) # 1 \/ Len(b.options) # 1)
            /\ out.ok => out.total = 40 + DeliveryFee + (40 * TaxBasisPoints) \div 10000

\* is_open_at against the clock of the whole week: a moment is open when some
\* window that began at or before it, today or the day before, has not ended.
Ticks == 4
DayHours == {<<>>} \cup {<<a, b>> : a, b \in 0..(Ticks - 1)}
ASSUME HoursFollowTheClock ==
    \A week \in [0..2 -> DayHours], today \in 0..2, t \in 0..(Ticks - 1) :
        LET span(w) == IF w[2] < w[1] THEN w[2] + Ticks - w[1] ELSE w[2] - w[1]
            since(d, w) == (today * Ticks + t + 3 * Ticks - (d * Ticks + w[1])) % (3 * Ticks)
        IN  is_open_at(week, today, t) <=>
              \E d \in 0..2 : week[d] # <<>> /\ since(d, week[d]) < span(week[d])

-----------------------------------------------------------------------------
VARIABLE scene

Frozen == db = EmptyDb /\ edits = 2

MCInit ==
    /\ scene \in {"edits", "page", "callers"}
    /\ Init /\ CatalogInit
    /\ scene = "edits" => menu = CHOOSE m \in Menus : TRUE
    /\ scene # "edits" => Frozen

\* Request slots are interchangeable: the second one is for a second request.
Free(r, slots) == slots[r].pc = "free"
FirstSlotFirst == Free(q2, req) /\ ~Free(q2, req') => ~Free(q1, req)

\* Three presses of the page's own, or one request beside an API caller's.
ByApi == \E r \in Requests : Free(r, req) /\ req'[r].key \in ApiKeys
Presses == IF scene = "page" THEN ~ByApi ELSE presses' <= 2

MCNext ==
    /\ UNCHANGED scene
    /\ \/ scene = "edits" /\ CatalogNext /\ UNCHANGED vars
       \/ scene # "edits" /\ Next /\ FirstSlotFirst /\ Presses /\ UNCHANGED catalogVars

MCSpec == MCInit /\ [][MCNext]_<<vars, catalogVars, scene>> /\ CatalogFairness

(* Rows, requests, caches and pages keep their shapes, and presses and edits *)
(* their bounds (catalog/db.py, order/domain/service.py).                    *)
TypesOK == TypeOK /\ CatalogTypeOK
=============================================================================
