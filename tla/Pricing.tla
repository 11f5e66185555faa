------------------------------ MODULE Pricing ------------------------------
(***************************************************************************)
(* The pricing library as pure operators: price_order over a catalog       *)
(* snapshot (engine.py) and the opening-hours test that feeds open_now     *)
(* (hours.py). Names, currency and message texts are left out; the order   *)
(* in which problems are found, and which of them wins, is kept.           *)
(*                                                                         *)
(* snapshot: [status, open_now, items]; items is a function of the items   *)
(*   the catalog knows, each [available, price, groups]; groups maps a     *)
(*   group to [min, max, options], options maps an option to its delta.    *)
(* line: [item, qty, options], options a sequence of [group, option].      *)
(***************************************************************************)
EXTENDS Integers, Sequences, FiniteSets, Functions

CONSTANTS DeliveryFee, TaxBasisPoints

ASSUME PricingConfig == DeliveryFee \in 0..10000 /\ TaxBasisPoints \in 0..3000

\* A cart line and a menu item, as the request and the snapshot carry them.
Line(item, qty, options) == [item |-> item, qty |-> qty, options |-> options]
MenuItem(available, price, groups) ==
    [available |-> available, price |-> price, groups |-> groups]

\* The menu no longer has what selection s names: drift, not a client bug.
Stale(item, s) ==
    \/ s.group \notin DOMAIN item.groups
    \/ s.option \notin DOMAIN item.groups[s.group].options

\* The faulty selections of a line; the first of them decides its verdict.
Faults(item, opts) ==
    {i \in DOMAIN opts : Stale(item, opts[i]) \/ \E j \in 1..(i - 1) : opts[j] = opts[i]}

\* One line against its item: priced, unavailable, or a selection violation.
\* Group bounds are checked for every group of the item, named or not.
LineVerdict(item, line) ==
    LET faults  == Faults(item, line.options)
        picked(g) == Cardinality({i \in DOMAIN line.options : line.options[i].group = g})
    IN  CASE faults # {} ->
               LET first == CHOOSE i \in faults : \A j \in faults : i <= j
               IN  IF Stale(item, line.options[first]) THEN "unavailable" ELSE "violation"
          [] faults = {} /\ \E g \in DOMAIN item.groups :
                 picked(g) \notin item.groups[g].min..item.groups[g].max -> "violation"
          [] OTHER -> "priced"

\* (unit + the chosen deltas) * qty
LineTotal(item, line) ==
    line.qty * (item.price + SumFunction([i \in DOMAIN line.options |->
                  item.groups[line.options[i].group].options[line.options[i].option]]))

\* What the lines of the cart come to; no line stops the others from being
\* inspected.
Verdicts(snapshot, lines) ==
    {IF lines[i].item \in DOMAIN snapshot.items /\ snapshot.items[lines[i].item].available
        THEN LineVerdict(snapshot.items[lines[i].item], lines[i]) ELSE "unavailable"
      : i \in DOMAIN lines}

\* subtotal - discount (always 0) + fee + tax, tax rounded down.
Total(snapshot, lines) ==
    LET subtotal == SumFunction([i \in DOMAIN lines |->
                                   LineTotal(snapshot.items[lines[i].item], lines[i])])
    IN  subtotal + DeliveryFee + (subtotal * TaxBasisPoints) \div 10000

\* NoTotal as the expected total is a quote.
NoTotal == -1
Refused(why) == [ok |-> FALSE, why |-> why, total |-> NoTotal]

\* price_order: the total, or the refusal that outranks the others.
price_order(snapshot, lines, expected) ==
    IF snapshot.status # "open" \/ ~snapshot.open_now THEN Refused("RESTAURANT_CLOSED")
    ELSE IF lines = <<>> THEN Refused("VALIDATION_FAILED")
    ELSE IF "unavailable" \in Verdicts(snapshot, lines) THEN Refused("ITEM_UNAVAILABLE")
    ELSE IF "violation" \in Verdicts(snapshot, lines) THEN Refused("VALIDATION_FAILED")
    ELSE IF expected \notin {NoTotal, Total(snapshot, lines)} THEN Refused("PRICE_CHANGED")
    ELSE [ok |-> TRUE, why |-> "", total |-> Total(snapshot, lines)]

-----------------------------------------------------------------------------
(* Opening hours. A week is a function of days 0, 1, ... to the points of   *)
(* the day, read in pairs; an unpaired point makes the day unreadable.      *)

Windows(points) ==
    IF Len(points) % 2 # 0 THEN {}
    ELSE {<<points[2 * k - 1], points[2 * k]>> : k \in 1..(Len(points) \div 2)}

\* Open inclusive, close exclusive; a window that closes before it opens runs
\* into the next day; an unreadable day, or no hours at all, is open.
is_open_at(hours, today, t) ==
    LET yesterday == (today + Cardinality(DOMAIN hours) - 1) % Cardinality(DOMAIN hours)
    IN  \/ hours = <<>>
        \/ Len(hours[today]) % 2 # 0
        \/ \E w \in Windows(hours[today]) :
              IF w[1] <= w[2] THEN w[1] <= t /\ t < w[2] ELSE t >= w[1]
        \/ \E w \in Windows(hours[yesterday]) : w[2] < w[1] /\ t < w[2]
=============================================================================
