------------------------------- MODULE MCStudio -------------------------------
(* The GenAI plane's menu pipeline, recommendations and studio on two branches *)
(* of a brand, with one dish of the brand's and one of a branch's own.  Each    *)
(* behaviour has the budget of one of the scenarios below, so that the parts    *)
(* meet where they interact without multiplying everywhere.                     *)
EXTENDS Studio

mcDishOrder == <<"base", "own">>
mcOwner == [d \in {"base", "own"} |-> IF d = "base" THEN "brand" ELSE "b1"]
mcCuisine == [d \in {"base", "own"} |-> IF d = "base" THEN "thai" ELSE "grill"]
mcMinTotal == [d \in {"base", "own"} |-> IF d = "base" THEN 3 ELSE 5]

Menu == [d \in Dishes |-> CHOOSE t \in Texts : TRUE]
Nothing == [a \in Allowances |-> 0]

(* A busy menu; a shopper; drafts for a dish, for the business and of reviews. *)
Scenarios == {
    [Nothing EXCEPT !.edits = 2],
    [Nothing EXCEPT !.edits = 1, !.deletes = 1],
    [Nothing EXCEPT !.edits = 1, !.faults = 1],
    [Nothing EXCEPT !.panels = 1, !.answers = 1, !.orders = 1, !.redeliveries = 1],
    [Nothing EXCEPT !.orders = 2, !.deletes = 1],
    [Nothing EXCEPT !.orders = 1, !.edits = 1, !.panels = 1],
    [Nothing EXCEPT !.orders = 2, !.panels = 1, !.answers = 1],
    [Nothing EXCEPT !.orders = 2, !.views = 1],
    [Nothing EXCEPT !.asks = 1, !.presses = 2, !.mishaps = 1],
    [Nothing EXCEPT !.asks = 1, !.presses = 1, !.mishaps = 2],
    [Nothing EXCEPT !.asks = 2, !.mishaps = 1],
    [Nothing EXCEPT !.orders = 1, !.asks = 1, !.presses = 1]}

MCInit == /\ \E s \in Scenarios : KInit(Menu, s)
          /\ RInit /\ SInit(MIN_ROWS)

(* Something that can run does: the consumers, the drain, the workers and the   *)
(* calls in flight.  People, edits, faults and the clock promise nothing.        *)
Runs == \/ Indexing /\ UNCHANGED <<rvars, svars>>
        \/ Feeding /\ UNCHANGED svars
        \/ Writing \/ Answering
MCSpec == MCInit /\ [][PlaneNext]_plane /\ WF_plane(Runs)

TypeOK == KTypeOK /\ RTypeOK /\ STypeOK
==============================================================================
