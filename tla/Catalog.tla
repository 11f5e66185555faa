------------------------------ MODULE Catalog ------------------------------
(***************************************************************************)
(* The catalog of one owner: a brand with the base menu, its branches, and *)
(* what they tell the rest of the platform.                                *)
(*                                                                         *)
(* Every edit is one READ COMMITTED transaction: data rows, then for every *)
(* affected restaurant a menu snapshot, a row lock (touch) and a staged    *)
(* full-state event, then commit; the menu cache is invalidated after it.  *)
(* A brand's edit fans out to its branches. catalog.changes is compacted,  *)
(* so the model keeps the last event of each restaurant. Readers fill the  *)
(* cache beside the edits; the stock provisioner reads the topic.          *)
(***************************************************************************)
EXTENDS Naturals, FiniteSets, Sequences, SequencesExt

CONSTANTS
    Brand, Branches,   \* the restaurants ids of this owner; a branch id stands
                       \* for its label, unique within the brand
    FirstBranch,       \* the branch minted with the brand
    BaseItems, LocalItems, BaseCats, LocalCats,   \* ids the rows will get
    Names,             \* brand names
    Editors,           \* requests that may hold a transaction at once
    Readers,           \* concurrent menu reads
    Casts,             \* who is at work together and how many edits they make
    Browsed,           \* the branches whose menus are read
    MaxBranches        \* MAX_BRANCHES

Shops == {Brand} \cup Branches
Items == BaseItems \cup LocalItems
Cats == BaseCats \cup LocalCats

ASSUME CatalogConstants ==
    /\ Brand \notin Branches /\ FirstBranch \in Branches
    /\ Browsed \subseteq Branches /\ Casts \subseteq [who : SUBSET (Editors \cup Readers), edits : Nat]
    /\ BaseItems \cap LocalItems = {} /\ BaseCats \cap LocalCats = {}
    /\ MaxBranches \in Nat \ {0} /\ IsFiniteSet(Branches)
    /\ Names # {} /\ (BaseItems # {} => BaseCats # {})

-----------------------------------------------------------------------------
(* Rows.                                                                   *)

NoOne == "none"   \* a NULL
ASSUME NoOneIsNobody == NoOne \notin Names \cup Shops \cup Cats

\* restaurants with branch_metadata, menu_categories, menu_items,
\* branch_item_overrides. A category is its owner, an item [owner, cat, available].
ShopRow(name, status) == [name |-> name, status |-> status]
NoShop == ShopRow(NoOne, NoOne)
ItemRow(owner, cat, available) == [owner |-> owner, cat |-> cat, available |-> available]
NoItem == ItemRow(NoOne, NoOne, FALSE)
Db(shops, cats, items, overrides) ==
    [shops |-> shops, cats |-> cats, items |-> items, overrides |-> overrides]
EmptyDb == Db([s \in Shops |-> NoShop], [c \in Cats |-> NoOne],
              [i \in Items |-> NoItem], {})

Exists(d, s) == d.shops[s] # NoShop
get_branches(d) == {b \in Branches : Exists(d, b)}

\* _menu_scope: a branch sells the brand's rows and its own.
MenuScope(s) == IF s = Brand THEN {Brand} ELSE {Brand, s}
category_in_scope(d, s, c) == d.cats[c] \in MenuScope(s)

\* get_override_ids; a brand has none.
OverrideIds(d, s) == {i \in Items : <<s, i>> \in d.overrides}
\* get_pricing_rows and get_menu_rows: items by owner; the menu hangs them
\* under the categories of the same owners.
PricingRows(d, s) == {i \in Items : d.items[i].owner \in MenuScope(s)}
MenuRows(d, s) == {i \in PricingRows(d, s) : category_in_scope(d, s, d.items[i].cat)}

\* _menu_snapshot: base and local items, a branch's overrides taken out.
MenuSnapshot(d, s) ==
    [i \in MenuRows(d, s) |-> d.items[i].available /\ i \notin OverrideIds(d, s)]

\* What an event, a cached menu and a pricing read carry.
Doc(d, s) == [shop |-> d.shops[s], menu |-> MenuSnapshot(d, s)]
\* pricing_read: the asked-for rows in scope, whatever their category.
pricing_read(d, s, asked) ==
    [i \in asked \cap PricingRows(d, s) |-> d.items[i].available /\ i \notin OverrideIds(d, s)]
\* browse: a page of cards, one per branch.
Page(d) == [b \in get_branches(d) |-> d.shops[b]]
NoPage == <<>>
NoDoc == [shop |-> NoShop, menu |-> <<>>]

-----------------------------------------------------------------------------
(* Operations: what each one writes.                                       *)

\* rows is what the UPDATE of a rename matched, fixed when it runs.
OpOn(kind, shop, id, val, rows) ==
    [kind |-> kind, shop |-> shop, id |-> id, val |-> val, rows |-> rows]
Op(kind, shop, id, val) == OpOn(kind, shop, id, val, {})
NoOp == Op("none", NoOne, NoOne, NoOne)

WithShops(d, f) == Db(f, d.cats, d.items, d.overrides)
WithItem(d, i, row) == Db(d.shops, d.cats, [d.items EXCEPT ![i] = row], d.overrides)
WithCat(d, c, owner) == Db(d.shops, [d.cats EXCEPT ![c] = owner], d.items, d.overrides)

\* Brand and first branch, the branch with a copy of the profile.
OnboardRows(d, o) ==
    WithShops(d, [s \in Shops |-> IF s = Brand THEN ShopRow(o.val, NoOne)
                                  ELSE IF s = FirstBranch THEN ShopRow(o.val, "open")
                                  ELSE d.shops[s]])
BranchRow(d, o) == WithShops(d, [d.shops EXCEPT ![o.shop] = ShopRow(o.val, "open")])

\* update_restaurant on a brand: copy_profile_to_branches in the same tx.
RenameRows(d, o) ==
    WithShops(d, [s \in Shops |-> IF s \in o.rows THEN ShopRow(o.val, d.shops[s].status)
                                  ELSE d.shops[s]])
StatusRow(d, o) == WithShops(d, [d.shops EXCEPT ![o.shop] = ShopRow(d.shops[o.shop].name, o.val)])
InsertCategory(d, o) == WithCat(d, o.id, o.shop)
DeleteCategoryRow(d, o) == WithCat(d, o.id, NoOne)
InsertItem(d, o) == WithItem(d, o.id, ItemRow(o.shop, o.val, TRUE))
ToggleItem(d, o) == WithItem(d, o.id, ItemRow(o.shop, d.items[o.id].cat, ~d.items[o.id].available))
MoveItem(d, o) == WithItem(d, o.id, ItemRow(o.shop, o.val, d.items[o.id].available))
DeleteItemRow(d, o) == WithItem(d, o.id, NoItem)
\* upsert_override / delete_override.
OverrideRow(d, o) ==
    Db(d.shops, d.cats, d.items, IF o.val = "sold_out" THEN d.overrides \cup {<<o.shop, o.id>>}
                                 ELSE d.overrides \ {<<o.shop, o.id>>})

Apply(d, o) ==
    CASE o.kind = "onboard"      -> OnboardRows(d, o)
      [] o.kind = "create_branch" -> BranchRow(d, o)
      [] o.kind = "rename"       -> RenameRows(d, o)
      [] o.kind = "status"       -> StatusRow(d, o)
      [] o.kind = "add_category" -> InsertCategory(d, o)
      [] o.kind = "delete_category" -> DeleteCategoryRow(d, o)
      [] o.kind = "add_item"     -> InsertItem(d, o)
      [] o.kind = "toggle_item"  -> ToggleItem(d, o)
      [] o.kind = "move_item"    -> MoveItem(d, o)
      [] o.kind = "delete_item"  -> DeleteItemRow(d, o)
      [] o.kind = "override"     -> OverrideRow(d, o)
      [] OTHER                   -> d

\* The brand and the branches committed so far.
Matched(d, o) == IF o.kind = "rename" THEN {Brand} \cup get_branches(d) ELSE {}

\* Rows a write locks exclusively, rows it deletes, rows a foreign key makes
\* it hold against deletion.
Written(d, o) ==
    CASE o.kind = "rename" -> {<<"restaurants", s>> : s \in Matched(d, o)}
      [] o.kind \in {"onboard", "create_branch"} -> {<<"label", o.shop>>}
      [] o.kind = "status" -> {<<"branch_metadata", o.shop>>}
      [] o.kind \in {"toggle_item", "move_item", "delete_item"} -> {<<"menu_items", o.id>>}
      [] o.kind = "update_category" -> {<<"menu_categories", o.id>>}
      [] o.kind = "override" -> {<<"override", o.shop, o.id>>}
      [] OTHER -> {}
Deleted(o) == CASE o.kind = "delete_category" -> {<<"menu_categories", o.id>>}
                [] o.kind = "delete_item" -> {<<"menu_items", o.id>>}
                [] OTHER -> {}
Referenced(o) == CASE o.kind \in {"add_item", "move_item"} -> {<<"menu_categories", o.val>>}
                   [] o.kind = "override" -> {<<"menu_items", o.id>>}
                   [] OTHER -> {}

\* The rows are still there, unique and unreferenced when the write runs.
Integrity(d, o) ==
    CASE o.kind \in {"onboard", "create_branch"} -> ~Exists(d, o.shop)
      [] o.kind \in {"add_item"} -> d.cats[o.val] # NoOne
      [] o.kind = "move_item" -> d.items[o.id].owner = o.shop /\ d.cats[o.val] # NoOne
      [] o.kind = "toggle_item" -> d.items[o.id].owner = o.shop
      [] o.kind = "delete_item" -> \A b \in Branches : <<b, o.id>> \notin d.overrides
      [] o.kind = "update_category" -> d.cats[o.id] = o.shop
      [] o.kind = "delete_category" -> \A i \in Items : d.items[i].cat # o.id
      [] o.kind = "override" -> d.items[o.id] # NoItem
      [] OTHER -> TRUE

-----------------------------------------------------------------------------
VARIABLES
    db,       \* committed rows
    tx,       \* the edit requests: where they stand and what they staged
    topic,    \* the last event of each restaurant on catalog.changes
    claim,    \* identity has granted the owner the brand
    cache,    \* catalog:menu:{rid}
    render,   \* catalog:lock:menu:{rid}
    rd,       \* the menu reads
    page,     \* catalog:browse:*, one page
    stock,    \* inventory's stock rows of each branch
    edits,    \* edits left (bound)
    raced,    \* history: the restaurant's last event was staged around another commit
    torn      \* history: a branch was created around a rename

catalogVars == <<db, tx, topic, claim, cache, render, rd, page, stock, edits, raced, torn>>
reading == <<cache, render, rd>>
told == <<topic, page, stock, raced, torn>>

Tx(pc, op, todo, staged, held, dirty) ==
    [pc |-> pc, op |-> op, todo |-> todo, staged |-> staged, held |-> held, dirty |-> dirty]
Nothing == [s \in Shops |-> NoDoc]
After(pc, todo) == Tx(pc, NoOp, todo, Nothing, {}, FALSE)
IdleTx == After("idle", <<>>)
Read(pc, shop, doc, locked) == [pc |-> pc, shop |-> shop, doc |-> doc, locked |-> locked]
IdleRead == Read("idle", NoOne, NoDoc, FALSE)
Absent == "absent"

\* An empty catalog, or a brand migration 0007 minted: rows and no events.
Minted == Db([s \in Shops |-> IF s = Brand THEN ShopRow(CHOOSE n \in Names : TRUE, NoOne)
                              ELSE IF s = FirstBranch THEN ShopRow(CHOOSE n \in Names : TRUE, "open")
                              ELSE NoShop],
             [c \in Cats |-> IF c \in BaseCats THEN Brand ELSE NoOne],
             [i \in Items |-> IF i \in BaseItems THEN ItemRow(Brand, CHOOSE c \in BaseCats : TRUE, TRUE)
                              ELSE NoItem], {})

CatalogInit ==
    /\ db \in {EmptyDb, Minted}
    /\ \E cast \in Casts :
         /\ tx = [e \in Editors |-> IF e \in cast.who THEN IdleTx ELSE After(Absent, <<>>)]
         /\ rd = [r \in Readers |-> IF r \in cast.who THEN IdleRead
                                    ELSE Read(Absent, NoOne, NoDoc, FALSE)]
         /\ edits = cast.edits
    /\ topic = Nothing
    /\ claim = FALSE
    /\ cache = Nothing
    /\ render = [s \in Shops |-> FALSE]
    /\ page = NoPage
    /\ stock = [b \in Branches |-> {}]
    /\ raced = {}
    /\ torn = FALSE

-----------------------------------------------------------------------------
(* The API's checks before the first write. A refusal changes nothing.     *)

Begin(e, o) ==
    /\ tx[e].pc = "idle" /\ edits > 0
    /\ tx' = [tx EXCEPT ![e] = Tx("write", o, <<>>, Nothing, {}, FALSE)]
    /\ edits' = edits - 1
    /\ UNCHANGED <<db, claim, reading, told>>

\* Idempotent by owner: a brand that is there only has its grant repeated.
create_restaurant(e) ==
    \/ /\ ~Exists(db, Brand)
       /\ \E n \in Names : Begin(e, Op("onboard", Brand, NoOne, n))
    \/ /\ Exists(db, Brand) /\ ~claim /\ tx[e].pc = "idle"
       /\ tx' = [tx EXCEPT ![e] = After("grant", <<>>)]
       /\ UNCHANGED <<db, edits, claim, reading, told>>

\* Name and cuisines belong to the brand, address and schedule to a branch.
update_restaurant(e) ==
    \E n \in Names \ {db.shops[Brand].name} :
        Exists(db, Brand) /\ Begin(e, Op("rename", Brand, NoOne, n))

\* Idempotent by label; the cap and the brand's name are read here.
create_branch(e) ==
    /\ Exists(db, Brand) /\ Cardinality(get_branches(db)) < MaxBranches
    /\ \E b \in Branches : ~Exists(db, b) /\ Begin(e, Op("create_branch", b, NoOne, db.shops[Brand].name))

set_status(e) ==
    \E b \in get_branches(db), v \in {"open", "paused"} :
        v # db.shops[b].status /\ Begin(e, Op("status", b, NoOne, v))

\* The per-branch 86 of a base item; brands hold no base items.
set_base_item_availability(e) ==
    \E b \in get_branches(db), i \in Items, v \in {"sold_out", "back"} :
        /\ db.items[i].owner = Brand /\ (v = "back" <=> <<b, i>> \in db.overrides)
        /\ Begin(e, Op("override", b, i, v))

\* A new category or item gets an id nobody has, is inserting or refers to.
Fresh(i) == \A e \in Editors : tx[e].op.id # i /\ tx[e].op.val # i
OwnIds(s, base, local) == IF s = Brand THEN base ELSE local
add_category(e) ==
    \E s \in {t \in Shops : Exists(db, t)} : \E c \in OwnIds(s, BaseCats, LocalCats) :
        db.cats[c] = NoOne /\ Fresh(c) /\ Begin(e, Op("add_category", s, c, NoOne))
\* A category's name and rank are not modelled; the event it costs is.
update_category(e) ==
    \E c \in Cats : db.cats[c] # NoOne /\ Begin(e, Op("update_category", db.cats[c], c, NoOne))
delete_category(e) ==
    \E c \in Cats : LET s == db.cats[c] IN
        /\ s # NoOne /\ \A i \in Items : ~(db.items[i].cat = c /\ db.items[i].owner = s)
        /\ Begin(e, Op("delete_category", s, c, NoOne))
add_item(e) ==
    \E s \in {t \in Shops : Exists(db, t)}, c \in Cats : \E i \in OwnIds(s, BaseItems, LocalItems) :
        /\ category_in_scope(db, s, c)
        /\ db.items[i] = NoItem /\ Fresh(i)
        /\ Begin(e, Op("add_item", s, i, c))
update_item(e) ==
    \E i \in Items : LET s == db.items[i].owner IN
        /\ s # NoOne
        /\ \/ Begin(e, Op("toggle_item", s, i, NoOne))
           \/ \E c \in Cats \ {db.items[i].cat} :
                category_in_scope(db, s, c) /\ Begin(e, Op("move_item", s, i, c))
delete_item(e) ==
    \E i \in Items : LET s == db.items[i].owner IN
        s # NoOne /\ Begin(e, Op("delete_item", s, i, NoOne))

\* At boot: a brand without an event is published; the operator's repair
\* publishes any restaurant again.
converge_brand_events(e) ==
    Exists(db, Brand) /\ topic[Brand] = NoDoc /\ Begin(e, Op("publish", Brand, NoOne, NoOne))
republish_all(e) ==
    \E s \in Shops : Exists(db, s) /\ Begin(e, Op("republish", s, NoOne, NoOne))

-----------------------------------------------------------------------------
(* The transaction.                                                        *)

Open(e) == tx[e].pc \in {"snap", "touch", "commit"}
View(e) == Apply(db, tx[e].op)
Blocked(e) ==
    \E f \in Editors \ {e} :
        /\ Open(f)
        /\ \/ (Written(db, tx[e].op) \cup Deleted(tx[e].op))
                \cap (Deleted(tx[f].op) \cup tx[f].held) # {}
           \/ Deleted(tx[e].op) \cap Referenced(tx[f].op) # {}
           \/ Referenced(tx[e].op) \cap Deleted(tx[f].op) # {}

\* The data rows; a constraint that fails rolls everything back (onboarding
\* and create_branch then adopt the winner's row).
WriteRows(e) ==
    /\ tx[e].pc = "write" /\ ~Blocked(e)
    /\ LET o == tx[e].op
       IN  tx' = [tx EXCEPT ![e] =
             IF Integrity(db, o)
               THEN Tx("snap", OpOn(o.kind, o.shop, o.id, o.val, Matched(db, o)), <<o.shop>>,
                       Nothing, Written(db, o), FALSE)
             ELSE IF o.kind = "onboard" THEN After("grant", <<>>)
             ELSE IdleTx]
    /\ UNCHANGED <<db, edits, claim, reading, told>>

\* _stage_one: the snapshot sees what is committed now and this tx's writes...
Snapshot(e) ==
    /\ tx[e].pc = "snap"
    /\ LET x == tx[e]
           s == Head(x.todo)
       IN  tx' = [tx EXCEPT ![e] = Tx("touch", x.op, x.todo,
                     [x.staged EXCEPT ![s] = Doc(View(e), s)], x.held, x.dirty)]
    /\ UNCHANGED <<db, edits, claim, reading, told>>

\* Slip: a brand's edit stages the brand's own event only.
TouchAlone(e) ==
    /\ tx[e].pc = "touch"
    /\ LET x == tx[e]
           row == <<"restaurants", Head(x.todo)>>
       IN  /\ \A f \in Editors \ {e} : row \notin tx[f].held
           /\ tx' = [tx EXCEPT ![e] = Tx("commit", x.op, <<>>, x.staged, x.held \cup {row}, x.dirty)]
    /\ UNCHANGED <<db, edits, claim, reading, told>>

\* ... then touch takes the row's lock; a brand goes on to its branches.
Touch(e) ==
    /\ tx[e].pc = "touch"
    /\ LET x == tx[e]
           row == <<"restaurants", Head(x.todo)>>
           rest == IF Head(x.todo) = Brand THEN SetToSeq(get_branches(View(e))) ELSE Tail(x.todo)
       IN  /\ \A f \in Editors \ {e} : row \notin tx[f].held
           /\ tx' = [tx EXCEPT ![e] = Tx(IF rest = <<>> THEN "commit" ELSE "snap",
                         x.op, rest, x.staged, x.held \cup {row}, x.dirty)]
    /\ UNCHANGED <<db, edits, claim, reading, told>>

\* stage_event: the restaurants this transaction has an outbox row for.
StagedEvents(x) == {s \in Shops : x.staged[s] # NoDoc}

\* Rows and events commit together; the outbox relays them in commit order.
Commit(e) ==
    /\ tx[e].pc = "commit"
    /\ LET x == tx[e]
           mine == StagedEvents(x)
           next == IF x.op.kind = "onboard" THEN "grant"
                   ELSE IF x.op.kind = "republish" THEN "idle" ELSE "invalidate"
       IN  /\ db' = View(e)
           /\ topic' = [s \in Shops |-> IF s \in mine THEN x.staged[s] ELSE topic[s]]
           /\ raced' = IF x.dirty
                         THEN raced \cup mine \cup {s \in Shops : Doc(View(e), s) # Doc(db, s)}
                         ELSE raced \ mine
           /\ torn' = (torn \/ \E f \in Editors :
                                 {x.op.kind, tx[f].op.kind} = {"rename", "create_branch"})
           /\ tx' = [f \in Editors |->
                       IF f = e THEN After(next, IF next = "invalidate" THEN SetToSeq(mine) ELSE <<>>)
                       ELSE IF tx[f].staged # Nothing
                         THEN Tx(tx[f].pc, tx[f].op, tx[f].todo, tx[f].staged, tx[f].held, TRUE)
                       ELSE tx[f]]
    /\ UNCHANGED <<page, stock, edits, claim, reading>>

\* Cache deletes after the commit, one per menu; Redis may be away.
InvalidateMenu(e) ==
    /\ tx[e].pc = "invalidate"
    /\ LET s == Head(tx[e].todo)
           rest == Tail(tx[e].todo)
       IN  /\ cache' \in {cache, [cache EXCEPT ![s] = NoDoc]}
           /\ tx' = [tx EXCEPT ![e] = IF rest = <<>> THEN IdleTx
                                      ELSE After("invalidate", rest)]
    /\ UNCHANGED <<db, edits, claim, render, rd, told>>

\* The grant of restaurant_admin, outside the transaction: it lands, or the
\* caller is asked to try again.
Grant(e) ==
    /\ tx[e].pc = "grant"
    /\ claim' \in {claim, TRUE}
    /\ tx' = [tx EXCEPT ![e] = IdleTx]
    /\ UNCHANGED <<db, edits, reading, told>>

\* The process dies: an open transaction is rolled back.
Crash(e) ==
    /\ tx[e].pc \notin {"idle", Absent}
    /\ tx' = [tx EXCEPT ![e] = IdleTx]
    /\ UNCHANGED <<db, edits, claim, reading, told>>

-----------------------------------------------------------------------------
(* Readers and consumers.                                                  *)

\* get_menu on a miss (or with Redis away): one renderer holds the lock.
get_menu(r) ==
    /\ rd[r].pc = "idle"
    /\ \E s \in {t \in Browsed : Exists(db, t)} :
           /\ cache[s] = NoDoc
           /\ rd' = [rd EXCEPT ![r] = Read(IF render[s] THEN "wait" ELSE "load", s, NoDoc, ~render[s])]
           /\ render' = [render EXCEPT ![s] = TRUE]
    /\ UNCHANGED <<db, tx, edits, claim, cache, told>>

\* A loser waits a beat, looks again, and renders anyway.
Recheck(r) ==
    /\ rd[r].pc = "wait"
    /\ rd' = [rd EXCEPT ![r] = IF cache[@.shop] # NoDoc THEN IdleRead
                               ELSE Read("load", @.shop, NoDoc, FALSE)]
    /\ UNCHANGED <<db, tx, edits, claim, cache, render, told>>

\* _consistent_read: profile and menu from one REPEATABLE READ snapshot.
ConsistentRead(r) ==
    /\ rd[r].pc = "load"
    /\ rd' = [rd EXCEPT ![r] = Read("fill", @.shop, Doc(db, @.shop), @.locked)]
    /\ UNCHANGED <<db, tx, edits, claim, cache, render, told>>

\* The set (lost when Redis is away), then the lock is deleted whoever holds it.
FillCache(r) ==
    /\ rd[r].pc = "fill"
    /\ cache' \in {cache, [cache EXCEPT ![rd[r].shop] = rd[r].doc]}
    /\ render' = [render EXCEPT ![rd[r].shop] = @ /\ ~rd[r].locked]
    /\ rd' = [rd EXCEPT ![r] = IdleRead]
    /\ UNCHANGED <<db, tx, edits, claim, told>>

\* The renderer dies; its lock stays until it expires.
RendererDies(r) ==
    /\ rd[r].pc \in {"load", "fill"}
    /\ rd' = [rd EXCEPT ![r] = IdleRead]
    /\ UNCHANGED <<db, tx, edits, claim, cache, render, told>>

\* Slip: a menu is cached without a TTL.
NeverExpires(s) == FALSE /\ UNCHANGED catalogVars

\* MENU_TTL_SECONDS and the lock's three seconds.
MenuExpires(s) ==
    /\ cache[s] # NoDoc
    /\ cache' = [cache EXCEPT ![s] = NoDoc]
    /\ UNCHANGED <<db, tx, edits, claim, render, rd, told>>
LockExpires(s) ==
    /\ render[s]
    /\ render' = [render EXCEPT ![s] = FALSE]
    /\ UNCHANGED <<db, tx, edits, claim, cache, rd, told>>

\* Cards are cached for a minute and no edit touches them.
browse(r) ==
    /\ rd[r].pc = "idle" /\ page = NoPage /\ get_branches(db) # {}
    /\ page' = Page(db)
    /\ UNCHANGED <<db, tx, edits, claim, reading, topic, stock, raced, torn>>
PageExpires ==
    /\ page # NoPage
    /\ page' = NoPage
    /\ UNCHANGED <<db, tx, edits, claim, reading, topic, stock, raced, torn>>

\* inventory's StockProvisioningHandler: zero-stock rows for unseen items;
\* it may see only the last event of a restaurant.
ProvisionStock(b) ==
    /\ ~(DOMAIN topic[b].menu \subseteq stock[b])
    /\ stock' = [stock EXCEPT ![b] = @ \cup DOMAIN topic[b].menu]
    /\ UNCHANGED <<db, tx, edits, claim, reading, page, topic, raced, torn>>

\* identity's GrantConvergenceHandler repairs a grant that was lost.
ConvergeGrant ==
    /\ topic[Brand] # NoDoc /\ ~claim
    /\ claim' = TRUE
    /\ UNCHANGED <<db, tx, edits, reading, told>>

-----------------------------------------------------------------------------
RestaurantRoutes(e) == create_restaurant(e) \/ update_restaurant(e) \/ set_status(e)
BranchRoutes(e) == create_branch(e) \/ set_base_item_availability(e)
CategoryRoutes(e) == add_category(e) \/ update_category(e) \/ delete_category(e)
ItemRoutes(e) == add_item(e) \/ update_item(e) \/ delete_item(e)
Operations(e) == converge_brand_events(e) \/ republish_all(e)
Edit(e) == \/ RestaurantRoutes(e) \/ BranchRoutes(e) \/ CategoryRoutes(e)
           \/ ItemRoutes(e) \/ Operations(e)
TxStep(e) == \/ WriteRows(e) \/ Snapshot(e) \/ Touch(e) \/ Commit(e)
             \/ InvalidateMenu(e) \/ Grant(e)
ReadStep(r) == Recheck(r) \/ ConsistentRead(r) \/ FillCache(r)

CatalogNext ==
    \/ \E e \in Editors : Edit(e) \/ TxStep(e) \/ Crash(e)
    \/ \E r \in Readers : get_menu(r) \/ browse(r) \/ ReadStep(r) \/ RendererDies(r)
    \/ \E s \in Browsed : MenuExpires(s) \/ LockExpires(s)
    \/ \E b \in Branches : ProvisionStock(b)
    \/ PageExpires \/ ConvergeGrant

\* Requests, readers and consumers go on once they have begun; TTLs pass.
CatalogFairness ==
    /\ \A e \in Editors : WF_catalogVars(TxStep(e))
    /\ \A r \in Readers : WF_catalogVars(ReadStep(r))
    /\ \A s \in Browsed : WF_catalogVars(MenuExpires(s))
    /\ \A b \in Branches : WF_catalogVars(ProvisionStock(b))
    /\ WF_catalogVars(PageExpires) /\ WF_catalogVars(ConvergeGrant)

CatalogSpec == CatalogInit /\ [][CatalogNext]_catalogVars /\ CatalogFairness

-----------------------------------------------------------------------------
(* Properties.                                                             *)

MenuDocs == UNION {[S -> BOOLEAN] : S \in SUBSET Items}
Docs == [shop : [name : Names \cup {NoOne}, status : {"open", "paused", NoOne}], menu : MenuDocs]

\* Type correctness of every variable.
CatalogTypeOK ==
    /\ db.shops \in [Shops -> [name : Names \cup {NoOne}, status : {"open", "paused", NoOne}]]
    /\ db.cats \in [Cats -> Shops \cup {NoOne}]
    /\ db.items \in [Items -> [owner : Shops \cup {NoOne}, cat : Cats \cup {NoOne}, available : BOOLEAN]]
    /\ db.overrides \subseteq Branches \X Items
    /\ \A e \in Editors :
         /\ tx[e].pc \in {"idle", "write", "snap", "touch", "commit", "invalidate", "grant", Absent}
         /\ tx[e].staged \in [Shops -> Docs] /\ tx[e].dirty \in BOOLEAN
         /\ \A k \in DOMAIN tx[e].todo : tx[e].todo[k] \in Shops
    /\ topic \in [Shops -> Docs] /\ cache \in [Shops -> Docs]
    /\ claim \in BOOLEAN /\ render \in [Shops -> BOOLEAN]
    /\ \A r \in Readers : rd[r].pc \in {"idle", "wait", "load", "fill", Absent} /\ rd[r].doc \in Docs
    /\ stock \in [Branches -> SUBSET Items]
    /\ DOMAIN page \subseteq Branches
    /\ edits \in Nat /\ raced \subseteq Shops /\ torn \in BOOLEAN

\* The event a consumer of the compacted topic keeps tells the restaurant as
\* it is, base menu and overrides included, whoever edited it last and
\* wherever: an edit of the brand reaches the branches' own events. Excepted
\* are events staged while another edit committed.
LastEventTellsAll ==
    \A s \in Shops : topic[s] # NoDoc /\ s \notin raced => topic[s] = Doc(db, s)

\* Every branch carries the brand's name, whatever was created and renamed in
\* between; excepted is a branch created around a rename.
NamesAgree ==
    ~torn => \A b \in get_branches(db) : db.shops[b].name = db.shops[Brand].name

\* Checkout prices exactly the dishes the menu shows, with the same 86s: no
\* move, delete or race leaves an item that sells and is not listed.
MenuIsWhatSells ==
    \A s \in Shops : Exists(db, s) => pricing_read(db, s, Items) = MenuSnapshot(db, s)

\* Neither a stale menu nor a stale page outlives its TTL: a reader that filled the cache
\* around an edit, or a delete that was lost, is corrected in the end.
MenusConverge ==
    <>[](/\ \A s \in Shops : cache[s] \in {NoDoc, Doc(db, s)}
         /\ page \in {NoPage, Page(db)})

\* Every dish a branch sells gets its stock row, and the owner of a published
\* brand gets the claim that lets them edit it, lost grants notwithstanding.
PartnersConverge ==
    /\ <>[](\A b \in Branches \ raced :
              topic[b] # NoDoc => DOMAIN Doc(db, b).menu \subseteq stock[b])
    /\ topic[Brand] # NoDoc ~> claim
=============================================================================
