SPECIFICATION MCSpec
CONSTANTS
    Tabs = {t1}
    WebKeys = {1, 2}
    ApiKeys = {3}
    q1 = q1
    q2 = q2
    Requests = {q1, q2}
    Menus <- MCMenus
    Carts <- MCCarts
    MaxPresses = 3
    DeliveryFee = 2
    TaxBasisPoints = 1000
    Brand = "brand"
    Branches = {"b1", "b2"}
    FirstBranch = "b1"
    BaseItems = {"base"}
    LocalItems = {"local"}
    BaseCats = {"c1", "c2"}
    LocalCats = {"c3"}
    Names = {"n1", "n2"}
    e1 = e1
    e2 = e2
    r1 = r1
    Casts <- MCCasts
    Editors = {e1, e2}
    Readers = {r1}
    Browsed = {"b1"}
    MaxBranches = 2
INVARIANTS LastEventTellsAll ChargedAsConsented AckIsThisCart OneDinner
PROPERTIES MenusConverge
CHECK_DEADLOCK FALSE
