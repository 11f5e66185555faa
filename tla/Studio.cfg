SPECIFICATION MCSpec
CONSTANTS
    Branches = {"b1", "b2"}
    Brand = "brand"
    Dishes = {"base", "own"}
    DishOrder <- mcDishOrder
    Owner <- mcOwner
    Texts = {"plain", "rich"}
    Drains = {"d1"}
    BatchSize = 2
    Users = {"u1"}
    OrderIds = {"o1", "o2"}
    Cuisine <- mcCuisine
    MinTotal <- mcMinTotal
    Budgets = {0, 4}
    LIMIT = 1
    MIN_ORDERS = 2
    WINDOW = 1
    THIN = 1
    MaxClock = 2
    Drafts = {"c1", "c2"}
    Tabs = {"t1", "t2"}
    Jobs = {1, 2}
    MaxRetries = 1
    Boast = "boast"
    MIN_ROWS = 1
INVARIANTS PublishedWasShipped CreditedOnce
PROPERTIES IndexConverges DraftSettles
CHECK_DEADLOCK FALSE
