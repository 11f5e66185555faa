SPECIFICATION MCSpec
CONSTANTS
    a = a
    b = b
    o1 = o1
    o2 = o2
    Items = {a, b}
    Orders = {o1, o2}
    Lines <- MCLines
    w1 = w1
    w2 = w2
    Workers = {w1, w2}
    Reaper = Reaper
    DefaultCapacity = 2
    StockLevels = {1, 3}
    Capacities = {1}
    BatchLimit = 1
    MaxFailures = 1
INVARIANTS SlotsMatchActive StockConserved
PROPERTIES CapacityRespected EndsOnce OverdueEnds
CHECK_DEADLOCK FALSE
