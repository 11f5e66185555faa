SPECIFICATION MCSpec
CONSTANTS
    MaxTurns = 2
    Panels = {p1}
    Customers = {u1, u2}
    NoUser = NoUser
    First = u1
    Passages = {d1}
    NoDish = NoDish
    Specs <- MCSpecs
    MaxChunks = 1
    HistoryLimit = 6
    MaxFaults = 1
    MaxSwitches = 1
INVARIANTS FactPerAnswer HeardWhole
PROPERTIES TurnSettles
CHECK_DEADLOCK FALSE
