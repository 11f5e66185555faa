SPECIFICATION MCSpec
CONSTANTS
    MaxTurns = 4
    Panels = {p1}
    Customers = {u1, u2}
    NoUser = NoUser
    First = u1
    Passages = {d1}
    NoDish = NoDish
    Specs <- MCSpecs
    MaxChunks = 1
    HistoryLimit = 6
    MaxFaults = 0
    MaxSwitches = 0
INVARIANT
    GuardStaysArmed
CHECK_DEADLOCK FALSE
