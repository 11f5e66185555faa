CONSTANTS
    Orders = {o1}
    Refunds = {r1}
    Messages = {m1, m2}
    NoOrder = NoOrder
    MaxRetries = 1
    MaxWrites = 2
    SweepLimit = 1
    MaxCopies = 2
    MaxFaults = 3
    Notices = {n1}
    MaxMoves = 2
    MaxMishaps = 2
    MaxTaps = 1
SPECIFICATION MCSpec
INVARIANTS CopiesHaveReasons QuietMeansCurrent
PROPERTIES ReceiptIsMailed TrackConverges BellHasFloor
CHECK_DEADLOCK FALSE
