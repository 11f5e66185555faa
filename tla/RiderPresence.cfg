CONSTANTS
    Riders = {r1}
    LOC_TTL = 1
    HB_TTL = 3
SPECIFICATION Spec
INVARIANT OnlineIsFound
CHECK_DEADLOCK FALSE
