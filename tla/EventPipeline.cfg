SPECIFICATION FairSpec
CONSTANTS
    NEvents = 2
    BatchSize = 2
    MaxPoll = 2
    MaxAttempts = 2
    MaxFaults = 1
    MaxReplays = 1
INVARIANTS NothingSkipped OrderOfFirstSight
PROPERTIES EveryEventArrives
CHECK_DEADLOCK FALSE
