SPECIFICATION FairSpec
CONSTANTS
    NEvents = 2
    BatchSize = 2
    MaxPoll = 2
    MaxAttempts = 2
    MaxFaults = 0
    MaxReplays = 1
INVARIANTS LastEventWins
CHECK_DEADLOCK FALSE
