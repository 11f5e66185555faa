SPECIFICATION FairSpec
CONSTANTS
    Requests = {r1, r2}
    Bodies = {"total", "other"}
    InProgressTTL = 0
    ReplayTTL = 0
    MaxCalls = 3
    MaxFaults = 1
    MaxRestarts = 1
INVARIANTS EntriesMatchRow BooksAgree OneVerdict
PROPERTIES RetriesEnd
CHECK_DEADLOCK FALSE
