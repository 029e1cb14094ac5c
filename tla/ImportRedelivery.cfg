SPECIFICATION Spec
CONSTANTS
    Batches = {b1}
    Workers = {w1}
    d1 = d1
    d2 = d2
    Rows = {d1, d2}
    Kinds = {"manual"}
    Files <- MCFiles
    Windows <- MCWindows
    Budget <- MCBudget
    Crashes = 1
    Stalls = 0
    Faults = 0
    Outages = 0
    LostRequests = 0
    Rollbacks = 0
CHECK_DEADLOCK FALSE
INVARIANTS
    NeverBlindRetry
