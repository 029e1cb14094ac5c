SPECIFICATION FairSpec
CONSTANTS
    Batches = {b1, b2}
    Workers = {w1}
    d1 = d1
    d2 = d2
    Rows = {d1, d2}
    Kinds = {"portal", "grab"}
    Files <- MCFiles
    Windows <- MCWindows
    Budget <- MCBudget
    Crashes = 1
    Stalls = 0
    Faults = 1
    Outages = 0
    LostRequests = 1
    Rollbacks = 1
CHECK_DEADLOCK FALSE
INVARIANTS
    NeverDoubleCounts
PROPERTIES
    LedgerSpec
    QueuedBatchesSettle
