SPECIFICATION Spec
CONSTANTS
    Batches = {b1, b2}
    Workers = {w1, w2}
    d1 = d1
    d2 = d2
    Rows = {d1, d2}
    Kinds = {"manual", "portal"}
    Files <- MCFiles
    Windows <- MCWholeRange
    Budget <- MCBudget
    Crashes = 0
    Stalls = 1
    Faults = 1
    Outages = 1
    LostRequests = 0
    Rollbacks = 1
CHECK_DEADLOCK FALSE
SYMMETRY Symmetry
INVARIANTS
    TypeOK
    NoOrphanRows
    WholeFiles
    DoneIsTrue
