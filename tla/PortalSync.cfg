SPECIFICATION FairSpec
CONSTANTS
    Workers = {w1, w2}
    Requesters = {h1}
    Slots = 5
    DayLength = 5
    RunAt = 1
    TickEvery = 1
    PullTime = 0
    ImportWait = 1
    StaleAge = 1
    MaxSlices = 1
    Disturbances = 2
INVARIANTS
    ScheduleBounded
PROPERTIES
    OutcomeIsFinal
    RunsFinish
