SPECIFICATION FairSpec
CONSTANTS
    Workers = {w1}
    N = 3
    Keys = {"reserve", "issue"}
    Slots = {"out", "fact", "approve", "decision"}
    Value = {"no", "object", "text"}
    Absent = "None"
    NoKey = "nokey"
    Json <- ChainJson
    Deps <- ChainDeps
    Gates = {2}
    Decision <- ChainDecision
    Compensable = {1}
    MaxAttempts <- ChainAttempts
    Outcomes <- ChainOutcomes
    Seed <- MCBoard
    KeyOf <- ChainKeyOf
    When <- ChainWhen
    Published <- ChainPublished
    MaxLaunches = 4
INVARIANTS
    TypeOK
    PrefixSettled
    DoneIsBacked
    PausedHoldsNoClaim
    ReplayRebuilds
PROPERTIES
    KeepsPromise
    DoneStaysDone
    ExecutionsReturn
CHECK_DEADLOCK FALSE
