SPECIFICATION Spec
CONSTANTS
    Agents = {"a", "b"}
    Tools = {}
    KeepRecent = 1
    History <- NoHistory
    MaxTurns <- PairTurns
    MaxUsd <- PairUsd
    OnFailure <- PairFailure
    Stop <- PairStop
    SelfCheck <- PairCheck
    MaxRetries = 1
    MaxConsecutive = 1
    RunCap = 2
    TopCap = 3
    MaxCost = 2
    Requests = {}
    Cutoffs = {}
    ErrorClasses = {"domain"}
    MaxRuns = 2
INVARIANTS
    OkMeansDone
    SpendBounded
CHECK_DEADLOCK FALSE
