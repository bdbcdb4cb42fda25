SPECIFICATION Spec
CONSTANTS
    Agents = {"a", "b"}
    Tools = {}
    KeepRecent = 1
    History <- NoHistory
    MaxTurns <- LoneTurns
    MaxUsd <- PairUsd
    OnFailure <- PairFailure
    Stop <- PairStop
    SelfCheck <- PairCheck
    MaxRetries = 1
    MaxConsecutive = 1
    RunCap = 2
    TopCap = 3
    MaxCost = 1
    Requests = {}
    Cutoffs = {}
    ErrorClasses = {"domain"}
    MaxRuns = 1
INVARIANT
    OneBudget
CHECK_DEADLOCK FALSE
