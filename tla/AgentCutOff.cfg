SPECIFICATION Spec
CONSTANTS
    Agents = {"a"}
    Tools = {"search"}
    KeepRecent = 1
    History <- NoHistory
    MaxTurns <- LoneTurns
    MaxUsd <- LoneUsd
    OnFailure <- LoneFailure
    Stop <- LoneStop
    SelfCheck <- LoneCheck
    MaxRetries = 1
    MaxConsecutive = 1
    RunCap = 9
    TopCap = 9
    MaxCost = 1
    Requests <- LoneRequests
    Cutoffs <- CutOff
    ErrorClasses = {"transient", "domain", "fatal"}
    MaxRuns = 1
INVARIANT
    CallsAnswered
CHECK_DEADLOCK FALSE
