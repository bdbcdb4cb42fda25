SPECIFICATION Spec
CONSTANTS
    Workers = {w1}
    N = 2
    Keys = {"charge", "mail"}
    Slots = {"out"}
    Value = {"v"}
    Absent = "None"
    NoKey = "nokey"
    Json <- PairJson
    Deps <- PairDeps
    Gates = {}
    Decision <- PairDecision
    Compensable = {1}
    MaxAttempts <- PairAttempts
    Outcomes <- SecondDeclines
    Seed <- MCBoard
    KeyOf <- PairKeyOf
    When <- PairWhen
    Published <- PairPublished
    MaxLaunches = 3
INVARIANT
    UndoneOncePerLanding
CHECK_DEADLOCK FALSE
