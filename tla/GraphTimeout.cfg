SPECIFICATION Spec
CONSTANTS
    Workers = {w1}
    N = 2
    Keys = {"charge", "mail"}
    Slots = {"out"}
    Value = {"v"}
    Absent = "None"
    NoKey = "nokey"
    Json <- PairJson
    Deps <- PairDeps
    Gates = {}
    Decision <- PairDecision
    Compensable = {1}
    MaxAttempts <- PairAttempts
    Outcomes <- TimeoutOutcomes
    Seed <- MCBoard
    KeyOf <- PairKeyOf
    When <- PairWhen
    Published <- PairPublished
    MaxLaunches = 1
INVARIANT
    LandedIsKnown
CHECK_DEADLOCK FALSE
