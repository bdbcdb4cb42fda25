SPECIFICATION Spec
CONSTANTS
    Workers = {w1, w2}
    N = 2
    Keys = {"charge", "mail"}
    Slots = {"out"}
    Value = {"v"}
    Absent = "None"
    NoKey = "nokey"
    Json <- PairJson
    Deps <- PairDeps
    Gates = {}
    Decision <- PairDecision
    Compensable = {1}
    MaxAttempts <- PairAttempts
    Outcomes <- DecliningOutcomes
    Seed <- MCBoard
    KeyOf <- PairKeyOf
    When <- PairWhen
    Published <- PairPublished
    MaxLaunches = 3
INVARIANT
    AtMostOnce
CHECK_DEADLOCK FALSE
