SPECIFICATION QueryFairSpec
CONSTANTS
    Adapters = {"bridge", "plugin"}
    User = {u1, u2}
    MaxId = 4
    MaxDown = 2
INVARIANT PartialIsEarly
PROPERTY WarmUpArms
PROPERTY QueriesAreAnswered
CHECK_DEADLOCK FALSE
