SPECIFICATION GlossSpec
CONSTANTS
    Agent = {a1, a2}
    Proposer = {a1}
    Term = {t1, t2}
    Base <- SameBase
    None = None
    MaxCalls = 4
    MaxSuffix = 3
INVARIANT NeverMisread
INVARIANT ActiveIsHeld
CHECK_DEADLOCK FALSE
