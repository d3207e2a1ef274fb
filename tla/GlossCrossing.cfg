SPECIFICATION GlossSpec
CONSTANTS
    Agent = {a1, a2}
    Proposer = {a1, a2}
    Term = {t1, t2}
    Base <- SameBase
    None = None
    MaxCalls = 3
    MaxSuffix = 2
INVARIANT NeverMisread
CHECK_DEADLOCK FALSE
