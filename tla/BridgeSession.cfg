SPECIFICATION FairSpec
CONSTANTS
    Call = {k1, k2}
    Initial = 1
    Longest = 3
INVARIANT OneLoop
INVARIANT OpenIsWatched
INVARIANT OnlyJoinsOutlive
PROPERTY Reconnects
CHECK_DEADLOCK FALSE
