SPECIFICATION FairSpec
CONSTANTS
    s1 = s1
    s2 = s2
    s3 = s3
    Sender = {s1, s2}
    Sizes = {1, 2}
    SendBuffer = 2
    MaxQueued = 3
INVARIANT QueuedIsExact
INVARIANT OvershootIsBounded
INVARIANT RejectIsNotCutShort
PROPERTY WaitersReturn
