SPECIFICATION FairSpec
CONSTANTS
    c1 = c1
    c2 = c2
    c3 = c3
    a1 = a1
    a2 = a2
    k1 = k1
    None = None
    Conn = {c1, c2, c3}
    Agent = {a1, a2}
    Chan = {}
    Frame <- TwoDMs
    Key <- TwoOfA2
    Master = {c1}
    MailboxCap = 1
INVARIANT TypeOK
INVARIANT RegistryAgrees
INVARIANT LiveIsRegistered
INVARIANT LatchedDMIsAccounted
INVARIANT MarkMeansFull
PROPERTY EvictsOnlyOffline
PROPERTY DeadConnLeaves
PROPERTY SendEnds

CHECK_DEADLOCK FALSE
