SPECIFICATION Spec
CONSTANTS
    c1 = c1
    c2 = c2
    c3 = c3
    a1 = a1
    a2 = a2
    k1 = k1
    None = None
    Conn = {c1, c2, c3}
    Agent = {a1, a2}
    Chan = {k1}
    Frame <- PostAndDM
    Key <- TwoOfA2
    Master = {c1}
    MailboxCap = 1
INVARIANT MissedPostMeansClosed
INVARIANT OnlyAddressedReceive

CHECK_DEADLOCK FALSE
