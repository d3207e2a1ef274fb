SPECIFICATION FairSpec
CONSTANTS
    Proc = {p1, p2}
    Me = p1
    Entry = {e1, e2}
    Slot = {1, 2}
    None = None
INVARIANT DeliveredIsRemoved
INVARIANT ArmedIsDurable
PROPERTY EventuallyInvited
