SPECIFICATION Spec
CONSTANTS
    p1 = p1
    p2 = p2
    l1 = l1
    l2 = l2
    i1 = i1
    i2 = i2
    i3 = i3
    Sender = {p1, p2}
    Loop = {l1, l2}
    Id = {i1, i2, i3}
    Cap = 2
    None = None
INVARIANT OnlyOvertakenRepeat
PROPERTY RingIsWindow
