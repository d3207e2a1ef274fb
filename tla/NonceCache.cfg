SPECIFICATION Spec
CONSTANTS
    p1 = p1
    p2 = p2
    n1 = n1
    n2 = n2
    Pub = {p1, p2}
    Nonce = {n1, n2}
    Hello <- Hellos
    Window = 10
    Keep = 12
    SweepEvery = 2
    MaxNow = 24
INVARIANT TwiceOnlyFromAhead
INVARIANT SweptClean
CHECK_DEADLOCK FALSE
