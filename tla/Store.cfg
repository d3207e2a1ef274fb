SPECIFICATION Spec
CONSTANTS
    Conn = {c1, c2}
    Agent = {a1, a2}
    Name = {n1, n2}
    Secret = {s1, s2}
    Chan = {k1}
    Acl = {open, few}
    OpenAcl = open
    None = None
    MaxCrashes = 1
    MaxFaults = 1
SYMMETRY Symmetric
INVARIANT HeldSecretOpens
INVARIANT RevokedStaysRevoked
INVARIANT LastAclHolds
INVARIANT EnrolledNameOnly
PROPERTY PurgeIsLast
CHECK_DEADLOCK FALSE
