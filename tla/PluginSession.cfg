SPECIFICATION FairSpec
CONSTANTS
    Socket = {s1, s2}
    Call = {k1}
    Initial = 1
    Longest = 2
    None = None
INVARIANT NoPhantomReconnect
INVARIANT ConnectedIsWelcomed
INVARIANT OpenIsWatched
INVARIANT WhoisEndsWithSocket
PROPERTY Reconnects
CHECK_DEADLOCK FALSE
