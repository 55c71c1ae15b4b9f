CONSTANTS
    Sender = {s1, s2}
    Ping = Ping
    MaxQueue = 2
    None = None
SPECIFICATION Spec
\* A connection that is closed, with its goroutines gone, is at its end.
CHECK_DEADLOCK FALSE
INVARIANTS
    NoWriteOnClosed
PROPERTIES
    ToldAtMostOnce
    KeepsLink
    NoticesLosses
    ComesToItsEnd
