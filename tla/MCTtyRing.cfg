\* Two callers on a ring of three slots: three calls are enough for one caller to
\* fill the ring, wrap around and flush while the other spins.
SPECIFICATION FairSpec
CONSTANTS
    c1 = c1
    c2 = c2
    a = a
    b = b
    NL = NL
    NUL = NUL
    Callers = {c1, c2}
    Size = 3
    MaxSerialDevs = 2
    Char <- MCChar
    Messages <- MCMessages
    MaxCalls = 3
INVARIANTS
    TypeOK
    LockGuardsRing
    RingHoldsPending
    FlushDrainsRing
    SerialShowsStream
    ScreenShowsStream
    NoNewlineHeldBack
    UsageIsPending
    FlushReachesDevices
PROPERTIES
    ImplementsConsole
    LockEventuallyFree
    LinesEventuallyShown
