\* Two connections that make two controllers, and two shutdowns.
CONSTANTS
    Task = {t1, t2}
    Closer = {s1, s2}
    MaxId = 2
    ChannelSize = 1
SPECIFICATION FairSpec
CHECK_DEADLOCK FALSE
INVARIANTS
    TypeOK
    ThreadsAccounted
    ControllersAccounted
PROPERTIES
    DestroyReturns
    ShutdownReturns
    ImplementsLife
