\* 5 stands for the largest u64; a sleep may be longer than the window an entry is kept.
CONSTANTS
    c1 = c1
    c2 = c2
    c3 = c3
    i1 = i1
    i2 = i2
    IP = {i1, i2}
    Conn <- MCConn
    IpOf <- MCIpOf
    Timeout = 1
    Base = 3
    MaxBackoff = 4
    Window = 3
    MaxFailures = 3
    U64Max = 5
    MaxCount = 4
SPECIFICATION Spec
SYMMETRY SameAddress
INVARIANTS
    TypeOK
    SilentClosed
PROPERTIES
    
    ImplementsFailureTable
