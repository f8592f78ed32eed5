\* Three slots, two of them behind one address; one total permit fewer than
\* slots, one unauthenticated permit; the first wrong password locks.
CONSTANTS
    c1 = c1  c2 = c2  c3 = c3
    i1 = i1  i2 = i2
    Conn = {c1, c2, c3}
    IP = {i1, i2}
    IpOf <- MCIpOf
    Token = {t1, t2, t3}
    Controller = {k1, k2, k3}
    MaxTotal = 2
    MaxUnauth = 1
    MaxFailures = 1
    None = None
SYMMETRY MCSymmetry
SPECIFICATION StrikesSpec
INVARIANTS
    TypeOK
    LocalsFollowPlace
    PermitsConserved
    StrangersBounded
    PermitFollowsLogin
    SessionsOwned
    ControllersOwned
    ControllersBounded
    OneStrikeWhenLocked
PROPERTIES
    ImplementsService
