\* Two slots behind one address that fail in turns.
CONSTANTS
    c1 = c1  c2 = c2
    i1 = i1
    Conn = {c1, c2}
    IP = {i1}
    IpOf <- MCIpOf
    Token = {t1, t2}
    Controller = {k1, k2}
    MaxTotal = 2
    MaxUnauth = 2
    MaxFailures = 2
    None = None
SPECIFICATION FailuresSpec
PROPERTY ClosedForOwnFailures
