\* Two slots behind one address that share a session.
CONSTANTS
    c1 = c1  c2 = c2  c3 = c3
    i1 = i1
    Conn = {c1, c2}
    IP = {i1}
    IpOf <- MCIpOf
    Token = {t1, t2}
    Controller = {k1, k2}
    MaxTotal = 2
    MaxUnauth = 1
    MaxFailures = 1
    None = None
SPECIFICATION Spec
INVARIANT ActiveTokenIsValid
