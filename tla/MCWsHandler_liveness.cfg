\* Three slots behind one address that compete for the only permits.
CONSTANTS
    c1 = c1  c2 = c2  c3 = c3
    i1 = i1
    Conn = {c1, c2, c3}
    IP = {i1}
    IpOf <- MCIpOf
    Token = {t1, t2}
    Controller = {k1}
    MaxTotal = 1
    MaxUnauth = 1
    MaxFailures = 2
    None = None
SPECIFICATION FairSpec
PROPERTIES
    CleanupCompletes
    RequestAdvances
