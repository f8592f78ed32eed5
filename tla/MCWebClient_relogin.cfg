SPECIFICATION FairSpec
CONSTANTS
    Socket = {s1, s2, s3}
    None = None
    MaxTotal = 3
    MaxUnauth = 2
    MaxFailures = 2
    MaxQueue = 2
    MaxLosses = 1
    MaxMissed = 4
PROPERTY LoginComesBack
