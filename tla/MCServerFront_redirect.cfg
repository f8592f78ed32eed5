SPECIFICATION FairSpec
CONSTANTS
    NoPassword = NoPassword
    Password = {NoPassword, p1}
    Absent = Absent
    Torn = Torn
    MaxFaults = 0
    TlsClient = {t}
    HttpClient = {h}
INVARIANT RedirectsIfTls
