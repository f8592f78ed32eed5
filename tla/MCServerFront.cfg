SPECIFICATION FairSpec
CONSTANTS
    NoPassword = NoPassword
    Password = {NoPassword, p1, p2}
    Absent = Absent
    Torn = Torn
    MaxFaults = 2
    TlsClient = {t}
    HttpClient = {h}
INVARIANTS TypeOK PasswordKept MigrationSettles OnePasswordOpens
PROPERTY ClientAnswered
