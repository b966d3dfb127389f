SPECIFICATION FairSpec
CONSTANTS
    Brands = {b1, b2}
    Archivable = {b2}
    Platforms = {t1, t2}
    Accounts = {a1}
    Channels = {c1, c2, c3, c4}
    Connecters = {p1, p2}
    Disconnecters = {d1}
    None = None
    ChannelLimit = 2
    CredentialStore = "port"
    PlanChecker = "port"
    Faults = TRUE
INVARIANTS
    TypeOK
    AnsweredIsComplete
    HalfWrittenMeansHarm
    LimitOverrun
    ConnectedOnceUnlessRaced
PROPERTIES
    CheckedIsConnected
CHECK_DEADLOCK FALSE
