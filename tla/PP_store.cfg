SPECIFICATION FairSpec
CONSTANTS
    Posts = {p1}
    Channels = {c1, c2}
    Schedulers = {s1}
    Cancellers = {k1}
    Disconnecters = {d1}
    Workers = {w1}
    None = None
    VersionRule = "postgres"
    VariantStorable = TRUE
    Faults = FALSE
    Crashes = FALSE
    PostStarts = {"validated", "scheduled"}
    ChannelStarts = {"active"}
    MaxVersion = 3
    MaxPosted = 1
PROPERTIES
    Lifecycle
    EveryVariantIsAttempted
    DisconnectionIsStored
CHECK_DEADLOCK FALSE
