SPECIFICATION Spec
CONSTANTS
    Posts = {p1}
    Channels = {c1}
    Schedulers = {}
    Cancellers = {}
    Disconnecters = {}
    Workers = {w1}
    None = None
    VersionRule = "unchecked"
    VariantStorable = TRUE
    Faults = FALSE
    Crashes = FALSE
    PostStarts = {"scheduled"}
    ChannelStarts = {"active"}
    MaxVersion = 4
    MaxPosted = 2
INVARIANTS
    NoDoublePublication
CHECK_DEADLOCK FALSE
