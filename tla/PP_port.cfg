SPECIFICATION Spec
CONSTANTS
    Posts = {p1}
    Channels = {c1, c2}
    Schedulers = {s1}
    Cancellers = {k1}
    Disconnecters = {d1}
    Workers = {w1}
    None = None
    VersionRule = "unchecked"
    VariantStorable = TRUE
    Faults = FALSE
    Crashes = TRUE
    PostStarts = {"validated"}
    ChannelStarts = {"active"}
    MaxVersion = 4
    MaxPosted = 1
SYMMETRY Symmetry
INVARIANTS
    TypeOK
    ErrorThreshold
    ScheduledPostHasItsVariants
    ThreeFailuresStopTheChannel
CHECK_DEADLOCK FALSE
