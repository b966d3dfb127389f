SPECIFICATION Spec
CONSTANTS
    Posts = {p1}
    Channels = {c1, c2}
    Schedulers = {s1}
    Cancellers = {k1}
    Disconnecters = {}
    Workers = {w1}
    None = None
    VersionRule = "unchecked"
    VariantStorable = TRUE
    Faults = TRUE
    Crashes = TRUE
    PostStarts = {"validated", "scheduled"}
    ChannelStarts = {"active"}
    MaxVersion = 4
    MaxPosted = 1
SYMMETRY Symmetry
INVARIANTS
    NothingSentBeforeASchedule
    PublishedVariantWasPosted
CHECK_DEADLOCK FALSE
