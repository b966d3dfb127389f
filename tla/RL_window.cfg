SPECIFICATION Spec
CONSTANTS
    login = login
    twofa = twofa
    reset = reset
    Keys = {k1, k2}
    Routes = {login, twofa, reset}
    Limit <- MCLimit
    Window <- MCWindow
    MaxTime = 4
    MaxCalls = 4
INVARIANTS
    TypeOK
    EveryRouteBounded
    BucketBounded
PROPERTIES
    ImplementsWindow
CHECK_DEADLOCK FALSE
