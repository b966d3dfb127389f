SPECIFICATION GateSpec
CONSTANTS
    Users = {u1, u2}
    TwoFactor = {u2}
    Sessions = {s1, s2}
    Logins = {l1}
    Validators = {v1, v2}
    Revokers = {r1}
    Requests = {q1}
    None = None
    Threshold = 2
    PendingStorable = TRUE
    Faults = TRUE
    MaxTime = 1
SYMMETRY Symmetry
INVARIANT GateTypeOK ExchangedIsRevoked RevokedServesNothing SecondFactorBeforeService
PROPERTY Lifecycle
