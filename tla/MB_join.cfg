SPECIFICATION Spec
CONSTANTS
    Users = {u0, u1, u2}
    Founder = u0
    Invitations = {i1, i2}
    Inviters = {g1}
    Accepters = {a1, a2}
    None = None
    InvitedRoles = {"owner", "manager", "viewer"}
    MemberLimit = 3
    Absent = "ErrNotFound"
    Faults = TRUE
SYMMETRY Symmetry
INVARIANTS
    TypeOK
    AcceptedGaveItsRole
    RoleWithinInviters
PROPERTY
    ImplementsDelegation
CHECK_DEADLOCK FALSE
