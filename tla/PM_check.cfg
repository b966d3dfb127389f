SPECIFICATION Spec
CONSTANTS
    o = o
    u1 = u1
    w1 = w1
    w2 = w2
    b1 = b1
    Users = {o, u1}
    Workspaces = {w1, w2}
    OwnerOf <- MCOwnerOf
    Brands = {b1}
    WorkspaceOf <- MCWorkspaceOf
    Requests = {q1}
    GrantedRoles = {"manager", "viewer"}
    None = None
INVARIANTS
    TypeOK
    InactiveActsNotWhereAsked
    BrandNamedNeedsAdmin
    PromotionLosesNothing
CHECK_DEADLOCK FALSE
