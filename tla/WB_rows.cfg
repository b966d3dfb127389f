SPECIFICATION Spec
CONSTANTS
    Members = {o, m1}
    Owner = o
    Names = {n1}
    Brands = {b1}
    Creators = {k1}
    Editors = {e1}
    Granters = {g1, g2}
    Updaters = {}
    Deleters = {}
    None = None
    GrantedRoles = {"owner", "viewer"}
    Store = "port"
    Faults = TRUE
INVARIANTS
    TypeOK
    AssignedByAnOwner
CHECK_DEADLOCK FALSE
SYMMETRY Symmetry
