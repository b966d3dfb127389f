SPECIFICATION FairSpec
CONSTANTS
    Members = {o}
    Owner = o
    Names = {n1}
    Brands = {b1, b2}
    Creators = {k1}
    Editors = {e1}
    Granters = {}
    Updaters = {u1}
    Deleters = {d1, d2}
    None = None
    GrantedRoles = {}
    Store = "port"
    Faults = FALSE
PROPERTIES
    DeletionArchives
    DeletionIsStored
CHECK_DEADLOCK FALSE
