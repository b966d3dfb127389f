SPECIFICATION Spec
CONSTANTS
    Posts = {p1, p2}
    Requests = {r1, r2, r3}
    Requesters = {q1, q2}
    Reviewers = {v1, v2}
    None = None
    Faults = TRUE
SYMMETRY Symmetry
INVARIANTS
    TypeOK
    OnePendingRequest
    ReasonMeansRejected
    UncontestedAnswerIsStored
