\* Two tenants, overlapping mint and deletion requests, a sweeper hit by one fault, and clients
\* that stay connected as long as they like.
SPECIFICATION Spec
CONSTANTS
    Project = {p1, p2}
    Role = {r1, r2}
    Key = {k1}
    Object = {o1}
    Worker = {w1, w2}
    Sweeper = {s1}
    None = None
    RestEnabled = FALSE
    SessionsLinger = TRUE
    MaxFaults = 1
SYMMETRY Symmetry
INVARIANTS
    TypeOK
    NoOrphanRole
    OwnershipStaysInProject
    NothingOutlivesProject
PROPERTIES
    NoEarlyRetire
    ImplementsCredential
CHECK_DEADLOCK FALSE
