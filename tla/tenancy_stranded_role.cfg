\* As tenancy_retire, but without PostgREST: no REVOKE makes the deletion wait,
\* and a mint that commits after it listed the roles leaves one no sweep can drop.
SPECIFICATION FairSpec
CONSTANTS
    Project = {p1}
    Role = {r1}
    Key = {k1}
    Object = {o1}
    Worker = {w1, w2}
    Sweeper = {s1}
    None = None
    RestEnabled = FALSE
    SessionsLinger = FALSE
    MaxFaults = 0
PROPERTY ExpiredRolesRetired
CHECK_DEADLOCK FALSE
