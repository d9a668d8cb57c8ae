\* One tenant with PostgREST, mints that overlap deletions, two pwrapd replicas
\* sweeping the same roles, one fault, clients gone before the grace.
SPECIFICATION FairSpec
CONSTANTS
    Project = {p1}
    Role = {r1}
    Key = {k1}
    Object = {o1, o2}
    Worker = {w1, w2}
    Sweeper = {s1, s2}
    None = None
    RestEnabled = TRUE
    SessionsLinger = FALSE
    MaxFaults = 1
PROPERTIES
    ObjectsSurviveRoles
    ExpiredRolesRetired
    NoTombstones
CHECK_DEADLOCK FALSE
