\* Two replicas that start, crash and come back at any time, one request at a
\* time; a rebuild may fail; PostgREST comes and goes.
SPECIFICATION FairSpec
CONSTANTS
    Project = {p1, p2}
    Process = {i1, i2}
    Overlap = FALSE
    MaxFaults = 1
INVARIANTS
    InSync
    StaleIsTold
PROPERTIES
    RewritesAreExact
    PostgRESTFollows
