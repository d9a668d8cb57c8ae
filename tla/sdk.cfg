\* A unit of time is 15 seconds: refreshLead 2 minutes, the loop's floor 30 s,
\* a retry after 60 s, the HTTP timeout 15 s.
SPECIFICATION Spec
CONSTANTS
    d1 = d1
    d2 = d2
    e1 = e1
    g1 = g1
    u1 = u1
    u2 = u2
    Row = {d1, d2, e1, g1}
    TableOf <- MCTableOf
    OwnerOf <- MCOwnerOf
    User = {u1, u2}
    NoUser = NoUser
    Before = {d1, e1}
    TTL = 11
    Lead = 8
    Floor = 2
    RetryAfter = 4
    HttpTimeout = 1
    MaxTime = 12
    MaxPools = 2
    MaxFailures = 2
    MaxCalls = 2
INVARIANTS
    TypeOK
    OneFailureIsTolerated
    CurrentPoolIsOpen
PROPERTIES
    PoolsAreClosed
    UsersAreIsolated
CHECK_DEADLOCK FALSE
