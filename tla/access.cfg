\* A token with two scopes, a key and a project, room for one more of each; two
\* requests at once, three in all, one fault.
SPECIFICATION Spec
CONSTANTS
    t1 = t1
    t2 = t2
    k1 = k1
    k2 = k2
    p1 = p1
    p2 = p2
    Bootstrap = Bootstrap
    None = None
    Bearer = {k1, k2, t1, t2, Bootstrap}
    Token = {t1, t2}
    Key = {k1, k2}
    Project = {p1, p2}
    Handler = {h1, h2}
    InitialScopes <- MCInitialScopes
    InitialKeys <- MCInitialKeys
    Tried <- MCTried
    Asked <- MCAsked
    Burst = 1
    IdleLimit = 1
    MaxClock = 2
    MaxRequests = 3
    MaxFaults = 1
SYMMETRY Symmetry
INVARIANTS
    AccessTypeOK
    EveryMutationIsAudited
    EffectsAreAuthorized
    NeverMoreThanTheRate
CHECK_DEADLOCK FALSE
