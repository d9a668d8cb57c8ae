\* A provisioned project and a new one, a handler in each of two replicas, two
\* rows of the log, one fault; a request may span a tick, an orphan gets stale.
SPECIFICATION MigrationsSpec
CONSTANTS
    w1 = w1
    w2 = w2
    r1 = r1
    r2 = r2
    Project = {p, c}
    Existing = {p}
    Replica = {r1, r2}
    Keyed = {r1, r2}
    Worker = {w1, w2}
    ReplicaOf <- MCReplicaOf
    None = None
    RequestTimeout = 1
    StaleAfter = 1
    MaxTime = 2
    MaxLog = 2
    MaxFaults = 1
SYMMETRY Symmetry
INVARIANTS
    MigrationsTypeOK
    AppliedIsInstalled
    EncryptedForGood
PROPERTY OutcomesAreFinal
CHECK_DEADLOCK FALSE
