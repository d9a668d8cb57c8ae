\* A provisioned parent, a name for its branch, two handlers, one fault or crash.
\* A request ends before the clock ticks: the finer clock is migrations.cfg's.
SPECIFICATION Spec
CONSTANTS
    Project = {p, c}
    Existing = {p}
    Replica = {r1}
    Keyed = {}
    Worker = {w1, w2}
    ReplicaOf <- MCReplicaOf
    None = None
    RequestTimeout = 0
    StaleAfter = 0
    MaxTime = 1
    MaxLog = 1
    MaxFaults = 1
    Table <- MCTable
    Id = {e1, e2}
    TableOf <- MCTableOf
    KeyOf <- MCKeyOf
SYMMETRY Symmetry

PROPERTIES
    ImplementsMigrations
    RowsComeFromTheParent
    CopiesAreComplete
    BranchesAreReady
CHECK_DEADLOCK FALSE
