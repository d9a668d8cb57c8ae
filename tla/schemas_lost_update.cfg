\* Two requests overlap; nothing fails.
SPECIFICATION Spec
CONSTANTS
    Project = {p1, p2}
    Process = {i1, i2}
    Overlap = TRUE
    MaxFaults = 0
INVARIANT InSync
