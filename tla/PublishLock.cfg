\* Two terminals on the current binary and one on a previous binary.
SPECIFICATION FairSpec
CONSTANTS
    c1 = c1
    c2 = c2
    l1 = l1
    None = None
    Process = {c1, c2, l1}
    Current = {c1, c2}
    MaxFaults = 1
INVARIANTS
    TypeOK
    Exclusive
PROPERTIES
    CurrentNeverRobbed
    OrphanCleared
    ImplementsRegionLock
