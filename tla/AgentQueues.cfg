SPECIFICATION Spec
CONSTANTS
    Run = {r1, r2}
    BatchModes = {"all", "one-at-a-time"}
    MaxMessage = 2
    MaxFault = 1
    None = None
    r1 = r1
    r2 = r2
INVARIANTS
    TypeOK
    Conserved
PROPERTIES
    AbandonedIsSilent
    Served
