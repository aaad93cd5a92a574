\* One terminal whose rewrites queue behind each other.
SPECIFICATION FairSpec
CONSTANTS
    a = a
    t1 = t1
    t2 = t2
    None = None
    Manager = {a}
    Rewriter = {a}
    Task = {t1, t2}
    Ino = {1, 2, 3, 4, 5}
    MaxLines = 2
    MaxCrashes = 0
    MaxFaults = 1
PROPERTIES
    SupersededIsSilent
    RewritesEnd
CHECK_DEADLOCK FALSE
