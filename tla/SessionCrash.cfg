SPECIFICATION Spec
CONSTANTS
    a = a
    b = b
    t1 = t1
    None = None
    Manager = {a, b}
    Rewriter = {a}
    Task = {t1}
    Ino = {1, 2, 3, 4, 5}
    MaxLines = 2
    MaxCrashes = 1
    MaxFaults = 1
PROPERTIES
    CrashStrandsNothing
CHECK_DEADLOCK FALSE
