SPECIFICATION FairSpec
CONSTANTS
    Message = {m1, m2}
    MaxRef = 3
    MaxSession = 2
    Spawned = {2}
    Restored = {1, 3}
    None = None
INVARIANTS
    TypeOK
    HandsOutLive
    SessionsAccounted
PROPERTIES
    FailsForCause
    IdleParks
CHECK_DEADLOCK FALSE
