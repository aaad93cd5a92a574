SPECIFICATION FairSpec
CONSTANTS
  Requests = {r1, r2, r3, r4}
  Limits = {0, 1, 2}
INVARIANTS TypeOK
PROPERTIES FirstCome KeepsCap WaiterServed
