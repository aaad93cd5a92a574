SPECIFICATION Spec
CONSTANTS
  N = 4
  InterruptMode = "immediate"
  EventDriven = FALSE
  HasIrc = FALSE
  AfterHook = FALSE
  PollMayFail = TRUE
  Verdicts = {"ok", "invalid"}
  Waits = {}
  HostActs = {"abort", "wait", "immediate", "clear"}
INVARIANTS
  TypeOK
  ExclusiveOrder
  Paired
  NotRunMeansNotRun
