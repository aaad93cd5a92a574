SPECIFICATION FairSpec
CONSTANTS
  N = 2
  InterruptMode = "immediate"
  EventDriven = TRUE
  HasIrc = TRUE
  AfterHook = TRUE
  PollMayFail = FALSE
  Verdicts = {"ok"}
  Waits = {1}
  HostActs = {"immediate", "clear", "irc", "abort", "pause"}
INVARIANTS
  CompletedResultKept
  SideEffectsNotSkipped
  ParkedOnlyWhilePaused
PROPERTIES
  InterruptPreemptsWaits
  InterruptEndsBatch
