SPECIFICATION Spec
CONSTANTS
  Jobs = {j1, j2}
  Ids = {a, b}
  NoJob = NoJob
  PhotoFinish = FALSE
  ReusesInFlight = FALSE
  MaxEpoch = 1
  MaxFailures = 1
INVARIANTS NeverInLaterTranscript
