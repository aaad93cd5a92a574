SPECIFICATION FairSpec
CONSTANTS
  Jobs = {j1, j2}
  Ids = {a, b}
  NoJob = NoJob
  PhotoFinish = FALSE
  ReusesInFlight = FALSE
  MaxEpoch = 2
  MaxFailures = 2
INVARIANTS TypeOK OwnTranscriptOnly LoopServesQueue NoStrandedResult ConsumedMeansReceived
PROPERTIES NoDuplicateInjection ResultReachesModel
