SPECIFICATION FairSpec
CONSTANTS
  Notes = {n1}
  Instances = {i1, i2}
  MaxAttempts = 2
  BatchSize = 1
  Concurrency = 1
  LostAcks = FALSE
  ExplicitCalls = FALSE
  MaxClaims = 0
  MaxStops = 1
PROPERTIES ExhaustedNotesFail
CHECK_DEADLOCK FALSE
