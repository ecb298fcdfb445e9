SPECIFICATION FairSpec
CONSTANTS
  Notes = {n1}
  Instances = {i1, i2}
  MaxAttempts = 3
  BatchSize = 1
  Concurrency = 1
  LostAcks = TRUE
  ExplicitCalls = FALSE
  MaxClaims = 0
  MaxStops = 1
PROPERTIES ProcessedIsFinal
CHECK_DEADLOCK FALSE
