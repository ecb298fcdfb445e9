SPECIFICATION FairSpec
CONSTANTS
  Notes = {n1}
  Instances = {i1, i2}
  MaxAttempts = 3
  BatchSize = 1
  Concurrency = 1
  LostAcks = FALSE
  ExplicitCalls = FALSE
  MaxClaims = 0
  MaxStops = 2
INVARIANTS OneOwner AttemptsBounded
PROPERTIES CompletedActionsSurvive ImplementsContract
CHECK_DEADLOCK FALSE
