SPECIFICATION Spec
CONSTANTS
  Notes = {n1}
  Instances = {i1, i2}
  MaxAttempts = 3
  BatchSize = 1
  Concurrency = 1
  LostAcks = FALSE
  ExplicitCalls = TRUE
  MaxClaims = 4
  MaxStops = 1
INVARIANTS OneOwner
CHECK_DEADLOCK FALSE
