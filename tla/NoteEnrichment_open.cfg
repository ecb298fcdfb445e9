SPECIFICATION Spec
CONSTANTS
  Notes = {n1, n2}
  Instances = {i1}
  MaxAttempts = 2
  BatchSize = 2
  Concurrency = 1
  LostAcks = TRUE
  ExplicitCalls = TRUE
  MaxClaims = 2
  MaxStops = 1
SYMMETRY Interchangeable
INVARIANTS TypeOK ResultMatchesStatus
PROPERTIES NeverOverwritten
CHECK_DEADLOCK FALSE
