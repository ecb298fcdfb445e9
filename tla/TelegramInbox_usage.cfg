SPECIFICATION Spec
CONSTANTS
  Updates = {u1}
  Instances = {i1}
  MaxAttempts = 3
  Failures = FALSE
  MaxStops = 0
INVARIANTS UsageIsAnswered
CHECK_DEADLOCK FALSE
