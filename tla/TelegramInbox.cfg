SPECIFICATION FairSpec
CONSTANTS
  Updates = {u1}
  Instances = {i1, i2}
  MaxAttempts = 2
  Failures = TRUE
  MaxStops = 2
INVARIANTS TypeOK AtMostOnce AnswersAreTrue AttemptsBounded
PROPERTIES ProcessedIsFinal NoSilence
CHECK_DEADLOCK FALSE
