SPECIFICATION FairSpec
CONSTANTS
  Requests = {c1, c2}
  Others = {c3}
  Forceable = {c1, c3}
  None = None
  MaxSource = 2
INVARIANTS TypeOK AnswersMatchTheSource NothingOldIsRefreshed PairsExclude
PROPERTIES EveryCallEnds
CHECK_DEADLOCK FALSE
