SPECIFICATION FairSpec
CONSTANTS
  Processes = {p1, p2}
  Files = {1, 2}
  Releases <- ReleasesInOrder
  Settings <- Environments
  None = None
  MaxStarts = 3
INVARIANTS TypeOK AppliedOnce PoolClosesLast
PROPERTIES RunnersFinish StopsWhenTold
CHECK_DEADLOCK FALSE
