SPECIFICATION Spec
CONSTANTS
  Items = {1, 2, 3}
  Lists = {"summaries"}
  Limits = {1, 2}
  MaxWrites = 3
  Day = 3
  Offset = 1
  NoCursor = NoCursor
INVARIANTS PagesFollowTheOrder
CHECK_DEADLOCK FALSE
