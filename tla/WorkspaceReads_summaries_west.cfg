SPECIFICATION Spec
CONSTANTS
  Items = {1, 2, 3}
  Lists = {"summaries"}
  Limits = {1, 2}
  MaxWrites = 3
  Day = 3
  Offset <- WestOfUTC
  NoCursor = NoCursor
INVARIANTS DeliveredOnce
CHECK_DEADLOCK FALSE
