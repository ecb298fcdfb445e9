SPECIFICATION Spec
CONSTANTS
  Items = {1, 2, 3}
  Lists = {"notes", "today", "note", "person", "ticket", "actions", "people", "tickets", "summaries"}
  Limits = {1, 2}
  MaxWrites = 3
  Day = 3
  Offset = 0
  NoCursor = NoCursor
INVARIANTS TypeOK
CHECK_DEADLOCK FALSE
