SPECIFICATION Spec
CONSTANTS
  Emails = {e1}
  TgIds = {g1}
  Configured = {g1}
  None = None
  Workers = {w1}
  MaxUsers = 2
  Sessions = {s1}
  Tokens = {t1}
  MaxNotes = 1
PROPERTIES OnlyLinksAdmit
CHECK_DEADLOCK FALSE
