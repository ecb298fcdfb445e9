SPECIFICATION Spec
CONSTANTS
  Emails = {e1, e2}
  TgIds = {g1, g2}
  Configured = {g1}
  None = None
  Workers = {w1, w2}
  MaxUsers = 3
  Sessions = {s1, s2, s3}
  Tokens = {t1, t2}
  MaxNotes = 1
SYMMETRY Symmetry
INVARIANTS TypeOK OneLogin SessionsHaveLogin LinkUsedOnce NotesReachable
PROPERTIES LinkJoinsTheRequester DataSurvivesLinking
CHECK_DEADLOCK FALSE
