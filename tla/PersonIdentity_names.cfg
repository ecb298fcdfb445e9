SPECIFICATION Spec
CONSTANTS
  Spellings = {1, 2, 3}
  Norm <- MCNorm
  Known <- MCKnown
  MaxPeople = 3
  Enrichments = {n1}
  Mentions <- MCMentions
  OldNotes = {n0}
  Edits = {d1, d2}
  AliasCountMax = 1
  MaxHops = 10
INVARIANTS NamesStayResolvable
SYMMETRY EditSymmetry
CHECK_DEADLOCK FALSE
