SPECIFICATION Spec
CONSTANTS
  w1 = w1 w2 = w2 d1 = d1 d2 = d2 s1 = s1 s2 = s2 f1 = f1 f2 = f2 f3 = f3
  None = None
  Publisher = {w1, w2}
  Digest = {d1, d2}
  Source = {s1}
  File = {f1, f2, f3}
  MaxLosses = 1
SYMMETRY Alike
INVARIANTS
  NamesIntact
  AckedSurvives
  NoLeaks
PROPERTIES
  KeepsArchive
CHECK_DEADLOCK FALSE
