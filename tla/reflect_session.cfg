CONSTANTS
  Types = {intent}
  Subjects = {s1, s2}
  Contents = {c1, c2}
  tokens <- MCTokens
  People = {a, b}
  Callers = {t1, t2}
  MaxAtoms = 2
  MaxEmits = 3
  MaxCalls = 2
SPECIFICATION SessionSpec
SYMMETRY Symmetric
INVARIANTS  MirrorSaysWhatChanged DriftRoutesTheSurprise
CHECK_DEADLOCK FALSE
