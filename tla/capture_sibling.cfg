CONSTANTS
  Sessions = {s1, s2}
  Procs = {p1}
  MaxTurns = 1
  MaxFails = 0
  Wired = FALSE
SPECIFICATION Spec
INVARIANT SiblingKept
CHECK_DEADLOCK FALSE
