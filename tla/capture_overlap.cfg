CONSTANTS
  Sessions = {s1}
  Procs = {p1, p2}
  MaxTurns = 2
  MaxFails = 1
  Wired = FALSE
SPECIFICATION FairSpec
INVARIANTS TypeOK OffsetCovered
PROPERTY CaptureLands
CHECK_DEADLOCK FALSE
