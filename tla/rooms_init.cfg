CONSTANTS
  top = top
  sub = sub
  r1 = r1
  r2 = r2
  pr = pr
  w1 = w1
  w2 = w2
  None = None
  Dirs = {top, sub}
  Depth <- MCDepth
  Above <- MCAbove
  Legacy <- MCLegacy
  RoomNames = {r1, r2}
  Profiles = {pr}
  Spaces = {w1, w2}
  SpaceOf <- MCSpaceOf
  Names = {ann}
  Procs = {p1, p2}
  MaxRuns = 2
  MaxKills = 1
SPECIFICATION Spec
SYMMETRY Symmetry
INVARIANTS RecordsKept ProfileStands UserHooksKept
 
CHECK_DEADLOCK FALSE
