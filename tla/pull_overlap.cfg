CONSTANTS
  People = {w1, w2}
  Machines = {m1}
  Pulls = {p1, p2}
  MaxActs = 4
  Page = 2
  Ascending = TRUE
  MaxFails = 2
SPECIFICATION Spec
SYMMETRY Symmetric
INVARIANTS  NewestShownAlone
CHECK_DEADLOCK FALSE
