CONSTANTS
  ann = ann
  all = all
  k1 = k1
  Viewers <- MCViewers
  Keys <- MCKeys
  Involves <- MCInvolves
  Hooked <- MCHooked
  HandRuns <- MCHandRuns
  Procs = {p1, p2}
  Window = 2
  Timeout = 1
  MaxTime = 3
  MaxStarts = 3
  MaxKills = 1
  MaxVerdicts = 2
SYMMETRY Symmetry
SPECIFICATION Spec
INVARIANTS  RefreshBudget
PROPERTY VerdictCarriesLatest
CHECK_DEADLOCK FALSE
