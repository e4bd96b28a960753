CONSTANTS
  Keys = {k1, k2}
  Subjects = {a1}
  Procs = {p1, p2}
  MaxCalls = 4
  MaxPosts = 2
  MaxFaults = 1
SPECIFICATION Spec
SYMMETRY Symmetric
INVARIANTS TypeOK StoresGrounded VerdictsStand NoRepost MuteStopsEscalate
CHECK_DEADLOCK FALSE
