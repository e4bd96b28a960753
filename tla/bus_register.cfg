CONSTANTS
  w1 = w1
  w2 = w2
  m1 = m1
  m2 = m2
  None = None
  People = {w1, w2}
  Procs = {p1, p2, p3}
  Machines = {m1, m2}
  MaxVersions = 3
  Page = 3
  OneOpener = TRUE
  OnePerPerson = TRUE
  MarksCopies = TRUE
  Agent <- MCAgent
SPECIFICATION BusSpec
SYMMETRY Symmetric
PROPERTIES  FolderReplaces 
INVARIANTS   OneHistory
CHECK_DEADLOCK FALSE
