CONSTANTS
  Samples = 4
  FirmVotes = 2
  MinPerKind = 3
  MaxRows = 4
  MaxTears = 2
SPECIFICATION LogSpec
INVARIANTS   IntervalSeparatesAlike
CHECK_DEADLOCK FALSE
