SPECIFICATION Spec
CONSTANTS
  a = a
  b = b
  c = c
  Content = {a, b, c}
  First = a
  Older = {b}
  Unreadable = Unreadable
  None = None
  KeepPrevious = 1
  Faults = {}
  MaxEdits = 1
  MaxMoves = 1
  MaxTrouble = 0
  MaxQueue = 2
INVARIANTS
  QuietCleanIsTrue
CHECK_DEADLOCK FALSE
