SPECIFICATION FairSpec
CONSTANTS
  a = a
  b = b
  c = c
  Content = {a, b}
  First = a
  Older = {b}
  Unreadable = Unreadable
  None = None
  KeepPrevious = 0
  Faults = {}
  MaxEdits = 2
  MaxMoves = 1
  MaxTrouble = 1
  MaxQueue = 1
INVARIANTS
  TypeOK
  QuietCleanUnlessOvertaken
PROPERTIES
  RollbackStays
  Converges
  ClosingDrains
CHECK_DEADLOCK FALSE
