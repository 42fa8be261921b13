SPECIFICATION SessionSpec
CONSTANTS
  a = a
  b = b
  r1 = r1
  r2 = r2
  Content = {a, b}
  First = a
  Older = {b}
  Unreadable = Unreadable
  None = None
  Request = {r1, r2}
  KeepPrevious = 0
  Faults = {}
  MaxEdits = 1
  MaxMoves = 1
  MaxTrouble = 0
  MaxQueue = 1
  MaxRefusals = 2
  MaxCleanups = 1
SYMMETRY Symmetric
INVARIANTS
  SessionTypeOK
  OpenCatalogsExist
  CatalogsServeTheirReads
  StopsCleanly
PROPERTY
  EnvelopeTellsOfItsBuild
CHECK_DEADLOCK FALSE
