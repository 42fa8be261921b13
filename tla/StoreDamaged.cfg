SPECIFICATION FairSpec
CONSTANTS
  server = server
  cli = cli
  other = other
  b1 = b1
  b2 = b2
  o1 = o1
  o2 = o2
  None = None
  Process = {server, cli}
  Build = {b1, b2}
  Object = {o1, o2}
  Body <- TwoBodies
  Commands <- Roles
  KeepPrevious = 0
  MaxGeneration = 2
  MaxDamage = 1
INVARIANTS
  TypeOK
  PointerAgreesWithHistory
  DamagedBuildIsReplaced
  ObjectsOutliveCatalogs
PROPERTIES
  OnlyShownIsRemoved
  ProjectLockIsFreed
CHECK_DEADLOCK FALSE
