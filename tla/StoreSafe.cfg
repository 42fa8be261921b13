SPECIFICATION Spec
CONSTANTS
  server = server
  cli = cli
  other = other
  b1 = b1
  b2 = b2
  o1 = o1
  o2 = o2
  None = None
  Process = {server, cli, other}
  Build = {b1, b2}
  Object = {o1, o2}
  Body <- TwoBodies
  Commands <- Roles
  KeepPrevious = 0
  MaxGeneration = 3
  MaxDamage = 0
INVARIANTS
  RecordedBuildsOpen
  ObjectsOutliveCatalogs
  PointerAgreesWithHistory
  LiveAndReadBuildsServe
PROPERTIES
  OnlyShownIsRemoved
  RegistrySpec
  UsesLocksAsPromised
CHECK_DEADLOCK FALSE
