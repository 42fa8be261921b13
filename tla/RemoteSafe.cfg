SPECIFICATION Spec
CONSTANTS
  laptop = laptop
  ci = ci
  b1 = b1
  b2 = b2
  o1 = o1
  None = None
  worker = worker
  Machine = {laptop, ci}
  Reader = {worker}
  Build = {b1, b2}
  Object = {o1}
  Body <- Shared
  Candidates <- LaptopDeploys
  Commands <- CiMaintains
  KeepPrevious = 0
  Faults = {}
  MaxGeneration = 3
  MaxTrouble = 1
INVARIANTS
  TypeOK
  RetainedBuildsAreWhole
  OneRemoteWriter
  ReceiptsTellTheTruth
  ServedBuildIsWhole
PROPERTY
  ServesWholeBuilds
CHECK_DEADLOCK FALSE
