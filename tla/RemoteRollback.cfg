SPECIFICATION Spec
CONSTANTS
  laptop = laptop
  ci = ci
  b1 = b1
  b2 = b2
  o1 = o1
  None = None
  worker = worker
  Machine = {laptop, ci}
  Reader = {worker}
  Build = {b1, b2}
  Object = {o1}
  Body <- Shared
  Candidates <- LaptopDeploys
  Commands <- CiMaintains
  KeepPrevious = 0
  Faults = {"unfinishedRollback"}
  MaxGeneration = 3
  MaxTrouble = 1
INVARIANT
  ServedBuildIsWhole
CHECK_DEADLOCK FALSE
