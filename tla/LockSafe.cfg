SPECIFICATION Spec
CONSTANTS
  p1 = p1
  p2 = p2
  p3 = p3
  far = far
  Process = {p1, p2, p3, far}
  Pid = {1, 2, 3}
  PidOf <- SharedPid
  HostOf <- TwoHosts
  Faults = {}
  ProbeMayFail = TRUE
  MaxLocks = 3
INVARIANTS
  TypeOK
  MutualExclusion
  IInv
PROPERTIES
  OnlyAbandonedLocksMoved
  KeepsContract
CHECK_DEADLOCK FALSE
