SPECIFICATION Spec
CONSTANTS
  p1 = p1
  p2 = p2
  p3 = p3
  far = far
  Process = {p1, p2, p3}
  Pid = {1, 2, 3}
  PidOf <- SharedPid
  HostOf <- TwoHosts
  Faults = {"probeWindow"}
  ProbeMayFail = TRUE
  MaxLocks = 3
PROPERTY
  ReplacementNeverMoved
CHECK_DEADLOCK FALSE
