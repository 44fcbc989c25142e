CONSTANTS
  a = a
  b = b
  Workloads = {a, b}
  Mission <- TwoPhases
  MaxFrame = 2
  InLimit = 2
  OutCap = 1
  Faults = {"displayClosed"}
SPECIFICATION FairSpec
PROPERTIES
  JoinReturns
CHECK_DEADLOCK FALSE
