CONSTANTS
  a = a
  b = b
  Workloads = {a, b}
  Mission <- RepeatedLabel
  MaxFrame = 2
  InLimit = 2
  OutCap = 1
  Faults = {"start", "commit"}
SPECIFICATION FairSpec
INVARIANTS
  OutputsOfOneWorkload
PROPERTIES
  JoinReturns
  TransitionEnds
