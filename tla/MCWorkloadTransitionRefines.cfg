CONSTANTS
  a = a
  b = b
  Workloads = {a, b}
  Mission <- Recurrence
  MaxFrame = 3
  InLimit = 2
  OutCap = 1
  Faults = {}
SPECIFICATION Spec
PROPERTIES
  RefinesLearner
