CONSTANTS
  a = a
  b = b
  Workloads = {a, b}
  Mission <- TwoPhases
  MaxFrame = 2
  InLimit = 2
  OutCap = 1
  Faults = {"configure", "start", "restart", "originalMerged", "displayClosed"}
SPECIFICATION Spec
INVARIANTS
  TypeOK
  StampNamesWorkload
  ProvenFrameIsNew
  ControllerFollowsWorker
  BarrierHoldsGeneration
PROPERTIES
  LearnsFromOwnFrames
CHECK_DEADLOCK FALSE
