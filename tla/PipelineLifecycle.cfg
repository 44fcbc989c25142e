CONSTANTS
  NumBuffers = 2
  Backends = {"usb", "csi"}
  QueueLimit = 2
  Drivers = {"mission", "benchmark"}
  OutCap = 1
SPECIFICATION FairSpec
INVARIANTS
  TypeOK
  NeverRefilled
  ThreadHasObject
  ControlsWholePipeline
PROPERTIES
  StarvationEnds
  StopAllReturns
\* A program that has ended, or whose worker is stuck, stops for good.
CHECK_DEADLOCK FALSE
