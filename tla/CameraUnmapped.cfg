CONSTANTS
  NumBuffers = 2
  Backends = {"usb"}
  QueueLimit = 2
  Drivers = {"mission"}
  OutCap = 1
SPECIFICATION Spec
INVARIANTS FramesStayMapped
CHECK_DEADLOCK FALSE
