CONSTANTS
  MaxFrame = 2
  MaxPending = 2
  MaxHistory = 2
SPECIFICATION Spec
PROPERTIES PendingStableDuringWalk
