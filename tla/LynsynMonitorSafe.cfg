\* The limits of the code.
CONSTANTS
  MaxAttempts = 6
  MaxFails = 10
  ResetEvery = 3
SPECIFICATION FairSpec
INVARIANTS TypeOK DeviceUsedByOne StartedIsClosed
PROPERTIES FailingProbeEndsThread StopReturnsWhileSampling
