CONSTANTS
  t1 = t1
  t2 = t2
  t3 = t3
  a = a
  Threads = {t1, t2, t3}
  Items = {a}
  maxSize = 2
  MaxRejected = 1
SPECIFICATION FairSpec
INVARIANTS
  TypeOK
  NoLostWakeupNotFull
  NoLostWakeupNotEmpty
PROPERTIES
  RefinesFifo
  StopReleasesCallers
  PopForReturns
