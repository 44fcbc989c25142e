\* Three frames and two pending rows: eviction happens, and the history of two
\* rows overflows.
CONSTANTS
  MaxFrame = 2
  MaxPending = 2
  MaxHistory = 2
SPECIFICATION FairSpec
INVARIANTS TypeOK PendingHasArrival HistoryFollowsFile ShutdownLosesNoRow
PROPERTIES RefinesLedger EvictsOldest CompleteRowsAreWritten
