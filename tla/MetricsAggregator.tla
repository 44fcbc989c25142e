-------------------------- MODULE MetricsAggregator --------------------------
(***************************************************************************)
(* The rows of SystemMetricsAggregatorConcreteV3_2: the camera opens a row *)
(* for every frame, the algorithm adds its half, the display completes it; *)
(* finalized rows go through the batch to the CSV file and the history.    *)
(* Rows that stay incomplete are pruned by age, or evicted when there are  *)
(* too many.                                                               *)
(*                                                                         *)
(* Threads: camera, algorithm worker, display, the aggregator's own flush  *)
(* thread, and the main thread, which shuts the pipeline down with stopAll *)
(* and flushMetrics.  One action is one critical section.                  *)
(***************************************************************************)
EXTENDS Naturals, Sequences, FiniteSets, Functions
SeqsExt == INSTANCE SequencesExt

CONSTANTS
  MaxFrame,       \* bound: the last frame the camera delivers
  MaxPending,     \* maxPendingFrames_
  MaxHistory      \* maxHistorySize_

ASSUME AggregatorAssumption ==
  MaxFrame \in Nat /\ MaxPending \in Nat \ {0} /\ MaxHistory \in Nat \ {0}

Frames   == 0 .. MaxFrame
Flushers == {"flush", "main"}
None     == MaxFrame + 1            \* no frame

VARIABLES
  nextFrame,      \* the camera's next frame
  pending,        \* frames with a row in pending_
  hasAlg,         \* those whose row has the algorithm's half
  frameStarted,   \* frameStarted_
  arrivalOrder    \* arrivalOrder_, oldest first

VARIABLES
  batchBuffer,    \* batchBuffer_, as frame ids
  local,          \* localBatch of each thread in flushBatchBuffer
  csv,            \* rows written to the realtime file
  history,        \* history_
  stopping        \* stopping_

VARIABLES
  wpc, merged, pushed,   \* worker: position, last frame merged, last frame pushed
  dpc, shown,            \* display: position, and the frame it presents
  fpc,                   \* position of each flusher in flushBatchBuffer
  mpc                    \* main thread: position in stopAll and flushMetrics

rows    == <<pending, hasAlg, frameStarted, arrivalOrder>>
stored  == <<batchBuffer, local, csv, history>>
threads == <<wpc, merged, pushed, dpc, shown, fpc, mpc>>
vars    == <<nextFrame, rows, stored, stopping, threads>>

FlushSteps == {"idle", "prune", "take", "write", "commit", "exited"}
MainSteps  == {"running", "joinDisplay", "joinCamera", "cameraFlush", "joinWorker",
               "stop", "joinFlush", "finalFlush", "done"}

TypeOK ==
  /\ nextFrame \in 0 .. MaxFrame + 1
  /\ pending \subseteq Frames /\ Cardinality(pending) <= MaxPending
  /\ hasAlg \subseteq pending
  /\ frameStarted \subseteq Frames /\ arrivalOrder \in Seq(Frames)
  /\ batchBuffer \in Seq(Frames) /\ local \in [Flushers -> Seq(Frames)]
  /\ csv \in Seq(Frames) /\ history \in Seq(Frames)
  /\ stopping \in BOOLEAN
  /\ wpc \in {"pop", "push", "exited"}
  /\ merged \in Frames \cup {None} /\ pushed \in Frames \cup {None}
  /\ dpc \in {"render", "merge", "overlay", "exited"} /\ shown \in Frames
  /\ fpc \in [Flushers -> FlushSteps]
  /\ mpc \in MainSteps

Init ==
  /\ nextFrame = 0
  /\ pending = {} /\ hasAlg = {} /\ frameStarted = {} /\ arrivalOrder = <<>>
  /\ batchBuffer = <<>> /\ local = [t \in Flushers |-> <<>>]
  /\ csv = <<>> /\ history = <<>>
  /\ stopping = FALSE
  /\ wpc = "pop" /\ merged = None /\ pushed = None
  /\ dpc = "render" /\ shown = 0
  /\ fpc = [t \in Flushers |-> "idle"]
  /\ mpc = "running"

\* Definitions marked "seeded" are the code with one mistake: no action uses
\* them, a run with one in place of its neighbour must violate a property.

(***************************************************************************)
(* Camera: beginFrame, with enforceRetentionPolicy on pending_.  Ids are   *)
(* taken off the front of arrivalOrder_, where rows already gone may have  *)
(* left theirs, until few enough rows are left.                            *)
(***************************************************************************)
\* seeded: the newest rows go first
PoppedNewest(s, k) == Range(SubSeq(s, Len(s) - k + 1, Len(s)))
Popped(s, k)       == Range(SubSeq(s, 1, k))

\* seeded: one id too many is taken off
RestShort(s, k) == SubSeq(s, k + 2, Len(s))
Rest(s, k)      == SubSeq(s, k + 1, Len(s))

\* seeded: one row too many stays
EnoughLate(p, s, k) == Cardinality(p \ Popped(s, k)) <= MaxPending + 1
Enough(p, s, k)     == Cardinality(p \ Popped(s, k)) <= MaxPending
Pops(p, s) ==
  CHOOSE k \in 0 .. Len(s) : Enough(p, s, k) /\ \A j \in 0 .. k - 1 : ~Enough(p, s, j)

BeginFrame ==
  /\ nextFrame <= MaxFrame
  /\ mpc \in {"running", "joinDisplay", "joinCamera"}
  /\ nextFrame' = nextFrame + 1
  /\ frameStarted' = frameStarted \cup {nextFrame}
  /\ LET p == pending \cup {nextFrame}
         s == Append(arrivalOrder, nextFrame)
         k == Pops(p, s)
     IN  /\ pending' = p \ Popped(s, k)
         /\ hasAlg' = hasAlg \ Popped(s, k)
         /\ arrivalOrder' = Rest(s, k)
  /\ UNCHANGED <<stored, stopping, threads>>

(***************************************************************************)
(* Worker: mergeAlgorithm, then the push to the display.  A row never has  *)
(* the display's half while it is pending, so tryFinalizeFrame keeps it,   *)
(* unless the thread is delayed by mergeWaitMs_ inside it: then the        *)
(* incomplete row is dropped.                                              *)
(***************************************************************************)
\* Take the rows F out of pending_ and frameStarted_.
Forget(F) ==
  /\ pending' = pending \ F
  /\ hasAlg' = hasAlg \ F
  /\ frameStarted' = frameStarted \ F

MergeAlgorithm(f) ==
  /\ wpc = "pop"
  /\ f < nextFrame /\ (merged # None => f > merged)
  /\ \/ /\ hasAlg' = hasAlg \cup ({f} \cap pending)
        /\ UNCHANGED <<pending, frameStarted>>
     \/ f \in pending /\ Forget({f})
  /\ merged' = f
  /\ wpc' = "push"
  /\ UNCHANGED <<nextFrame, arrivalOrder, stored, stopping, pushed, dpc, shown, fpc, mpc>>

WorkerPushes ==
  /\ wpc = "push"
  /\ pushed' = merged
  /\ wpc' = "pop"
  /\ UNCHANGED <<nextFrame, rows, stored, stopping, merged, dpc, shown, fpc, mpc>>

WorkerExits ==
  /\ wpc = "pop" /\ mpc = "joinWorker"
  /\ wpc' = "exited"
  /\ UNCHANGED <<nextFrame, rows, stored, stopping, merged, pushed, dpc, shown, fpc, mpc>>

(***************************************************************************)
(* Display: it presents the newest processed frame, or an original one     *)
(* until there is any, and merges on every tick, also for a frame merged   *)
(* before.  mergeDisplay waits for the row at most mergeWaitMs_, so the    *)
(* look-up may come at any time.                                           *)
(***************************************************************************)
DisplayRenders ==
  /\ dpc = "render"
  /\ IF pushed # None
     THEN shown' = pushed
     ELSE shown' \in {shown} \cup {f \in Frames : shown <= f /\ f < nextFrame}
  /\ dpc' = "merge"
  /\ UNCHANGED <<nextFrame, rows, stored, stopping, wpc, merged, pushed, fpc, mpc>>

\* An id is listed once: std::remove takes it out at its place.
Without(s, f) ==
  IF f \in Range(s) THEN SeqsExt!RemoveAt(s, CHOOSE i \in DOMAIN s : s[i] = f) ELSE s

\* The row leaves pending_ with its display half, and with SoC and power data
\* taken from the samples; without the algorithm's half finalizeFrame drops it.
DisplayMerges ==
  /\ dpc = "merge"
  /\ IF shown \in pending /\ ~stopping
     THEN /\ Forget({shown})
          /\ arrivalOrder' = Without(arrivalOrder, shown)
     ELSE UNCHANGED rows
  /\ dpc' = IF shown \in hasAlg /\ ~stopping THEN "overlay" ELSE "render"
  /\ UNCHANGED <<nextFrame, stored, stopping, wpc, merged, pushed, shown, fpc, mpc>>

\* finalizeFrame has walked pending_ for the overlays, without mutex_, in
\* dpc = "overlay"; the row goes to the batch.
DisplayBatches ==
  /\ dpc = "overlay"
  /\ batchBuffer' = Append(batchBuffer, shown)
  /\ dpc' = "render"
  /\ UNCHANGED <<nextFrame, rows, local, csv, history, stopping, wpc, merged, pushed, shown, fpc, mpc>>

DisplayExits ==
  /\ dpc = "render" /\ mpc = "joinDisplay"
  /\ dpc' = "exited"
  /\ UNCHANGED <<nextFrame, rows, stored, stopping, wpc, merged, pushed, shown, fpc, mpc>>

(***************************************************************************)
(* flushBatchBuffer: take under batchMutex_, write under ioMutex_, commit  *)
(* under mutex_.  The flush thread and the main thread both call it.       *)
(***************************************************************************)
GoesTo(t, pc) == fpc' = [fpc EXCEPT ![t] = pc]

FlushPcOnly == UNCHANGED <<nextFrame, rows, stopping, wpc, merged, pushed, dpc, shown, mpc>>

\* seeded: the swap becomes a copy
TakeCopy(t) ==
  /\ batchBuffer # <<>> /\ GoesTo(t, "write")
  /\ local' = [local EXCEPT ![t] = batchBuffer] /\ UNCHANGED batchBuffer

Take(t) ==
  /\ batchBuffer # <<>> /\ GoesTo(t, "write")
  /\ local' = [local EXCEPT ![t] = batchBuffer] /\ batchBuffer' = <<>>

TakeBatch(t) ==
  /\ fpc[t] = "take"
  /\ \/ Take(t)
     \/ batchBuffer = <<>> /\ GoesTo(t, "idle") /\ UNCHANGED <<local, batchBuffer>>
  /\ UNCHANGED <<csv, history>> /\ FlushPcOnly

WriteBatch(t) ==
  /\ fpc[t] = "write"
  /\ csv' = csv \o local[t]
  /\ GoesTo(t, "commit")
  /\ UNCHANGED <<batchBuffer, local, history>> /\ FlushPcOnly

\* seeded: the history keeps the oldest rows
Oldest(s) == IF Len(s) > MaxHistory THEN SubSeq(s, 1, MaxHistory) ELSE s

\* enforceRetentionPolicy on history_
Newest(s) == IF Len(s) > MaxHistory THEN SubSeq(s, Len(s) - MaxHistory + 1, Len(s)) ELSE s

CommitBatch(t) ==
  /\ fpc[t] = "commit"
  /\ history' = Newest(history \o local[t])
  /\ local' = [local EXCEPT ![t] = <<>>]
  /\ GoesTo(t, "idle")
  /\ UNCHANGED <<batchBuffer, csv>> /\ FlushPcOnly

(***************************************************************************)
(* The flush thread sleeps, tests stopping_, prunes and flushes.           *)
(***************************************************************************)
\* seeded: nothing is flushed when no row waits
FlushWakesForRows ==
  /\ fpc["flush"] = "idle" /\ ~stopping /\ pending # {}
  /\ GoesTo("flush", "prune")
  /\ UNCHANGED stored /\ FlushPcOnly

FlushWakes ==
  /\ fpc["flush"] = "idle" /\ ~stopping
  /\ GoesTo("flush", "prune")
  /\ UNCHANGED stored /\ FlushPcOnly

FlushExits ==
  /\ fpc["flush"] = "idle" /\ stopping
  /\ GoesTo("flush", "exited")
  /\ UNCHANGED stored /\ FlushPcOnly

\* S may be the rows of age 2 * mergeWaitMs_: a row ages from its beginFrame,
\* or again from its mergeAlgorithm.
Aged(S) == \A f \in S, g \in pending \ S : g < f => g \in hasAlg /\ f \notin hasAlg

\* The rows pruned lack the display's half, so finalizeFrame drops them.
Prune ==
  /\ fpc["flush"] = "prune"
  /\ \E S \in SUBSET pending : Aged(S) /\ Forget(S)
  /\ GoesTo("flush", "take")
  /\ UNCHANGED <<nextFrame, arrivalOrder, stored, stopping, wpc, merged, pushed, dpc, shown, mpc>>

(***************************************************************************)
(* Main thread: stopAll stops the display, then the camera, which flushes, *)
(* then the worker; flushMetrics stops the flush thread and flushes again. *)
(***************************************************************************)
MainGoesTo(pc) ==
  /\ mpc' = pc
  /\ UNCHANGED <<nextFrame, rows, stored, wpc, merged, pushed, dpc, shown>>

CallsFlush(pc) == MainGoesTo(pc) /\ GoesTo("main", "take") /\ UNCHANGED stopping
Proceeds(pc)   == MainGoesTo(pc) /\ UNCHANGED <<fpc, stopping>>

\* seeded: the render loop is asked to end but not waited for
DisplayLeft == mpc = "joinDisplay" /\ Proceeds("joinCamera")

StopAll        == mpc = "running" /\ Proceeds("joinDisplay")
DisplayJoined  == mpc = "joinDisplay" /\ dpc = "exited" /\ Proceeds("joinCamera")
StopCapture    == mpc = "joinCamera" /\ CallsFlush("cameraFlush")
CaptureStopped == mpc = "cameraFlush" /\ fpc["main"] = "idle" /\ Proceeds("joinWorker")
WorkerJoined   == mpc = "joinWorker" /\ wpc = "exited" /\ Proceeds("stop")
StopFlush ==
  /\ mpc = "stop"
  /\ stopping' = TRUE
  /\ MainGoesTo("joinFlush") /\ UNCHANGED fpc
FlushJoined == mpc = "joinFlush" /\ fpc["flush"] = "exited" /\ CallsFlush("finalFlush")
Exported    == mpc = "finalFlush" /\ fpc["main"] = "idle" /\ Proceeds("done")

Worker  == (\E f \in Frames : MergeAlgorithm(f)) \/ WorkerPushes \/ WorkerExits
Display == DisplayRenders \/ DisplayMerges \/ DisplayBatches \/ DisplayExits
Flush(t) == TakeBatch(t) \/ WriteBatch(t) \/ CommitBatch(t)
FlushThread == FlushWakes \/ FlushExits \/ Prune \/ Flush("flush")
MainThread ==
  \/ DisplayJoined \/ StopCapture \/ CaptureStopped \/ WorkerJoined
  \/ StopFlush \/ FlushJoined \/ Exported \/ Flush("main")

\* bound: the run ends when the process is about to exit
Finished == mpc = "done" /\ UNCHANGED vars

Next == BeginFrame \/ Worker \/ Display \/ FlushThread \/ StopAll \/ MainThread \/ Finished

Spec == Init /\ [][Next]_vars

\* The display, the flush thread and the main thread once it shuts down are
\* scheduled; the camera and the worker owe nothing.
FairSpec == Spec /\ WF_vars(Display) /\ WF_vars(FlushThread) /\ WF_vars(MainThread)

(***************************************************************************)
(* Properties.                                                             *)
(***************************************************************************)

\* Every pending row is listed in arrivalOrder_: enforceRetentionPolicy takes
\* the front of that list for as long as there are too many rows, without a
\* test for an empty one, while display, worker and pruning take rows and ids
\* out in different ways.
PendingHasArrival == pending \subseteq Range(arrivalOrder)

\* enforceRetentionPolicy gives up old rows for newer ones, and never the row
\* that is just being opened.
EvictsOldest ==
  [][nextFrame' # nextFrame =>
       /\ nextFrame \in pending'
       /\ \A g \in pending \ pending', h \in pending' : g < h]_vars

Copies(f, s) == Cardinality({i \in DOMAIN s : s[i] = f})

\* A row's copies on their way to the file, and in the file.
Unwritten(f) ==
    Copies(f, batchBuffer) + (IF dpc = "overlay" /\ shown = f THEN 1 ELSE 0)
    + (IF fpc["flush"] = "write" THEN Copies(f, local["flush"]) ELSE 0)
    + (IF fpc["main"] = "write" THEN Copies(f, local["main"]) ELSE 0)

row == [f \in Frames |->
  CASE f >= nextFrame                                               -> "none"
    [] f \in pending /\ Unwritten(f) + Copies(f, csv) = 0           -> "open"
    [] f \notin pending /\ Unwritten(f) = 1 /\ Copies(f, csv) = 0   -> "complete"
    [] f \notin pending /\ Unwritten(f) = 0 /\ Copies(f, csv) = 1   -> "written"
    [] f < nextFrame /\ f \notin pending /\ Unwritten(f) + Copies(f, csv) = 0 -> "dropped"
    [] OTHER -> "doubled"]

Ledger == INSTANCE RowLedger

\* Across the lock of the pending rows, that of the batch, that of the files
\* and the two threads that flush, a row is completed once, and a complete row
\* is neither lost nor written twice.
RefinesLedger == Ledger!Spec

\* As long as only the flush thread flushes, the history holds the newest rows
\* of the file, except those being committed.
HistoryFollowsFile ==
  mpc \in {"running", "joinDisplay", "joinCamera"} =>
    LET committed == Len(csv) - (IF fpc["flush"] = "commit" THEN Len(local["flush"]) ELSE 0)
        skipped   == IF committed > MaxHistory THEN committed - MaxHistory ELSE 0
    IN  history = SubSeq(csv, skipped + 1, committed)

\* When the process is about to exit nothing is left in a buffer, and the
\* history is as full as the rows allow, whichever thread wrote them.
ShutdownLosesNoRow ==
  mpc = "done" =>
    /\ batchBuffer = <<>> /\ \A t \in Flushers : local[t] = <<>>
    /\ Len(history) = IF Len(csv) > MaxHistory THEN MaxHistory ELSE Len(csv)
    /\ Range(history) \subseteq Range(csv)

\* A complete row reaches the file, also with no frame after it and with the
\* shutdown at any point.
CompleteRowsAreWritten == \A f \in Frames : row[f] = "complete" ~> row[f] = "written"

\* applyOverlaysForRow: "PRECONDITION: caller holds mutex_": while it walks
\* pending_, nobody changes pending_.
PendingStableDuringWalk == [][dpc = "overlay" => pending' = pending]_vars
=============================================================================
