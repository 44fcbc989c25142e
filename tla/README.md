# TLA+ specification of the ERL video pipeline

The program (`src/SampleTestIntegrationCode_v34.cpp` and what it includes) is a
video pipeline on a Jetson Nano whose parameters are tuned, while it runs, by a
genetic algorithm. In its mission mode one process runs one pipeline and one
genetic algorithm; the image algorithm is replaced at the phase boundaries of a
mission file, and the learner must neither be restarted nor be fed with frames
of an algorithm that no longer runs. This directory holds TLA+ modules of the
concurrent core of that program, the TLC configurations that check them and
the proofs TLAPS checks.

## The system

| Part (source) | State | Operations | Talks to |
|---|---|---|---|
| Shared queue (`SharedStructures/SharedQueue.h`) | a deque, `stop_`, two condition variables, counters | push, pop, pop_for, try_pop, drain, stop | every pair of threads below |
| Camera (`DataConcrete_new.h`, `CameraModule`) | V4L2 buffers, frame counter, wake-up fd | capture thread, start and stop of streaming | pushes into `camera2AlgQueue_` and the original-frame queue; opens a row in the aggregator |
| Algorithm worker (`AlgorithmConcrete_new.h`, `AlgorithmModule`) | `running_`, `starved_`, parameters, the frame in hand | thread loop, start, stop, workload switch | pops camera frames, pushes `alg2DispQueue_`, merges its statistics, stamps `RuntimeControls` |
| Display (`SdlDisplayConcrete_new.h`, `DisplayModule`) | window, last frame of each kind | render loop | pops both display queues, completes the aggregator's row |
| Metrics aggregator (`SystemMetricsAggregatorConcrete_v3_2.h`) | pending rows, batch, history, retention order | begin, merge, finalize, flush thread, snapshot | called by every module; read by the selector and the driver |
| Power and SoC monitors (`LynsynMonitorConcrete_new.h`, `SoCConcrete_new.h`) | device handles, polling threads | start, poll, reset, stop | push samples into the aggregator |
| Selector (`EvolutionarySelector_02.h`) | the transition barrier, learning gates, control loop | start, stop, begin / commit / cancel of a transition, one loop iteration | reads snapshots, drives the genetic algorithm and the scheduler |
| Genetic algorithm, surrogate, weights (`GeneticAlgorithm_05.h`, `SurrogateModel.h`, `AdaptiveWeightManager.h`) | population, archives per workload, epoch | evolve, set workload context | called under the selector's `gaMutex_` |
| Scheduler, thermal governor, frame skipping (`Scheduler.h`, `ThermalGovernor.h`, `FrameSkippingScheduler.h`) | averages, stage, interval | update, choose | called by the selector and by the worker |
| Configuration manager (`ConfigManager.h`) | the modules in order | startAll, stopAll, switchAlgorithmWorkload | owns every module |
| Thread manager (`ThreadManager.h`) | threads by component, a task pool | add, join, shut down | used by every module |
| Mission (`WorkloadMission.h`) and driver (`SampleTestIntegrationCode_v34.cpp`) | phases, current index, evidence rows | parse, due transition, confirm | drives everything |

Hard parts: nothing but atomics relates the processed epoch to the processed
frame; the barrier of a transition is tested outside the mutex that protects
what it guards; the queues notify after unlocking; a row of the old algorithm
may be finalized after the switch; the join of an old worker depends on
threads that nobody stops; a switch may fail at every step and must undo what
it did.

What makes each part correct:

* queue: a bounded FIFO, no lost wake-up, `stop` releases everybody, `pop_for`
  always returns;
* transition: the learner learns only from frames of the workload and epoch it
  believes in, never twice from one frame, and not at all inside the barrier;
  the controller's label follows the worker's, however a transition ends; the
  join and the transition end;
* aggregator: a row is delivered once, complete, and not lost at shutdown;
* lifecycle: no thread outlives the object it works on, wherever `startAll`
  failed; the selector steers a whole pipeline; `stopAll` returns;
* camera: a buffer is given back to the driver once and only when nobody reads
  it; capture goes on as soon as a consumer lets go;
* actuation: what the scheduler remembers is what the hardware holds, heat wins
  over the genome, a response is measured from its own action;
* power monitor: `stop` touches the probe alone, closes it if it was sampled, and
  returns; a probe that fails for good ends the thread.

## Modules and how they map to the code

`PROJECT.json` gives the source lines of each definition.

### `BoundedFifo` and `SharedQueue`

`SharedQueue` has one action per critical section of `mutex_` and one per
notification, since the code notifies after it unlocks. A sleeping thread is a
member of `waitNotFull` or `waitNotEmpty`. Spurious wake-ups are allowed.
`pop_for` has an absolute deadline, which may pass at any moment; the predicate
is evaluated once more after it, as `wait_for` with a predicate does. The
counters for pushes, pops and peak size are left out; `rejectedPushes` stays,
because it is written on the refusal path only. `BoundedFifo` is what callers
may rely on; `RefinesFifo` maps the one to the other (`held` is `item`).

### `ContinualLearning` and `WorkloadTransition`

`WorkloadTransition` is the running pipeline during a mission. Six threads, one
action per critical section or access to a shared atomic:

* **camera** (`CameraFrame`): numbers frames and drops one when the queue is
  long, before it pushes, so that it never blocks;
* **worker** (`Worker*`): `pop_for`, the test of `running_`, the real-time
  drain, the kernels, then three separate accesses to `RuntimeControls`: read
  the active epoch, store the frame, store the epoch; then the push into
  `alg2Disp`, which can block. `processedBy[f]` is a history variable: by which
  workload, in which epoch, frame `f` was really processed;
* **display and aggregator** (`Display*`, `Flush*`): the display takes the
  newest output, its merge completes that frame's row, rows go to the batch and
  from there, in two critical sections, to the history. Whether the algorithm's
  half of the row is still there when the display merges (rows are pruned by
  age) is a free choice, `rowPending`. Until there is a processed frame the
  display merges for original ones, which completes a row only if the worker
  has merged that frame already (`DisplayMergesOriginal`, enabled by
  `"originalMerged"` in `Faults`, since it multiplies the states by four). Only
  the newest row of the batch and of the history is kept: that is all
  `getLatestSnapshot` reads;
* **control loop** (`Loop*`): the barrier is tested, a snapshot is read, then
  `gaMutex_` is taken (`cpc = "gate"` while it is held), the barrier is tested
  again and the gates decide. A snapshot the loop finds useless for another
  reason (no power reading yet) is the loop staying idle;
* **driver** (the rest): warm-up, due transition, `beginWorkloadTransition`,
  `switchWorkload` down to `switchWorkloadImpl_`, commit or rollback and
  cancel, and the evidence loop. Waiting for time is a free choice.

Failures are enabled by the constant `Faults`: the replacement cannot be
configured, cannot be started, the old worker cannot be restarted, the commit
throws out of `setWorkloadContext` (before or after the label was assigned),
the window is closed. `stopAll` after the mission is outside the module, so
`done` and `failed` are where it ends.

`ContinualLearning` is the promise: a learner that is never restarted and in
each context learns from that context's frames only, each at most once and in
order. `RefinesLearner` maps the program to it.

### `RowLedger` and `MetricsAggregator`

`MetricsAggregator` looks inside the box that `WorkloadTransition` draws around
the aggregator: the rows themselves, `pending`, `hasAlg`, `frameStarted` and
`arrivalOrder`, the batch, the file and the history, as frame numbers. One
action is one critical section:

* `BeginFrame` is the camera's `beginFrame` with the eviction of
  `enforceRetentionPolicy` in it;
* `MergeAlgorithm` includes `tryFinalizeFrame`, which, as every row is expected
  to have a display half, only ever drops a row, and only when the thread is
  delayed by `mergeWaitMs_` in it;
* `DisplayRenders`, `DisplayMerges`, `DisplayBatches`: a tick presents a frame,
  merges it (the wait for `beginFrame` ends at any time), walks the pending
  rows for the overlays (`dpc = "overlay"`, no lock), and batches the row;
* `FlushWakes`, `Prune`, `FlushExits` are the flush thread. `Prune` takes any
  set of rows that may be old enough: a row ages from its `beginFrame` or again
  from its `mergeAlgorithm`;
* `TakeBatch`, `WriteBatch`, `CommitBatch` are the three phases of
  `flushBatchBuffer`, for the flush thread and for the main thread;
* the rest is the main thread in `stopAll` and `flushMetrics`, as far as it
  touches the aggregator. That `alg2Disp` may fill after the display was joined
  is left to the lifecycle module: `WorkerPushes` never blocks here.

`RowLedger` is the promise: a row is opened once and is dropped or completed; a
complete row is never dropped and is written once. `RefinesLedger` maps a frame
to its entry by counting its copies in the batch, in the two threads' hands and
in the file. The export at the end is left out: `exportToCSV` opens a stream
that is already open, which sets its failbit, so it writes nothing.

### `LynsynMonitor`

The power monitor: the module's thread through `initialize` (with its
attempts), `startMonitoring` and the two critical sections of `stop`, and the
sampling thread through its rounds (`Wake`, `Reads`, `Drains` or `NoSample`), the
reset after every third failing one and giving up after the tenth.
`lifecycleMutex_` is held over several steps by `stop` while it joins
(`HeldByModule`) and by the thread while it reopens the probe (`HeldByThread`).

An attempt of `initialize` has three steps that can fail: opening the probe,
which may leave the handle open; greeting it; and the average sample, after
which the probe is open and `initialized_` set. A failed last attempt clears
`initialized_` whatever is open. The monitor is then destroyed, and `stop`, which
its destructor calls, releases nothing.

No transfer of the library has a time-out, so a step that stands for one of its
calls is enabled only when the call returns (`Answers`, `Delivers`, `ReadFails`),
and the probe changes as it likes (`ProbeChanges`): it delivers; it answers, but
reads fail; it is unplugged: reads fail at once, opening fails, and sending
(`sendBytes`) is tried for ever; or it is silent and every call waits. The build
links a `liblynsyn` it finds (`CMakeLists.txt:70`) that has
`lynsyn_reset_device`; `src/Stage_01/Includes/lynsyn.c` is another version, without
that function, and the calls are modelled after it. Two things are taken from
the callers instead: `lynsyn_getAvgSample` may return FALSE, as `initialize`
expects (in that copy it cannot), and `lynsyn_release` may be called twice in a
row, as the resets do (in that copy it frees its buffers twice). A read on a
handle that is not ready is taken to fail. Decimation, energy and the CSV file
are left out.

### `CaptureBuffers` and `PipelineLifecycle`

`CaptureBuffers` is the camera and what it hands out. Each V4L2 buffer is
queued with the driver, in use, lost (its `VIDIOC_QBUF` failed) or unmapped.
With a USB camera a frame is the buffer itself; `Recycle` is its deleter, which
belongs to every step that may drop the last reference, in whatever thread. The
capture thread wakes by the event fd, a timeout or an error, dequeues, offers
the frame to two queues that it never lets block it, and drops what has no data.

`PipelineLifecycle` runs those buffers inside the program: the main thread
starts the modules one by one (each but the selector may throw), stops them in
the order of `stopAll`, destroys each object after its join, and at last joins
what the `ThreadManager` still has. A failed start is followed in the mission
program by `stopAll` and in the benchmark by the unwinding of the locals,
whose destructors stop some threads and not others (`AsksToStop`). The render
loop, the worker's loop with its blocking push, the SoC monitor's blocking
read, and the selector with its wait, its warm-up and the flag it sets again
are the threads; they take and drop references through `CaptureBuffers`.

### `Scheduler` and `Actuation`

`Scheduler` is `Scheduler::apply` with its three policies and the thermal
governor in front: what a policy asks for (`Asked`), which settings it writes
because they differ from a cached value (`Wrote`), what the caches remember and
what the file system is left with. Clocks are kHz, as in the code. CPU and GPU
temperature are one value; floors, governors and affinity are left out. The
hardware starts in one state that no cache claims, since the caches start empty
and the first apply writes everything whatever it finds. `restored` is a
history variable: the settings at what the last `reset()` wrote.

`Actuation` puts it between its two threads. The control thread's `Decide` and
`Apply` are the start and the end of one apply; between them only the split of
the work is published. `Publish` stores the end of the apply and then, as a
second step, releases its number. The worker looks at the number with every
frame, reads the clock, reports a response, takes the other controls over with
every `AdaptEvery`-th frame, and gives the GPU up when a kernel fails. `Recover`
is the emergency recovery, the only caller of `reset()`.

Definitions marked "seeded" are the code with one plausible mistake. No action
uses them; they are kept so that each property can be seen to fail when the
code around it is wrong.

## What is checked

| Run | Question | Instance |
|---|---|---|
| `queue` | Is a wake-up lost? Is it a FIFO? Does `stop` release everybody, does `pop_for` return? | 3 threads in every mixture of calls, capacity 2 |
| `transition_safety` | Are stamps, proof, label and learning right? Does the barrier hold? | 2 phases, 3 frames; failures of configuration, start and restart, original frames merged early, a closed window |
| `transition_refines` | Does the program implement the continual learner? | 3 phases, the first workload recurs, 4 frames |
| `transition_live` | Does the join return, does every transition end, is the output clean? | 3 phases of which two carry the same label, 3 frames, start and commit failures |
| `display_closed` | as above with the window closed | violated, see findings |
| `aggregator_rows` | Is a complete row written once and never lost, through the shutdown? Is eviction safe? | 3 frames, 2 pending rows, history of 2 |
| `aggregator_walk` | Is `pending_` left alone while the overlays are attached? | violated, see findings |
| `lifecycle` | Does a thread outlive its object, is a buffer overwritten, does capture starve, does `stopAll` return? | 2 buffers, both camera back ends, both programs, a failure at every module |
| `camera_unmapped` | Do frames keep the memory they point to? | violated, see findings |
| `actuation` | Do caches, heat, ceilings and responses agree with the hardware and the worker? | 3 actions, a genome of each mode, 4 temperatures |
| `monitor_safe` | Does `stop` close a probe that was sampled, and only when nobody uses it? Does a probe that fails end the thread? Does `stop` return while samples pour in? | the code's own limits: 6 attempts, 10 failures, a reset every 3 |
| `monitor_stop` | Does `stop` return if the probe works in the end? | violated, see findings |

**Bounds.** Three threads on a queue of two let two producers sleep and a
consumer or a stopper wake one of them, or the reverse; payloads are not told
apart by any guard, so one is enough for the wake-ups, and the FIFO order of
different ones is the theorem `ImplementsFifo`. In the transition runs
three or four frames are enough for a frame of the old worker in each stage of
the pipeline (in the worker's hands, in the output queue, in the batch, in a
flush) and one of the replacement behind it; frame 0 is there because its
number also means "no frame". `InLimit` 2 makes the real-time drain happen and
the camera drop; `OutCap` 1 makes the worker block in its push. `MaxFrame` and
`MaxRejected` are the only bounds on counters there: epochs and generations are
bounded by the phases and the frames.

In the aggregator three frames with two pending rows are the fewest with an
eviction and something newer to keep; rows of one batch can then be in the file,
in a flusher's hands and in the batch at once, and a history of two overflows.
Two V4L2 buffers are what the camera insists on (it refuses fewer), and the
fewest make the driver starve soonest. A cache that claims what the hardware does
not have needs three applies (one that fills it, one that leaves it alone, one
that is spared by it), hence `MaxActions` 3; `AdaptEvery` is 2 instead of ten,
and the theorem about it holds for every value. The monitor needs no bound.

**Fairness.** Queue: a thread inside a call is scheduled, and the deadline of
`pop_for` passes. Transition: the worker, the display, the control loop and the
driver are scheduled (each is a thread in a loop without priorities);
`gaMutex_` is held for one step, so that weak fairness suffices for those who
wait for it. The camera owes no frame and the user need not close the window.
`WorkerStarves` is only a flag and owes nothing. Aggregator: the display, the
flush thread and the main thread once it shuts down are scheduled; camera and
worker owe nothing. Lifecycle: every thread is scheduled and `tegrastats` goes
on printing lines, which the SoC monitor's blocking read needs; the program may
run for ever and nobody has to close the window. Monitor: both threads are
scheduled, and neither the probe nor the caller of `stop` owes anything; a call that
waits for a silent probe is not enabled, so that fairness does not end it. That a
round ends although samples keep coming is the drain cap of 20000 (`Drains`).
Actuation claims no liveness.

**Deadlock** is checked except where the system may really come to rest:
`lifecycle` and `camera_unmapped`, where the program ends or its worker is stuck
behind a display that is gone, and `transition_safety` and `display_closed`,
where the window may be closed. In the monitor the probe can always change, so
that its deadlock shows as a violated liveness property instead.

## What is proved

TLAPS checks, for every value of the constants:

**Shared queue** (`SharedQueueProofs`). `TypeCorrect`: the type invariant is
inductive as it stands. `ImplementsFifo`: every step of the locked, notifying
queue is a step of `BoundedFifo` or none; it rests on the type invariant only,
as the wait sets do not appear in the abstract queue. `ProducersAreWoken` and
`ConsumersAreWoken`: the lost-wake-up invariants. They are not inductive, since
they only say that somebody is awake. The invariant behind them counts: while a
producer sleeps, there are at most as many free places as threads that will
still see to one, by notifying or by pushing (`PlacesSeenTo`; `ItemsSeenTo` for
consumers). Each step changes both sides of the count by what it takes or gives.

**Transition** (`WorkloadTransitionProofs`). `TypeCorrect`, and `BarrierHolds`:
no generation is evolved inside the barrier. The property does not say why the
loop cannot be inside its critical section when the driver enters the barrier.
`BarrierInv` adds that the flag is up in every state of the barrier and of the
state before it, that in those states the loop is not past its second look at
the flag (it gives `gaMutex_` up before the driver can get it), and that
`generation` is 0 in the warm-up.

**Learning** (`WorkloadLearningProofs`). `ControllerFollows`, `StampIsTrue`,
`ProofIsNew`, `OneWorkloadShown`, `LearnsOwn` and `ImplementsLearner`: the
remaining safety properties of the transition, and the refinement of
`ContinualLearning`. The gates compare frame numbers and epochs, and none of
their variables says by whom a frame was processed; the invariant says why the
comparison is enough. Its first part, `MissionInv`, holds with every fault:

- `FrameOrder`: frame numbers grow along the pipeline, so that a frame is
  processed once and never after a newer one.
- `Replaced`: between the join and the start there is no worker, and no trace of
  one when the new one starts.
- `Handed`, `Outputs`, `Rows`: whatever was stamped or pushed was made by the worker
  in the slot, and whatever the display and the aggregator hold was processed.
- `RollsBack`: a rollback ends the mission and leaves no evidence.

The second, `Agreement`, holds while the mission is `Undisturbed`: `setWorkloadContext`
never throws, or nothing had to be rolled back so far.

- `Slots`: what label and epochs are at each step of the driver.
- `Stamps`: the atomics name a frame of the worker in the slot, in the active epoch.
- `Eras`: epochs do not decrease with frame numbers, and none is past the epoch of
  the genetic algorithm, except while a commit is due.
- `Evidence`: the latched proof is of the genetic algorithm's context.

`OneWorkloadShown` needs the first part only. `ProofIsNew` needs no condition
either, since a disturbed mission has no proof. The third part is `Learned`: the
floor, or without a boundary the last learned frame, is a frame of the current
epoch. With `Eras` every newer row is one too (`OwnFrom`), and that is what passes
the gates. It does not survive a cancel after a commit, which takes the boundary
of that commit away and leaves the last learned frame in an older epoch. A cancel
fails the mission, so `LearnsOwn` and `ImplementsLearner` ask for an `Intact`
one: undisturbed, and not failed unless it is `Forgetless`, that is has two phases or
no switch that can fail (no `configure`, no `start`, no label that follows
itself). Both properties are about steps: what the theorems say of a mission that
fails later holds of it until then. `AlwaysLearnsOwn` and
`AlwaysImplementsLearner` are the cases in which every state is intact, teardown
included. Under "Findings" is what happens otherwise.

**Lifecycle** (`PipelineLifecycleProofs`). `TypeCorrect`, `BuffersAreSafe` (no
buffer the driver may fill is referred to), `NoThreadOutlivesItsObject`,
`SelectorHasPipeline`. `LifecycleInv` says for each phase of the main thread
what it has handled: while starting, what is still to do does not exist and the
rest does; while stopping, what was handled has ended; the display and the
selector are the exception while unwinding. The thread steps are all reduced to
`ThreadFacts`: they leave the main thread alone and revive no thread. For the
buffers, what is needed besides the property is that the capture thread holds a
frame between its two pushes, and that a step that drops references adds none.

**Actuation** (`ActuationProofs`). All six invariants of the run. `IInv` is
`Typed /\ Ordered /\ Lagging /\ Cached /\ Cool`: the numbers of actions grow in
the order in which they are stored; the frames processed on a revoked GPU are
bounded by the adaptation counter; each cache holds what the hardware has,
except where `reset()` wrote; and what a policy asks for is within the limits
that heat and the genome set (`AskedIsSound`, with the arithmetic of the
throttling in lemmas of its own).

**Power monitor** (`LynsynMonitorProofs`). `TypeCorrect`, `StopIsAlone` and
`StopIsSafe`: for any limits, and whatever the probe does, `stop` works on it alone
and closes it if the monitor was started. `MonitorInv` adds what the code relies
on without saying so: a live thread has `running_` set, and from the start of
the thread to the release `initialized_` stays set, whether or not the last reset
left a handle open. Before that it need not: hence the condition on the theorem.

**Metrics aggregator** (`MetricsAggregatorProofs`). `HistoryIsTail` and
`NoRowLeft`. A flush takes the batch out of the buffer in one critical
section, writes it without a lock and commits it to the history in another, so
neither property is inductive: between the steps the rows are in nobody's
buffer. `StoreInv` follows them: a flusher that neither writes nor commits has
empty hands (`HandsEmpty`), the committed rows are the file minus what is in
hand for a commit (`Committed`), the history is the newest of those
(`Counted`, `Following`), and nothing fills the buffer once the display is gone
(`Phases`). `AsideFacts` reduces the threads that only build rows to one lemma.

**Rows of the aggregator** (`MetricsRowsProofs`). `TypeOK`,
`PendingHasArrival`, the action property `EvictsOldest` and the refinement
`RefinesLedger`, for any number of frames and any limits. What makes
`PendingHasArrival` inductive (`RowsInv`) is that only opened frames are pending
(`Rows`) and that the list of arrivals is increasing, holds every pending row
and none that is still to come (`Arrivals`); `Positions` types the control
points. Because the list is increasing, popping it meets the oldest
pending row first and never the row that is being opened (`PopsFacts`), and the
number of pops is the least that is enough, which exists since popping the whole
list leaves no row (`LeastElement`, `BeginFacts`). `WithoutFacts` says what the render
loop takes out of the list.

The ledger sees a row's fate, which the model computes from four places at once.
`Single` counts the copies of a row in the batch, in the display's hands, in
the hands of the flushers and in the file: at most one, and none while the row
is pending or not yet opened. Every action moves a copy from one place to the next
(`OpensRow`, `DropsRows`, `CompletesRow`, `BatchesRow`, `TakesRows`,
`WritesRows`), which is a step of `RowLedger` or a stutter (`NextStep`).

The only assumptions are those the modules state (`QueueAssumption`,
`MissionAssumption`, `CaptureAssumption`, `LifecycleAssumption`,
`SchedulerAssumption`, `ActuationAssumption`, `MonitorAssumption`,
`AggregatorAssumption`: limits are
positive, the mission is a non-empty sequence of workloads, genomes and
temperatures are numbers), and for two pairs of theorems
the conditions in their statements: `Undisturbed` for `ControllerFollows` and
`StampIsTrue`, `Intact` for `LearnsOwn` and `ImplementsLearner` in
`WorkloadLearningProofs`. Without them TLC finds the counterexamples
described under "Findings". They are true in all states of the runs of these properties.

Only model-checked: liveness, which is beyond this prover (`StopReleasesCallers`,
`PopForReturns`, `JoinReturns`, `TransitionEnds`, `CompleteRowsAreWritten`,
`StarvationEnds`, `StopAllReturns`, `FailingProbeEndsThread`,
`StopReturnsWhileSampling`). Every invariant, action property and refinement
that a passing run checks is also a theorem.

## Findings

* **A switch can wait for ever once the window is closed** (`display_closed`).
  The comments at `Module/Modules.h:583` and `AlgorithmConcrete_new.h:301` say
  the bounded `pop_for` lets the worker see `running_ = false` within one poll
  period. The worker also blocks in the push into `alg2Disp`
  (`AlgorithmConcrete_new.h:1051`), which nothing interrupts when the display
  no longer pops: the join of the switch does not return.
* **`pending_` is walked without its mutex** (`aggregator_walk`). `mergeDisplay`
  calls `finalizeFrame` after it released `mutex_`; `applyOverlaysForRow`, whose
  comment at line 1759 says "PRECONDITION: caller holds mutex_.", then iterates
  over `pending_` while camera, worker and flush thread change it.
* **The camera unmaps frames the worker still uses** (`camera_unmapped`).
  `stopAll` stops the display and then the other modules in reverse order of
  creation, so the camera is destroyed before the worker is told to stop. With a
  USB camera the worker's frame is the mapped buffer.
* **Stopping the power monitor during a reset deadlocks** (`monitor_stop`).
  `stop` joins the sampling thread with `lifecycleMutex_` held
  (`LynsynMonitorConcrete_new.h:143`); the thread needs that mutex to reset and
  reopen the probe (lines 185 and 381). That the probe works again does not help.

The modules also show the following, for which there is no run of its own. The
properties say by an explicit condition where they stop.

* `setWorkloadContext` assigns the workload's name before the operations that
  can throw (`GeneticAlgorithm_05.h:456`); the rollback at `ConfigManager.h:535`
  restores the worker only. With `"commit"` in `Faults`,
  `ControllerFollowsWorker` fails; hence `Undisturbed` in the theorems above.
* A mission may name a label twice in a row. The second switch is cancelled,
  and `cancelWorkloadTransition` clears the frame boundary of the switch before
  it (`EvolutionarySelector_02.h:501`). If no generation of the current epoch
  was evolved by then, as in a mission `a, b, b`, a late frame of `a` is no
  longer told from those of `b` by its number.
* `reset()` (`Scheduler.h:246`, "Reset last cached states") writes full settings
  and leaves three of the caches as they were: an action equal to the last one
  then writes nothing. `restored` exempts these settings from `RunsWhatItSays`
  and `CeilingsHold`.
* MAX_PERFORMANCE makes the floor of a clock equal to its ceiling, and the caches
  remember the ceiling only (`Scheduler.h:428`, 484): a later action with the
  same ceiling leaves the floor. Floors are not modelled.
* The thermal shutdown forces the low-power mode for one tick
  (`Scheduler.h:269`): the next tick applies the evolved mode again, at a higher
  temperature. `allow_inference` and `frame_skip_ratio` have no reader.
* A GPU transition within 200 ms of the last is dropped; the one that makes up
  for it later writes the full clock over the throttled one, in a profile whose
  `warning` is above 75 degrees. `HotGpuIsOff` is stated above `warning` only.
* The GA credits a snapshot to the genome applied last
  (`GeneticAlgorithm_05.h:1029`); `notifyExternalOverride`, which should tell it
  of a genome the governor changed, has no caller. A response time
  (`GeneticAlgorithm_05.h:2369`) is that of the action's number, while the
  worker follows `enable_gpu` up to ten frames later (`AlgorithmConcrete_new.h:495`).
* `initialize` that fails with the probe open, because the average sample of the
  last attempt failed or the interface could not be claimed, clears
  `initialized_` (`LynsynMonitorConcrete_new.h:99`), and `stop` then does not release
  the probe (line 157), although `ILynsynMonitor.h:44` says it does.
  `StartedIsClosed` is about monitors that were started.
* A probe that is plugged in and silent keeps the sampling thread in
  `lynsyn_getNextSample` (`LynsynMonitorConcrete_new.h:241`): no failure is counted,
  no reset is tried, and `stop` waits in its join for ever. One that is unplugged while the
  thread sends to it keeps it in `sendBytes` (`lynsyn.c:286`). In `initialize` either
  holds up the start of the whole pipeline. `Failing` and the conditions of the
  two liveness properties exclude these.
* In the benchmark an exception in `startAll` unwinds the locals while the
  render thread runs; `ThreadHasObject` leaves that unwinding out.
* With a USB camera and a closed window the original frames stay in their queue
  for good, and with few buffers capture starves: `StarvationEnds` requires the
  window to be open.

## Not modelled

| Part | Why |
|---|---|
| Kernels, fitness, selection, surrogate regression, adaptive weights | floating point; no concurrency or protocol of their own: they run inside one `evolve` under `gaMutex_` |
| `json.hpp`, `metrics_analyzer.py`, v33 harness, and the older copies of the code that several headers keep as comments (the larger part of their lines) | vendored, offline, the previous program, or not compiled |
| `FrameSkippingScheduler`, `LatencyHistogram`, `AdaptivePopulationManager`, `Scheduler::recoverFast`, `applyBestParetoToRuntime`, pause, resume and `resetDevice` of the camera, the pool of `ThreadManager` | no caller in this repository |
| SoC and power samples in the aggregator, their integration over a window | numeric |
| Configuration and mission parsing, CSV and JSON reports | input and output of one thread |
| Floors of the clocks, governors, CPU affinity, platform profile | written with every mode, and read by nothing in the program |

Much of the repository's line count is in that table: the vendored JSON library
alone is a quarter of it, and the genetic algorithm's header is mostly
numeric code and disabled copies. What remains of control, locking and protocol
is in the modules above. Next would be: the composition of `Actuation` with a
switch of the workload (a replaced worker restarts its adaptation counter) and a
clock floor in `Scheduler`.
