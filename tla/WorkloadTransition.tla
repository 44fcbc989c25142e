------------------------- MODULE WorkloadTransition -------------------------
(***************************************************************************)
(* The continuous dynamic-adaptation mission: one running pipeline whose   *)
(* algorithm worker is replaced at every phase boundary while one genetic  *)
(* algorithm goes on learning from the finalized frames.                   *)
(*                                                                         *)
(* Threads: the camera's capture thread, the algorithm worker, the display *)
(* thread, the aggregator's flush thread, the selector's control loop, and *)
(* the mission driver, which runs ConfigManager::switchAlgorithmWorkload.  *)
(* They share the two frame queues, the aggregator's snapshots, the        *)
(* atomics of RuntimeControls and the selector's transition barrier.  One  *)
(* action is one critical section or one access to a shared atomic.        *)
(***************************************************************************)
EXTENDS Integers, Sequences, FiniteSets

CONSTANTS
  Workloads,     \* algorithm labels
  Mission,       \* the phases of the mission, a sequence of workloads
  MaxFrame,      \* bound: the last frame the camera delivers
  InLimit,       \* queue length at which the camera drops a frame
  OutCap,        \* capacity of alg2Disp
  Faults         \* which failures and rare orders this instance allows

FaultKinds == {"configure", "start", "restart", "commit", "displayClosed",
               "originalMerged"}

ASSUME MissionAssumption ==
  /\ Mission \in Seq(Workloads) /\ Len(Mission) > 0
  /\ MaxFrame \in Nat /\ InLimit \in Nat \ {0} /\ OutCap \in Nat \ {0}
  /\ Faults \subseteq FaultKinds

Frames == 0 .. MaxFrame
None   == -1                      \* no frame

VARIABLES
  nextFrame,            \* camera: frameCounter_
  cam2Alg, alg2Disp,    \* the shared queues, as sequences of frame ids
  processedBy,          \* workload and active epoch that processed a frame, as a set
  displayOpen,          \* the render loop runs
  shown, rowPending,    \* lastProcessed_, and whether its aggregator row waits
  batch, flushing, history \* newest snapshot in batchBuffer_, in a flush, in history_

pipeline == <<nextFrame, cam2Alg, alg2Disp, processedBy, displayOpen, shown,
              rowPending, batch, flushing, history>>

VARIABLES
  workload,             \* algorithm of AlgorithmModule::algo_
  running, starved,     \* the worker's running_ and starved_
  wpc, wframe, wepoch   \* its position, input frame, and active epoch read

worker == <<workload, running, starved, wpc, wframe, wepoch>>

VARIABLES requestedEpoch, activeEpoch, processedEpoch, processedFrame
controls == <<requestedEpoch, activeEpoch, processedEpoch, processedFrame>>

VARIABLES
  transitionInProgress,
  gaWorkload, gaEpoch, generation,   \* the genetic algorithm's context
  lastEvolved, minPost, floor,       \* lastEvolvedFrameId_, minPostTransitionFrameId_,
                                     \* postTransitionProvenanceFloorFrameId_
  boundary, pendingEpoch             \* transitionBoundaryFrameId_, pendingWorkloadEpoch_

barrier == <<transitionInProgress, boundary, pendingEpoch>>
learner == <<gaWorkload, gaEpoch, generation, lastEvolved, minPost, floor>>

VARIABLES cpc, csnap                 \* the control loop's position and snapshot
loop == <<cpc, csnap>>

VARIABLES
  dpc, phase,           \* the driver's position, and currentIdx_ counted from 1
  target, previous,     \* label being switched to, and previousAlgorithm
  rollingBack,          \* the switch in progress undoes a failed commit
  previousActive,       \* previousActiveEpoch
  frameBefore, genBefore, proven  \* evidence row of the transition

evidence == <<frameBefore, genBefore, proven>>
switch == <<target, previous, rollingBack, previousActive>>
driver == <<dpc, phase, switch, evidence>>
vars == <<pipeline, worker, controls, barrier, learner, loop, driver>>

Larger(a, b) == IF a > b THEN a ELSE b
Newest(s) == s[Len(s)]

\* Definitions marked "seeded" are the code with one mistake: no action uses
\* them, a run with one in place of its neighbour must violate a property.

\* getLatestSnapshot: the batch's last row, else the history's last row.
LatestSnapshot == IF batch # None THEN batch ELSE history
RawFrameId     == LatestSnapshot        \* seeded: no default without a snapshot
LatestFrameId  == Larger(LatestSnapshot, 0)

WorkerSteps == {"pop", "check", "drain", "process", "stampFrame", "stampEpoch",
                "push", "exited"}
LoopSteps   == {"idle", "read", "lock", "gate"}
DriverSteps == {"warmup", "mission", "due", "begin", "swap", "join", "activate",
                "start", "commit", "prove", "cancel", "done", "failed"}

TypeOK ==
  /\ nextFrame \in 0 .. MaxFrame + 1
  /\ cam2Alg \in Seq(Frames) /\ alg2Disp \in Seq(Frames)
  /\ processedBy \in [Frames -> SUBSET (Workloads \X Nat)]
  /\ displayOpen \in BOOLEAN /\ rowPending \in BOOLEAN
  /\ {shown, batch, flushing, history, wframe} \subseteq Frames \cup {None}
  /\ workload \in Workloads /\ running \in BOOLEAN /\ starved \in BOOLEAN
  /\ wpc \in WorkerSteps /\ wepoch \in Nat
  /\ wpc \notin {"pop", "exited"} => wframe \in Frames
  /\ requestedEpoch \in Nat /\ activeEpoch \in Nat
  /\ processedEpoch \in Nat /\ processedFrame \in Nat
  /\ transitionInProgress \in BOOLEAN
  /\ gaWorkload \in Workloads /\ gaEpoch \in Nat /\ generation \in Nat
  /\ lastEvolved \in Nat /\ minPost \in Nat /\ floor \in Nat
  /\ boundary \in Nat /\ pendingEpoch \in Nat
  /\ cpc \in LoopSteps /\ csnap \in Nat
  /\ dpc \in DriverSteps /\ phase \in 1 .. Len(Mission)
  /\ dpc \notin {"warmup", "mission", "done", "failed"} => phase < Len(Mission)
  /\ target \in Workloads /\ previous \in Workloads
  /\ rollingBack \in BOOLEAN /\ previousActive \in Nat
  /\ frameBefore \in Nat /\ genBefore \in Nat /\ proven \in Nat

\* startAll has run, with pauseEvolutionForMissionWarmup before it.
Init ==
  /\ nextFrame = 0 /\ cam2Alg = <<>> /\ alg2Disp = <<>>
  /\ processedBy = [f \in Frames |-> {}]
  /\ displayOpen = TRUE /\ shown = None /\ rowPending = FALSE
  /\ batch = None /\ flushing = None /\ history = None
  /\ workload = Mission[1] /\ running = TRUE /\ starved = FALSE
  /\ wpc = "pop" /\ wframe = None /\ wepoch = 0
  /\ requestedEpoch = 0 /\ activeEpoch = 0
  /\ processedEpoch = 0 /\ processedFrame = 0
  /\ transitionInProgress = TRUE
  /\ gaWorkload = Mission[1] /\ gaEpoch = 0 /\ generation = 0
  /\ lastEvolved = 0 /\ minPost = 0 /\ floor = 0
  /\ boundary = 0 /\ pendingEpoch = 0
  /\ cpc = "idle" /\ csnap = 0
  /\ dpc = "warmup" /\ phase = 1
  /\ target = Mission[1] /\ previous = Mission[1]
  /\ rollingBack = FALSE /\ previousActive = 0
  /\ frameBefore = 0 /\ genBefore = 0 /\ proven = 0

(***************************************************************************)
(* Camera: deliver the next frame, dropped when the queue is long.         *)
(***************************************************************************)
CameraFrame ==
  /\ nextFrame <= MaxFrame
  /\ nextFrame' = nextFrame + 1
  /\ cam2Alg' = IF Len(cam2Alg) < InLimit THEN Append(cam2Alg, nextFrame) ELSE cam2Alg
  /\ UNCHANGED <<alg2Disp, processedBy, displayOpen, shown, rowPending, batch,
                 flushing, history, worker, controls, barrier, learner, loop, driver>>

(***************************************************************************)
(* Algorithm worker: threadLoopZeroCopy and processFrameZeroCopy.          *)
(***************************************************************************)
WorkerElsewhere == <<nextFrame, displayOpen, shown, rowPending, batch, flushing,
                     history, workload, running, barrier, learner, loop, driver>>

\* seeded: a blocking pop, which looks at running_ only with a frame in hand
WorkerExitsAfterPop ==
  /\ wpc = "check" /\ ~running
  /\ wpc' = "exited"
  /\ UNCHANGED <<WorkerElsewhere, cam2Alg, alg2Disp, processedBy, starved, wframe,
                 wepoch, controls>>

\* The loop condition, or pop_for expiring after running_ was cleared.
WorkerExits ==
  /\ wpc \in {"pop", "check"} /\ ~running
  /\ wpc' = "exited"
  /\ UNCHANGED <<WorkerElsewhere, cam2Alg, alg2Disp, processedBy, starved, wframe,
                 wepoch, controls>>

\* pop_for expires; five seconds of that mark the input as starved.
WorkerStarves ==
  /\ wpc = "pop" /\ running
  /\ cam2Alg = <<>>
  /\ starved' = TRUE
  /\ UNCHANGED <<WorkerElsewhere, cam2Alg, alg2Disp, processedBy, wpc, wframe,
                 wepoch, controls>>

WorkerPops ==
  /\ wpc = "pop"
  /\ cam2Alg # <<>>
  /\ wframe' = Head(cam2Alg) /\ cam2Alg' = Tail(cam2Alg)
  /\ wpc' = "check"
  /\ UNCHANGED <<WorkerElsewhere, alg2Disp, processedBy, starved, wepoch, controls>>

WorkerContinues ==
  /\ wpc = "check" /\ running
  /\ wpc' = "drain"
  /\ UNCHANGED <<WorkerElsewhere, cam2Alg, alg2Disp, processedBy, starved, wframe,
                 wepoch, controls>>

\* Real-time drain: a newer frame replaces the one in hand.
WorkerSkips ==
  /\ wpc = "drain" /\ running
  /\ cam2Alg # <<>>
  /\ wframe' = Head(cam2Alg) /\ cam2Alg' = Tail(cam2Alg)
  /\ UNCHANGED <<WorkerElsewhere, alg2Disp, processedBy, wpc, starved, wepoch, controls>>

WorkerDrained ==
  /\ wpc = "drain"
  /\ ~running \/ cam2Alg = <<>>
  /\ starved' = FALSE
  /\ wpc' = "process"
  /\ UNCHANGED <<WorkerElsewhere, cam2Alg, alg2Disp, processedBy, wframe, wepoch, controls>>

\* The kernels run; the epoch the frame will be stamped with is read after.
WorkerProcesses ==
  /\ wpc = "process"
  /\ processedBy' = [processedBy EXCEPT ![wframe] = @ \cup {<<workload, activeEpoch>>}]
  /\ wepoch' = activeEpoch
  /\ wpc' = "stampFrame"
  /\ UNCHANGED <<WorkerElsewhere, cam2Alg, alg2Disp, starved, wframe, controls>>

WorkerStampsFrame ==
  /\ wpc = "stampFrame"
  /\ processedFrame' = wframe
  /\ wpc' = "stampEpoch"
  /\ UNCHANGED <<WorkerElsewhere, cam2Alg, alg2Disp, processedBy, starved, wframe,
                 wepoch, requestedEpoch, activeEpoch, processedEpoch>>

WorkerStampsEpoch ==
  /\ wpc = "stampEpoch"
  /\ processedEpoch' = wepoch
  /\ wpc' = "push"
  /\ UNCHANGED <<WorkerElsewhere, cam2Alg, alg2Disp, processedBy, starved, wframe,
                 wepoch, requestedEpoch, activeEpoch, processedFrame>>

\* mergeAlgorithm, then the push, which blocks while alg2Disp is full.
WorkerPushes ==
  /\ wpc = "push"
  /\ Len(alg2Disp) < OutCap
  /\ alg2Disp' = Append(alg2Disp, wframe)
  /\ wframe' = None
  /\ wpc' = "pop"
  /\ UNCHANGED <<WorkerElsewhere, cam2Alg, processedBy, starved, wepoch, controls>>

WorkerStep ==
  \/ WorkerExits \/ WorkerPops \/ WorkerContinues \/ WorkerSkips \/ WorkerDrained
  \/ WorkerProcesses \/ WorkerStampsFrame \/ WorkerStampsEpoch \/ WorkerPushes

(***************************************************************************)
(* Display and aggregator.  A row may have been pruned before its merge.   *)
(***************************************************************************)
DisplayElsewhere == <<nextFrame, cam2Alg, processedBy, flushing, history, worker,
                      controls, barrier, learner, loop, driver>>

DisplayDrains ==
  /\ displayOpen
  /\ alg2Disp # <<>>
  /\ shown' = Newest(alg2Disp)
  /\ alg2Disp' = <<>>
  /\ rowPending' \in BOOLEAN
  /\ UNCHANGED <<DisplayElsewhere, displayOpen, batch>>

\* mergeDisplay completes the row of the frame shown: finalizeFrame batches it.
DisplayMerges ==
  /\ displayOpen /\ rowPending
  /\ rowPending' = FALSE
  /\ batch' = shown
  /\ UNCHANGED <<DisplayElsewhere, displayOpen, alg2Disp, shown>>

\* Until it has a processed frame the display merges for an original one: that
\* completes a row the worker has merged but whose output is not yet drained.
DisplayMergesOriginal ==
  /\ "originalMerged" \in Faults
  /\ displayOpen /\ shown = None
  /\ batch' \in {alg2Disp[i] : i \in DOMAIN alg2Disp} \cup (IF wpc = "push" THEN {wframe} ELSE {})
  /\ batch' \notin {batch, flushing, history}
  /\ UNCHANGED <<DisplayElsewhere, displayOpen, alg2Disp, shown, rowPending>>

\* The window is closed: the render loop ends, the pipeline runs on.
DisplayCloses ==
  /\ "displayClosed" \in Faults
  /\ displayOpen
  /\ displayOpen' = FALSE
  /\ UNCHANGED <<DisplayElsewhere, alg2Disp, shown, rowPending, batch>>

\* flushBatchBuffer: the batch is taken under one lock and reaches the
\* history under another, so for a while only older rows can be read.
FlushElsewhere == <<nextFrame, cam2Alg, alg2Disp, processedBy, displayOpen, shown,
                    rowPending, worker, controls, barrier, learner, loop, driver>>

FlushTakes ==
  /\ flushing = None /\ batch # None
  /\ flushing' = batch
  /\ batch' = None
  /\ UNCHANGED <<FlushElsewhere, history>>

FlushCommits ==
  /\ flushing # None
  /\ history' = flushing
  /\ flushing' = None
  /\ UNCHANGED <<FlushElsewhere, batch>>

(***************************************************************************)
(* Control loop of EvolutionarySelector.  cpc = "gate" is the part of the  *)
(* loop that holds gaMutex_.                                               *)
(***************************************************************************)
LoopElsewhere == <<pipeline, worker, controls, barrier, gaWorkload, gaEpoch, driver>>

LoopChecksBarrier ==
  /\ cpc = "idle"
  /\ ~transitionInProgress
  /\ cpc' = "read"
  /\ UNCHANGED <<LoopElsewhere, generation, lastEvolved, minPost, floor, csnap>>

LoopReadsSnapshot ==
  /\ cpc = "read"
  /\ IF LatestSnapshot = None
       THEN cpc' = "idle" /\ UNCHANGED csnap
       ELSE cpc' = "lock" /\ csnap' = LatestFrameId
  /\ UNCHANGED <<LoopElsewhere, generation, lastEvolved, minPost, floor>>

Skip ==
  /\ cpc' = "idle" /\ csnap' = 0
  /\ UNCHANGED <<generation, lastEvolved, minPost>>

NoSnapshot == csnap = 0                  \* seeded: a frame may be learned again
Stale == csnap = 0 \/ csnap <= lastEvolved

\* The barrier looked at again, gate 1, and the epoch half of gate 2.
RefusedUnchecked == Stale \/ processedEpoch # gaEpoch   \* seeded: no second look
Refused == transitionInProgress \/ Stale \/ processedEpoch # gaEpoch

LoopLocks ==
  /\ cpc = "lock"
  /\ \/ /\ Refused
        /\ Skip
     \/ /\ ~Refused
        /\ cpc' = "gate"
        /\ UNCHANGED <<generation, lastEvolved, minPost, csnap>>
  /\ UNCHANGED <<LoopElsewhere, floor>>

Proved == processedFrame # 0 /\ processedFrame >= csnap

\* The first frame proved to come from the replacement becomes the floor.
Floor == IF minPost > 0 /\ floor = 0 /\ processedFrame >= minPost
           THEN processedFrame ELSE floor

Acceptable == minPost > 0 => Floor > 0 /\ csnap >= Floor

Evolve ==
  /\ Proved /\ Acceptable
  /\ generation' = generation + 1
  /\ lastEvolved' = csnap
  /\ minPost' = 0
  /\ floor' = IF minPost > 0 THEN 0 ELSE Floor
  /\ cpc' = "idle" /\ csnap' = 0

LoopGates ==
  /\ cpc = "gate"
  /\ \/ Evolve
     \/ /\ Proved /\ ~Acceptable
        /\ floor' = Floor
        /\ Skip
     \/ /\ ~Proved
        /\ Skip
        /\ UNCHANGED floor
  /\ UNCHANGED LoopElsewhere

LoopStep == LoopChecksBarrier \/ LoopReadsSnapshot \/ LoopLocks \/ LoopGates

MutexFree == cpc # "gate"

(***************************************************************************)
(* Mission driver: warm-up, then a transition at every due boundary.       *)
(***************************************************************************)
DriverElsewhere == <<nextFrame, processedBy, displayOpen, shown, rowPending, batch,
                     flushing, history, wframe, wepoch, generation, lastEvolved, loop>>
Queues == <<cam2Alg, alg2Disp>>
Slot   == <<workload, running, starved, wpc>>
Gates  == <<gaWorkload, gaEpoch, minPost, floor>>

Goto(s) == dpc' = s

\* No frame at all after the warm-up: the mission is refused.
WarmupFails ==
  /\ dpc = "warmup"
  /\ LatestFrameId = 0
  /\ Goto("failed")
  /\ UNCHANGED <<DriverElsewhere, Queues, Slot, Gates, controls, barrier, phase,
                 switch, evidence>>

\* resumeEvolutionAfterMissionWarmup, and the check that nothing was learned.
WarmupEnds ==
  /\ dpc = "warmup" /\ MutexFree
  /\ LatestSnapshot # None
  /\ transitionInProgress' = FALSE
  /\ Goto(IF generation = 0 THEN "mission" ELSE "failed")
  /\ UNCHANGED <<DriverElsewhere, Queues, Slot, Gates, controls, boundary,
                 pendingEpoch, phase, switch, evidence>>

\* The mission's time is up, or the starvation check fails the run.
MissionEnds ==
  /\ dpc = "mission"
  /\ Goto("done") \/ (starved /\ Goto("failed"))
  /\ UNCHANGED <<DriverElsewhere, Queues, Slot, Gates, controls, barrier, phase,
                 switch, evidence>>

DueTransition ==
  /\ dpc = "mission" /\ phase < Len(Mission)
  /\ target' = Mission[phase + 1] /\ previous' = workload /\ rollingBack' = FALSE
  /\ frameBefore' = LatestFrameId /\ proven' = 0
  /\ Goto("due")
  /\ UNCHANGED <<DriverElsewhere, Queues, Slot, Gates, controls, barrier, phase,
                 previousActive, genBefore>>

\* seeded: the barrier is never raised
LockOnly ==
  /\ dpc = "due"
  /\ Goto("begin")
  /\ UNCHANGED <<DriverElsewhere, Queues, Slot, Gates, controls, barrier, phase,
                 switch, evidence>>

\* beginWorkloadTransition raises the barrier before it takes gaMutex_.
RaiseBarrier ==
  /\ dpc = "due"
  /\ transitionInProgress' = TRUE
  /\ Goto("begin")
  /\ UNCHANGED <<DriverElsewhere, Queues, Slot, Gates, controls, boundary,
                 pendingEpoch, phase, switch, evidence>>

BeginTransition ==
  /\ dpc = "begin" /\ MutexFree
  /\ boundary' = Larger(LatestFrameId, lastEvolved)
  /\ pendingEpoch' = gaEpoch + 1
  /\ requestedEpoch' = gaEpoch + 1
  /\ genBefore' = generation
  /\ Goto("swap")
  /\ UNCHANGED <<DriverElsewhere, Queues, Slot, Gates, activeEpoch, processedEpoch,
                 processedFrame, transitionInProgress, phase, switch, frameBefore,
                 proven>>

\* What switchWorkload's return value leads to; a rollback ignores it.
SwitchReturns(ok) == Goto(IF ok /\ ~rollingBack THEN "commit" ELSE "cancel")

\* switchWorkloadImpl_ up to stopAlgorithm: an equal label needs no restart,
\* and a replacement that cannot be configured leaves the old worker alone.
SwapWorker ==
  /\ dpc = "swap"
  /\ \/ workload = target /\ SwitchReturns(TRUE) /\ UNCHANGED <<running, previousActive>>
     \/ /\ workload # target /\ "configure" \in Faults
        /\ SwitchReturns(FALSE) /\ UNCHANGED <<running, previousActive>>
     \/ /\ workload # target
        /\ running' = FALSE
        /\ previousActive' = activeEpoch
        /\ Goto("join")
  /\ UNCHANGED <<DriverElsewhere, Queues, workload, starved, wpc, Gates, controls,
                 barrier, phase, target, previous, rollingBack, evidence>>

\* seeded: the old worker is asked to exit but not waited for
JoinSkipped ==
  /\ dpc = "join"
  /\ starved' = FALSE
  /\ Goto("activate")
  /\ UNCHANGED <<DriverElsewhere, Queues, workload, running, wpc, Gates, controls,
                 barrier, phase, switch, evidence>>

JoinWorker ==
  /\ dpc = "join"
  /\ wpc = "exited"
  /\ starved' = FALSE
  /\ Goto("activate")
  /\ UNCHANGED <<DriverElsewhere, Queues, workload, running, wpc, Gates, controls,
                 barrier, phase, switch, evidence>>

DrainInput  == cam2Alg' = <<>> /\ UNCHANGED alg2Disp   \* seeded: output kept
DrainQueues == cam2Alg' = <<>> /\ alg2Disp' = <<>>

\* The replacement has proved no frame yet: the processed epoch stays the old one.
\* EarlyProof is seeded: the new epoch is published at once, with the old frame.
EarlyProof == processedEpoch' = requestedEpoch /\ UNCHANGED processedFrame
NoProofYet == processedEpoch' = previousActive /\ processedFrame' = 0

\* The queues are drained and the old proof is gone before the epoch is active.
ActivateEpoch ==
  /\ dpc = "activate"
  /\ DrainQueues
  /\ NoProofYet
  /\ activeEpoch' = requestedEpoch
  /\ Goto("start")
  /\ UNCHANGED <<DriverElsewhere, Slot, Gates, requestedEpoch, barrier, phase,
                 switch, evidence>>

WorkerRuns == running' = TRUE /\ starved' = FALSE /\ wpc' = "pop"

StartWorker ==
  /\ dpc = "start"
  /\ WorkerRuns
  /\ workload' = target
  /\ SwitchReturns(TRUE)
  /\ UNCHANGED <<DriverElsewhere, Queues, Gates, controls, barrier, phase, switch,
                 evidence>>

\* The replacement's thread cannot be started: back to the old worker, if its
\* restart works.  previousRequestedEpoch was read after begin: no change.
StartFails ==
  /\ dpc = "start" /\ "start" \in Faults
  /\ activeEpoch' = previousActive /\ processedEpoch' = previousActive
  /\ processedFrame' = 0
  /\ WorkerRuns \/ ("restart" \in Faults /\ UNCHANGED <<running, starved, wpc>>)
  /\ SwitchReturns(FALSE)
  /\ UNCHANGED <<DriverElsewhere, Queues, workload, Gates, requestedEpoch, barrier,
                 phase, switch, evidence>>

NoFloor   == 0                           \* seeded: commit sets no boundary
MinFrame  == boundary + 1

CommitTransition ==
  /\ dpc = "commit" /\ MutexFree
  /\ activeEpoch = pendingEpoch
  /\ gaWorkload' = target /\ gaEpoch' = gaEpoch + 1
  /\ minPost' = MinFrame /\ floor' = 0
  /\ transitionInProgress' = FALSE
  /\ Goto("prove")
  /\ UNCHANGED <<DriverElsewhere, Queues, Slot, controls, boundary, pendingEpoch,
                 phase, switch, evidence>>

\* The commit throws, on an epoch mismatch or out of setWorkloadContext, which
\* assigns the name before it can fail: swap back to previousAlgorithm.
CommitThrows ==
  /\ dpc = "commit" /\ MutexFree
  /\ \/ activeEpoch # pendingEpoch /\ UNCHANGED gaWorkload
     \/ activeEpoch = pendingEpoch /\ "commit" \in Faults /\ gaWorkload' \in {gaWorkload, target}
  /\ rollingBack' = TRUE /\ target' = previous
  /\ Goto("swap")
  /\ UNCHANGED <<DriverElsewhere, Queues, Slot, gaEpoch, minPost, floor, controls,
                 barrier, phase, previous, previousActive, evidence>>

CancelTransition ==
  /\ dpc = "cancel" /\ MutexFree
  /\ pendingEpoch' = gaEpoch
  /\ minPost' = 0 /\ floor' = 0
  /\ requestedEpoch' = gaEpoch /\ activeEpoch' = gaEpoch
  /\ processedFrame' = 0 /\ processedEpoch' = gaEpoch
  /\ transitionInProgress' = FALSE
  /\ Goto("failed")
  /\ UNCHANGED <<DriverElsewhere, Queues, Slot, gaWorkload, gaEpoch, boundary, phase,
                 switch, evidence>>

\* The evidence loop after the switch: latch the replacement's first frame.
ReplacementFrame == processedEpoch = gaEpoch /\ processedFrame > frameBefore

ProveFrame ==
  /\ dpc = "prove" /\ proven = 0
  /\ ReplacementFrame
  /\ proven' = processedFrame
  /\ UNCHANGED <<DriverElsewhere, Queues, Slot, Gates, controls, barrier, dpc, phase,
                 switch, frameBefore, genBefore>>

ConfirmAdvanced ==
  /\ dpc = "prove" /\ proven > 0
  /\ LatestFrameId >= proven
  /\ phase' = phase + 1
  /\ Goto("mission")
  /\ UNCHANGED <<DriverElsewhere, Queues, Slot, Gates, controls, barrier, switch,
                 evidence>>

\* seeded: the deadline is looked at only once a frame is proven
RejectedOnceProven ==
  /\ dpc = "prove" /\ proven > 0
  /\ Goto("failed")
  /\ UNCHANGED <<DriverElsewhere, Queues, Slot, Gates, controls, barrier, phase,
                 switch, evidence>>

\* Five seconds without that proof, or an empty surrogate bank on a return to
\* the first workload: the run fails.
TransitionRejected ==
  /\ dpc = "prove"
  /\ Goto("failed")
  /\ UNCHANGED <<DriverElsewhere, Queues, Slot, Gates, controls, barrier, phase,
                 switch, evidence>>

DriverStep ==
  \/ WarmupFails \/ WarmupEnds \/ MissionEnds \/ DueTransition
  \/ RaiseBarrier \/ BeginTransition \/ SwapWorker \/ JoinWorker \/ ActivateEpoch
  \/ StartWorker \/ StartFails \/ CommitTransition \/ CommitThrows
  \/ CancelTransition \/ ProveFrame \/ ConfirmAdvanced \/ TransitionRejected

\* The mission is over and stopAll, outside this module, comes next.
Over == dpc \in {"done", "failed"} /\ UNCHANGED vars

Next ==
  \/ CameraFrame \/ WorkerStep \/ WorkerStarves
  \/ DisplayDrains \/ DisplayMerges \/ DisplayMergesOriginal \/ DisplayCloses
  \/ FlushTakes \/ FlushCommits
  \/ LoopStep \/ DriverStep \/ Over

Spec == Init /\ [][Next]_vars

\* Every thread is scheduled; the camera and the window's user owe nothing.
FairSpec ==
  /\ Spec
  /\ WF_vars(WorkerStep) /\ WF_vars(DisplayDrains) /\ WF_vars(DisplayMerges)
  /\ WF_vars(LoopStep) /\ WF_vars(DriverStep)
-----------------------------------------------------------------------------
(***************************************************************************)
(* Properties.                                                             *)
(***************************************************************************)

\* The genetic algorithm learns only from frames of the workload it believes
\* is running, processed in the current epoch: no late row of a replaced
\* worker is credited to its replacement, not even when the workload recurs
\* (the gates of controlLoop and the boundary of begin and commit).
LearnsFromOwnFrames ==
  [][generation' # generation =>
       processedBy[lastEvolved'] = {<<gaWorkload, gaEpoch>>}]_vars

\* Learning is continual: every step is a step of the abstract learner, which
\* only ever learns from new frames of its current context and which a switch
\* neither restarts nor advances.
Learner == INSTANCE ContinualLearning
  WITH Contexts <- Workloads, context <- gaWorkload, epoch <- gaEpoch,
       lastFrame <- lastEvolved, source <- processedBy
RefinesLearner == Learner!Spec

\* Outside a transition the controller and the algorithm slot agree on the
\* workload, however the last transition ended.
ControllerFollowsWorker == ~transitionInProgress => gaWorkload = workload

InBarrier == dpc \in {"warmup", "swap", "join", "activate", "start", "commit", "cancel"}

\* No generation is evolved during the warm-up, nor between begin and commit or
\* cancel: a transition's generation_before is its generation_after.
BarrierHoldsGeneration == InBarrier => generation = genBefore

\* The processed epoch and frame are one proof: outside a transition, the
\* epoch of the genetic algorithm comes with a frame of its workload, although
\* the two are separate atomics that the worker and the driver both write.
StampNamesWorkload ==
  (~transitionInProgress /\ processedEpoch = gaEpoch /\ processedFrame # 0) =>
    processedBy[processedFrame] = {<<gaWorkload, gaEpoch>>}

\* The frame the harness accepts as the proof of a transition was processed by
\* the replacement, after the last snapshot seen before the transition.
ProvenFrameIsNew ==
  proven # 0 => proven > frameBefore /\ processedBy[proven] = {<<target, gaEpoch>>}

\* No output of a replaced worker is left for the display: alg2Disp holds
\* frames of one workload, the one in the algorithm slot.
OutputsOfOneWorkload ==
  \A i \in 1 .. Len(alg2Disp) :
    \A by \in processedBy[alg2Disp[i]] : by[1] = workload

\* stopAlgorithm returns: the join of the old worker ends, whatever the
\* worker was doing when running_ was cleared.
JoinReturns == dpc = "join" ~> dpc # "join"

\* Every transition that begins is committed and confirmed, or fails the run.
TransitionEnds == dpc = "due" ~> dpc \in {"mission", "failed"}
=============================================================================
