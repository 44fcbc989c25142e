----------------------- MODULE WorkloadLearningProofs -----------------------
(***************************************************************************)
(* For every mission, every number of frames, all queue limits and every   *)
(* fault: what is shown is of the worker that runs and a proof is of the   *)
(* replacement.  Until a commit has thrown, label and stamps are those of  *)
(* the worker too; until the mission has failed, the learner learns from   *)
(* its own frames, and the mission implements the continual learner.       *)
(***************************************************************************)
EXTENDS WorkloadTransitionProofs


(***************************************************************************)
(* Frames on their way.  Frame numbers grow along the pipeline: what was   *)
(* processed is behind the frame in hand, and that behind the queue.       *)
(***************************************************************************)
InHand == wpc \in {"check", "drain", "process"}

Delivered == \A i \in 1 .. Len(cam2Alg) : cam2Alg[i] < nextFrame
Increasing ==
  \A i, j \in 1 .. Len(cam2Alg) : i < j => cam2Alg[i] < cam2Alg[j]

\* Frame f is behind all frames of the queue.
Before(f) == \A i \in 1 .. Len(cam2Alg) : f < cam2Alg[i]

HandBehind == InHand => wframe < nextFrame /\ Before(wframe)
Behind ==
  \A f \in Frames :
    processedBy[f] # {} => f < nextFrame /\ Before(f) /\ (InHand => f < wframe)

FrameOrder == Delivered /\ Increasing /\ HandBehind /\ Behind

\* What a step needs to know of the frames' types.
LEMMA FramesTyped ==
  TypeOK => /\ nextFrame \in Int /\ cam2Alg \in Seq(Frames) /\ Len(cam2Alg) \in Nat
            /\ \A i \in 1 .. Len(cam2Alg) : cam2Alg[i] \in Frames
            /\ \A f \in Frames : f \in Int
            /\ InHand => wframe \in Frames
<1> SUFFICES ASSUME TypeOK
             PROVE  /\ nextFrame \in Int /\ cam2Alg \in Seq(Frames) /\ Len(cam2Alg) \in Nat
                    /\ \A i \in 1 .. Len(cam2Alg) : cam2Alg[i] \in Frames
                    /\ \A f \in Frames : f \in Int
                    /\ InHand => wframe \in Frames
  OBVIOUS
<1>1. cam2Alg \in Seq(Frames) /\ nextFrame \in Int /\ (InHand => wframe \in Frames)
  BY MissionAssumption DEF TypeOK, InHand
<1>2. Len(cam2Alg) \in Nat /\ \A i \in 1 .. Len(cam2Alg) : cam2Alg[i] \in Frames
  BY <1>1, ElementOfSeq, LenProperties
<1>3. \A f \in Frames : f \in Int
  BY MissionAssumption DEF Frames
<1> QED BY <1>1, <1>2, <1>3

LEMMA CameraOrdered == TypeOK /\ FrameOrder /\ CameraFrame => FrameOrder'
<1> SUFFICES ASSUME TypeOK, FrameOrder, CameraFrame PROVE FrameOrder'
  OBVIOUS
<1>1. /\ processedBy' = processedBy /\ wpc' = wpc /\ wframe' = wframe
      /\ nextFrame' = nextFrame + 1
  BY DEF CameraFrame, worker
<1>2. /\ nextFrame \in Int /\ nextFrame' \in Int /\ nextFrame' > nextFrame
      /\ \A i \in 1 .. Len(cam2Alg) : cam2Alg[i] \in Int
      /\ InHand => wframe \in Int
      /\ Len(cam2Alg) \in Nat /\ cam2Alg \in Seq(Frames)
      /\ \A f \in Frames : f \in Int
  BY <1>1, FramesTyped
<1>3. CASE cam2Alg' = cam2Alg
  BY <1>1, <1>2, <1>3 DEF FrameOrder, Delivered, Increasing, HandBehind, Behind, Before, InHand
<1>4. CASE cam2Alg' = Append(cam2Alg, nextFrame)
  <2>1. /\ Len(cam2Alg') = Len(cam2Alg) + 1
        /\ \A i \in 1 .. Len(cam2Alg) : cam2Alg'[i] = cam2Alg[i]
        /\ cam2Alg'[Len(cam2Alg) + 1] = nextFrame
    <3>1. nextFrame \in Frames
      BY <1>2, MissionAssumption DEF CameraFrame, Frames, TypeOK
    <3> QED BY <1>2, <1>4, <3>1, AppendProperties
  <2>2. ASSUME NEW i \in 1 .. Len(cam2Alg')
        PROVE  \/ i \in 1 .. Len(cam2Alg) /\ cam2Alg'[i] = cam2Alg[i]
               \/ i = Len(cam2Alg) + 1 /\ cam2Alg'[i] = nextFrame
    <3>1. i \in 1 .. Len(cam2Alg) \/ i = Len(cam2Alg) + 1
      BY <1>2, <2>1, <2>2
    <3> QED BY <2>1, <3>1
  <2>3. Delivered'
    BY <1>2, <2>2 DEF FrameOrder, Delivered
  <2>4. Increasing'
    BY <1>2, <2>2 DEF FrameOrder, Delivered, Increasing
  <2>5. HandBehind'
    BY <1>1, <1>2, <2>2 DEF FrameOrder, HandBehind, Before, InHand
  <2>6. Behind'
    BY <1>1, <1>2, <2>2 DEF FrameOrder, Behind, Before, InHand
  <2> QED BY <2>3, <2>4, <2>5, <2>6 DEF FrameOrder
<1> QED BY <1>3, <1>4 DEF CameraFrame

\* The queue loses its head, which is before the rest.
LEMMA HeadBefore ==
  ASSUME TypeOK, FrameOrder, cam2Alg # <<>>, cam2Alg' = Tail(cam2Alg)
  PROVE  /\ Head(cam2Alg) \in Frames /\ Head(cam2Alg) < nextFrame
         /\ \A i \in 1 .. Len(cam2Alg') : cam2Alg'[i] < nextFrame /\ Head(cam2Alg) < cam2Alg'[i]
         /\ \A f \in Frames : Before(f) => Before(f)' /\ f < Head(cam2Alg)
         /\ Increasing'
<1>1. /\ cam2Alg \in Seq(Frames) /\ Len(cam2Alg) \in Nat \ {0}
      /\ Len(cam2Alg') = Len(cam2Alg) - 1
      /\ \A i \in 1 .. Len(cam2Alg') : cam2Alg'[i] = cam2Alg[i + 1] /\ i + 1 \in 1 .. Len(cam2Alg)
      /\ Head(cam2Alg) = cam2Alg[1] /\ 1 \in 1 .. Len(cam2Alg)
  <2>1. cam2Alg \in Seq(Frames) /\ Len(cam2Alg) \in Nat \ {0}
    BY FramesTyped, EmptySeq
  <2>2. /\ Len(cam2Alg') = Len(cam2Alg) - 1
        /\ \A i \in 1 .. Len(cam2Alg') : cam2Alg'[i] = cam2Alg[i + 1]
    BY <2>1, HeadTailProperties
  <2>3. Head(cam2Alg) = cam2Alg[1]
    OBVIOUS
  <2>4. 1 \in 1 .. Len(cam2Alg) /\ \A i \in 1 .. Len(cam2Alg') : i + 1 \in 1 .. Len(cam2Alg)
    BY <2>1, <2>2
  <2> QED BY <2>1, <2>2, <2>3, <2>4
<1>2. \A i \in 1 .. Len(cam2Alg) : cam2Alg[i] \in Frames /\ cam2Alg[i] \in Int
  BY FramesTyped
<1>3. Head(cam2Alg) \in Frames /\ Head(cam2Alg) < nextFrame
  BY <1>1, <1>2 DEF FrameOrder, Delivered
<1>4. \A i \in 1 .. Len(cam2Alg') : cam2Alg'[i] < nextFrame
  BY <1>1 DEF FrameOrder, Delivered
<1>5. ASSUME NEW i \in 1 .. Len(cam2Alg') PROVE Head(cam2Alg) < cam2Alg'[i]
  <2>1. i \in Int /\ 1 < i + 1
    BY <1>1
  <2> QED BY <1>1, <2>1 DEF FrameOrder, Increasing
<1>6. \A f \in Frames : Before(f) => Before(f)' /\ f < Head(cam2Alg)
  BY <1>1 DEF Before
<1>7. Increasing'
  <2>1. SUFFICES ASSUME NEW i \in 1 .. Len(cam2Alg'), NEW j \in 1 .. Len(cam2Alg'), i < j
                 PROVE  cam2Alg'[i] < cam2Alg'[j]
    BY DEF Increasing
  <2>2. i + 1 < j + 1
    BY <2>1
  <2> QED BY <1>1, <2>2 DEF FrameOrder, Increasing
<1> QED BY <1>3, <1>4, <1>5, <1>6, <1>7

\* A frame is processed at most once: the one in hand is new.
LEMMA HandIsNew == TypeOK /\ FrameOrder /\ wpc = "process" => processedBy[wframe] = {}
  BY FramesTyped DEF FrameOrder, Behind, InHand

\* The worker moves frames along, and processes those in hand.
LEMMA WorkerOrdered == TypeOK /\ FrameOrder /\ (WorkerStep \/ WorkerStarves) => FrameOrder'
<1> SUFFICES ASSUME TypeOK, FrameOrder, WorkerStep \/ WorkerStarves PROVE FrameOrder'
  OBVIOUS
<1>1. nextFrame' = nextFrame
  BY DEF WorkerStep, WorkerStarves, WorkerExits, WorkerPops, WorkerContinues, WorkerSkips,
     WorkerDrained, WorkerProcesses, WorkerStampsFrame, WorkerStampsEpoch, WorkerPushes,
     WorkerElsewhere
<1>2. CASE WorkerPops \/ WorkerSkips
  <2>1. /\ wframe' = Head(cam2Alg) /\ cam2Alg # <<>> /\ cam2Alg' = Tail(cam2Alg)
        /\ processedBy' = processedBy
    BY <1>2 DEF WorkerPops, WorkerSkips
  <2>2. Increasing' /\ Delivered' /\ HandBehind'
    BY <1>1, <2>1, HeadBefore DEF Delivered, HandBehind, Before
  <2>3. Behind'
    BY <1>1, <2>1, HeadBefore DEF FrameOrder, Behind
  <2> QED BY <2>2, <2>3 DEF FrameOrder
<1>3. CASE WorkerProcesses
  <2>1. /\ cam2Alg' = cam2Alg /\ wframe' = wframe /\ ~InHand' /\ InHand
        /\ \A f \in Frames : f # wframe => processedBy'[f] = processedBy[f]
    BY <1>3 DEF WorkerProcesses, InHand, TypeOK
  <2>2. Delivered' /\ Increasing' /\ HandBehind'
    BY <1>1, <2>1 DEF FrameOrder, Delivered, Increasing, HandBehind
  <2>3. Behind'
    BY <1>1, <2>1 DEF FrameOrder, Behind, HandBehind, Before
  <2> QED BY <2>2, <2>3 DEF FrameOrder
<1>4. CASE ~(WorkerPops \/ WorkerSkips \/ WorkerProcesses)
  <2>1. cam2Alg' = cam2Alg /\ processedBy' = processedBy /\ (InHand' => InHand /\ wframe' = wframe)
    BY <1>4 DEF WorkerStep, WorkerStarves, WorkerExits, WorkerContinues, WorkerDrained,
       WorkerStampsFrame, WorkerStampsEpoch, WorkerPushes, InHand
  <2> QED BY <1>1, <2>1 DEF FrameOrder, Delivered, Increasing, HandBehind, Behind, Before
<1> QED BY <1>2, <1>3, <1>4

\* The driver may empty the queue, and stop and start the worker.
LEMMA DriverOrdered == TypeOK /\ FrameOrder /\ DriverStep => FrameOrder'
<1> SUFFICES ASSUME TypeOK, FrameOrder, DriverStep PROVE FrameOrder'
  OBVIOUS
<1>1. /\ nextFrame' = nextFrame /\ processedBy' = processedBy /\ wframe' = wframe
      /\ InHand' => InHand
      /\ cam2Alg' \in {cam2Alg, <<>>}
  <2> USE DEF DriverElsewhere, Queues, Slot, InHand
  <2>1. CASE WarmupFails BY <2>1 DEF WarmupFails
  <2>2. CASE WarmupEnds BY <2>2 DEF WarmupEnds
  <2>3. CASE MissionEnds BY <2>3 DEF MissionEnds
  <2>4. CASE DueTransition BY <2>4 DEF DueTransition
  <2>5. CASE RaiseBarrier BY <2>5 DEF RaiseBarrier
  <2>6. CASE BeginTransition BY <2>6 DEF BeginTransition
  <2>7. CASE SwapWorker BY <2>7 DEF SwapWorker
  <2>8. CASE JoinWorker BY <2>8 DEF JoinWorker
  <2>9. CASE ActivateEpoch BY <2>9 DEF ActivateEpoch, DrainQueues
  <2>10. CASE StartWorker BY <2>10 DEF StartWorker, WorkerRuns
  <2>11. CASE StartFails BY <2>11 DEF StartFails, WorkerRuns
  <2>12. CASE CommitTransition BY <2>12 DEF CommitTransition
  <2>13. CASE CommitThrows BY <2>13 DEF CommitThrows
  <2>14. CASE CancelTransition BY <2>14 DEF CancelTransition
  <2>15. CASE ProveFrame \/ ConfirmAdvanced \/ TransitionRejected
    BY <2>15 DEF ProveFrame, ConfirmAdvanced, TransitionRejected
  <2> QED BY <2>1, <2>2, <2>3, <2>4, <2>5, <2>6, <2>7, <2>8, <2>9, <2>10, <2>11,
         <2>12, <2>13, <2>14, <2>15 DEF DriverStep
<1>2. CASE cam2Alg' = cam2Alg
  BY <1>1, <1>2 DEF FrameOrder, Delivered, Increasing, HandBehind, Behind, Before
<1>3. CASE cam2Alg' = <<>>
  <2>1. \A i \in 1 .. Len(cam2Alg') : FALSE
    BY <1>3
  <2> HIDE <1>3
  <2> QED BY <1>1, <2>1 DEF FrameOrder, Delivered, Increasing, HandBehind, Behind, Before
<1> QED BY <1>1, <1>2, <1>3

\* Nobody else touches the frames.
LEMMA FrameOrderStep == TypeOK /\ FrameOrder /\ [Next]_vars => FrameOrder'
<1> SUFFICES ASSUME TypeOK, FrameOrder, [Next]_vars PROVE FrameOrder'
  OBVIOUS
<1>1. CASE \/ DisplayDrains \/ DisplayMerges \/ DisplayMergesOriginal \/ DisplayCloses
           \/ FlushTakes \/ FlushCommits \/ LoopStep \/ UNCHANGED vars
  <2>1. UNCHANGED <<nextFrame, cam2Alg, processedBy, wpc, wframe>>
    BY <1>1 DEF DisplayDrains, DisplayMerges, DisplayMergesOriginal, DisplayCloses, FlushTakes,
       FlushCommits, DisplayElsewhere, FlushElsewhere, LoopStep, LoopChecksBarrier,
       LoopReadsSnapshot, LoopLocks, LoopGates, LoopElsewhere, vars, pipeline, worker
  <2> QED BY <2>1 DEF FrameOrder, Delivered, Increasing, HandBehind, Behind, Before, InHand
<1> QED BY <1>1, CameraOrdered, WorkerOrdered, DriverOrdered DEF Next, Over

\* What was processed stays as it was processed.
Kept == \A f \in Frames : processedBy[f] # {} => processedBy'[f] = processedBy[f]

LEMMA ProcessingEffect ==
  ASSUME TypeOK, FrameOrder, WorkerProcesses
  PROVE  /\ wframe \in Frames /\ processedBy[wframe] = {}
         /\ processedBy'[wframe] = {<<workload, activeEpoch>>}
         /\ \A f \in Frames : f # wframe => processedBy'[f] = processedBy[f]
         /\ wframe' = wframe
<1>1. wframe \in Frames /\ processedBy[wframe] = {}
  BY HandIsNew, FramesTyped DEF WorkerProcesses, InHand
<1> QED BY <1>1 DEF WorkerProcesses, TypeOK

LEMMA OthersProcessNothing ==
  ASSUME [Next]_vars, ~WorkerProcesses
  PROVE  processedBy' = processedBy
<1>1. CASE UNCHANGED vars
  BY <1>1 DEF vars, pipeline
<1>2. CASE CameraFrame
  BY <1>2 DEF CameraFrame
<1>3. CASE WorkerStep \/ WorkerStarves
  BY <1>3 DEF WorkerStep, WorkerStarves, WorkerExits, WorkerPops, WorkerContinues, WorkerSkips,
     WorkerDrained, WorkerStampsFrame, WorkerStampsEpoch, WorkerPushes
<1>4. CASE DisplayDrains \/ DisplayMerges \/ DisplayMergesOriginal \/ DisplayCloses
           \/ FlushTakes \/ FlushCommits
  BY <1>4 DEF DisplayDrains, DisplayMerges, DisplayMergesOriginal, DisplayCloses, FlushTakes,
     FlushCommits, DisplayElsewhere, FlushElsewhere
<1>5. CASE LoopStep
  BY <1>5 DEF LoopStep, LoopChecksBarrier, LoopReadsSnapshot, LoopLocks, LoopGates,
     LoopElsewhere, pipeline
<1>6. CASE DriverStep
  BY <1>6 DEF DriverStep, WarmupFails, WarmupEnds, MissionEnds, DueTransition, RaiseBarrier,
     BeginTransition, SwapWorker, JoinWorker, ActivateEpoch, StartWorker, StartFails,
     CommitTransition, CommitThrows, CancelTransition, ProveFrame, ConfirmAdvanced,
     TransitionRejected, DriverElsewhere
<1> QED BY <1>1, <1>2, <1>3, <1>4, <1>5, <1>6 DEF Next, Over

LEMMA KeptStep == TypeOK /\ FrameOrder /\ [Next]_vars => Kept
  BY ProcessingEffect, OthersProcessNothing DEF Kept

-----------------------------------------------------------------------------
(***************************************************************************)
(* The driver: labels and epochs along the steps of a transition.          *)
(***************************************************************************)
NoCommitFault == "commit" \notin Faults

\* The context cannot have been left half set: setWorkloadContext never throws,
\* or nothing had to be rolled back yet.
Undisturbed == NoCommitFault \/ ~rollingBack

\* A rollback ends the mission, and leaves no evidence.
RollsBack ==
  /\ rollingBack =>
       dpc \in {"swap", "join", "activate", "start", "cancel", "failed"} /\ proven = 0
  /\ proven # 0 => dpc \in {"prove", "mission", "done", "failed"}

Labels ==
  /\ dpc # "commit" => gaWorkload = workload
  /\ dpc \in {"due", "begin", "swap", "join", "activate", "start"} => previous = workload
  /\ dpc = "swap" /\ rollingBack => target = workload
  /\ dpc \in {"due", "begin", "join", "activate", "start", "commit"} => ~rollingBack
  /\ dpc = "commit" => target = workload
  /\ dpc = "prove" => target = gaWorkload

\* A switch to the label that runs already keeps the epoch: its commit throws.
Epochs ==
  /\ dpc \notin {"start", "commit"} => activeEpoch = gaEpoch
  /\ dpc \in {"swap", "join", "activate", "start", "commit"} =>
       pendingEpoch = gaEpoch + 1 /\ requestedEpoch = gaEpoch + 1
  /\ dpc \in {"join", "activate", "start"} => previousActive = gaEpoch
  /\ dpc = "start" => activeEpoch = gaEpoch + 1
  /\ dpc = "commit" =>
       \/ activeEpoch = gaEpoch + 1
       \/ activeEpoch = gaEpoch /\ gaWorkload = workload /\ previous = workload

\* From the join to the start there is no worker, and no trace of the old one
\* when the new one starts.
Replaced ==
  /\ dpc \in {"activate", "start"} => wpc = "exited"
  /\ dpc = "start" => processedFrame = 0 /\ alg2Disp = <<>>

Slots == Labels /\ Epochs

driverState == <<dpc, phase, workload, gaWorkload, gaEpoch, activeEpoch, requestedEpoch,
                 pendingEpoch, target, previous, rollingBack, previousActive, frameBefore,
                 proven, transitionInProgress>>

NotDriver ==
  \/ CameraFrame \/ WorkerStep \/ WorkerStarves
  \/ DisplayDrains \/ DisplayMerges \/ DisplayMergesOriginal \/ DisplayCloses
  \/ FlushTakes \/ FlushCommits \/ LoopStep \/ UNCHANGED vars

\* The other threads leave the driver's variables alone.
LEMMA DriverAlone == NotDriver => UNCHANGED driverState
<1> SUFFICES ASSUME NotDriver PROVE UNCHANGED driverState
  OBVIOUS
<1> USE DEF driverState, controls, barrier, learner, driver, switch, evidence, worker
<1>1. CASE CameraFrame \/ UNCHANGED vars
  BY <1>1 DEF CameraFrame, vars
<1>2. CASE WorkerStep \/ WorkerStarves
  BY <1>2 DEF WorkerStep, WorkerStarves, WorkerExits, WorkerPops, WorkerContinues, WorkerSkips,
     WorkerDrained, WorkerProcesses, WorkerStampsFrame, WorkerStampsEpoch, WorkerPushes,
     WorkerElsewhere
<1>3. CASE DisplayDrains \/ DisplayMerges \/ DisplayMergesOriginal \/ DisplayCloses
           \/ FlushTakes \/ FlushCommits
  BY <1>3 DEF DisplayDrains, DisplayMerges, DisplayMergesOriginal, DisplayCloses, FlushTakes,
     FlushCommits, DisplayElsewhere, FlushElsewhere
<1>4. CASE LoopStep
  BY <1>4 DEF LoopStep, LoopChecksBarrier, LoopReadsSnapshot, LoopLocks, LoopGates, LoopElsewhere
<1> QED BY <1>1, <1>2, <1>3, <1>4 DEF NotDriver

\* A worker that has exited stamps and pushes nothing.
LEMMA ExitedIsQuiet ==
  NotDriver /\ wpc = "exited" =>
    wpc' = "exited" /\ processedFrame' = processedFrame /\ (alg2Disp = <<>> => alg2Disp' = <<>>)
<1> SUFFICES ASSUME NotDriver, wpc = "exited"
             PROVE  /\ wpc' = "exited" /\ processedFrame' = processedFrame
                    /\ alg2Disp = <<>> => alg2Disp' = <<>>
  OBVIOUS
<1> USE DEF controls, worker
<1>1. CASE CameraFrame \/ UNCHANGED vars
  BY <1>1 DEF CameraFrame, vars, pipeline
<1>2. CASE WorkerStep \/ WorkerStarves
  BY <1>2 DEF WorkerStep, WorkerStarves, WorkerExits, WorkerPops, WorkerContinues, WorkerSkips,
     WorkerDrained, WorkerProcesses, WorkerStampsFrame, WorkerStampsEpoch, WorkerPushes
<1>3. CASE DisplayDrains \/ DisplayMerges \/ DisplayMergesOriginal \/ DisplayCloses
           \/ FlushTakes \/ FlushCommits
  BY <1>3 DEF DisplayDrains, DisplayMerges, DisplayMergesOriginal, DisplayCloses, FlushTakes,
     FlushCommits, DisplayElsewhere, FlushElsewhere
<1>4. CASE LoopStep
  BY <1>4 DEF LoopStep, LoopChecksBarrier, LoopReadsSnapshot, LoopLocks, LoopGates,
     LoopElsewhere, pipeline
<1> QED BY <1>1, <1>2, <1>3, <1>4 DEF NotDriver

LEMMA ReplacedStep == TypeOK /\ Replaced /\ [Next]_vars => Replaced'
<1> SUFFICES ASSUME TypeOK, Replaced, [Next]_vars PROVE Replaced'
  OBVIOUS
<1>1. CASE NotDriver
  BY <1>1, DriverAlone, ExitedIsQuiet DEF Replaced, driverState
<1>2. CASE DriverStep
  <2> USE DEF Replaced, Slot, Goto, SwitchReturns
  <2>1. CASE WarmupFails BY <2>1 DEF WarmupFails
  <2>2. CASE WarmupEnds BY <2>2 DEF WarmupEnds
  <2>3. CASE MissionEnds BY <2>3 DEF MissionEnds
  <2>4. CASE DueTransition BY <2>4 DEF DueTransition
  <2>5. CASE RaiseBarrier BY <2>5 DEF RaiseBarrier
  <2>6. CASE BeginTransition BY <2>6 DEF BeginTransition
  <2>7. CASE SwapWorker BY <2>7 DEF SwapWorker
  <2>8. CASE JoinWorker BY <2>8 DEF JoinWorker
  <2>9. CASE ActivateEpoch BY <2>9 DEF ActivateEpoch, DrainQueues, NoProofYet
  <2>10. CASE StartWorker BY <2>10 DEF StartWorker
  <2>11. CASE StartFails BY <2>11 DEF StartFails
  <2>12. CASE CommitTransition BY <2>12 DEF CommitTransition
  <2>13. CASE CommitThrows BY <2>13 DEF CommitThrows
  <2>14. CASE CancelTransition BY <2>14 DEF CancelTransition
  <2>15. CASE ProveFrame \/ ConfirmAdvanced \/ TransitionRejected
    BY <2>15 DEF ProveFrame, ConfirmAdvanced, TransitionRejected
  <2> QED BY <1>2, <2>1, <2>2, <2>3, <2>4, <2>5, <2>6, <2>7, <2>8, <2>9, <2>10, <2>11,
         <2>12, <2>13, <2>14, <2>15 DEF DriverStep
<1> QED BY <1>1, <1>2 DEF Next, Over, NotDriver

LEMMA RollsBackStep == RollsBack /\ [Next]_vars => RollsBack'
<1> SUFFICES ASSUME RollsBack, [Next]_vars PROVE RollsBack'
  OBVIOUS
<1>1. CASE NotDriver
  BY <1>1, DriverAlone DEF RollsBack, driverState
<1>2. CASE DriverStep
  <2> USE DEF RollsBack, switch, evidence, Goto, SwitchReturns
  <2>1. CASE WarmupFails BY <2>1 DEF WarmupFails
  <2>2. CASE WarmupEnds BY <2>2 DEF WarmupEnds
  <2>3. CASE MissionEnds BY <2>3 DEF MissionEnds
  <2>4. CASE DueTransition BY <2>4 DEF DueTransition
  <2>5. CASE RaiseBarrier BY <2>5 DEF RaiseBarrier
  <2>6. CASE BeginTransition BY <2>6 DEF BeginTransition
  <2>7. CASE SwapWorker BY <2>7 DEF SwapWorker
  <2>8. CASE JoinWorker BY <2>8 DEF JoinWorker
  <2>9. CASE ActivateEpoch BY <2>9 DEF ActivateEpoch
  <2>10. CASE StartWorker BY <2>10 DEF StartWorker
  <2>11. CASE StartFails BY <2>11 DEF StartFails
  <2>12. CASE CommitTransition BY <2>12 DEF CommitTransition
  <2>13. CASE CommitThrows BY <2>13 DEF CommitThrows
  <2>14. CASE CancelTransition BY <2>14 DEF CancelTransition
  <2>15. CASE ProveFrame \/ ConfirmAdvanced \/ TransitionRejected
    BY <2>15 DEF ProveFrame, ConfirmAdvanced, TransitionRejected
  <2> QED BY <1>2, <2>1, <2>2, <2>3, <2>4, <2>5, <2>6, <2>7, <2>8, <2>9, <2>10, <2>11,
         <2>12, <2>13, <2>14, <2>15 DEF DriverStep
<1> QED BY <1>1, <1>2 DEF Next, Over, NotDriver

\* What was disturbed stays so: the next boundary is never due.
LEMMA UndisturbedBefore == RollsBack /\ [Next]_vars /\ Undisturbed' => Undisturbed
<1> SUFFICES ASSUME RollsBack, [Next]_vars, rollingBack PROVE rollingBack'
  BY DEF Undisturbed
<1>1. dpc # "mission"
  BY DEF RollsBack
<1>2. CASE NotDriver
  BY <1>2, DriverAlone DEF driverState
<1>3. CASE DriverStep
  BY <1>1, <1>3 DEF DriverStep, WarmupFails, WarmupEnds, MissionEnds, DueTransition,
     RaiseBarrier, BeginTransition, SwapWorker, JoinWorker, ActivateEpoch, StartWorker,
     StartFails, CommitTransition, CommitThrows, CancelTransition, ProveFrame,
     ConfirmAdvanced, TransitionRejected, switch
<1> QED BY <1>2, <1>3 DEF Next, Over, NotDriver

LEMMA ThrowsUnfaulted == CommitThrows /\ Undisturbed' => NoCommitFault
  BY DEF CommitThrows, Undisturbed

LEMMA SlotsDriverStep == TypeOK /\ Slots /\ DriverStep /\ Undisturbed' => Slots'
<1> SUFFICES ASSUME TypeOK, Slots, DriverStep, Undisturbed' PROVE Slots'
  OBVIOUS
<1>1. gaEpoch \in Nat
  BY DEF TypeOK
<1> USE DEF Slots, Labels, Epochs, DriverElsewhere, Slot, Gates, controls, barrier, switch,
    evidence, Goto, SwitchReturns
<1>2. CASE WarmupFails BY <1>2 DEF WarmupFails
<1>3. CASE WarmupEnds BY <1>3 DEF WarmupEnds
<1>4. CASE MissionEnds BY <1>4 DEF MissionEnds
<1>5. CASE DueTransition BY <1>5 DEF DueTransition
<1>6. CASE RaiseBarrier BY <1>6 DEF RaiseBarrier
<1>7. CASE BeginTransition BY <1>7 DEF BeginTransition
<1>8. CASE SwapWorker BY <1>8 DEF SwapWorker
<1>9. CASE JoinWorker BY <1>9 DEF JoinWorker
<1>10. CASE ActivateEpoch BY <1>10 DEF ActivateEpoch, NoProofYet
<1>11. CASE StartWorker BY <1>11 DEF StartWorker
<1>12. CASE StartFails BY <1>12 DEF StartFails
<1>13. CASE CommitTransition BY <1>1, <1>13 DEF CommitTransition
<1>14. CASE CommitThrows
  BY <1>1, <1>14, ThrowsUnfaulted DEF CommitThrows, NoCommitFault
<1>15. CASE CancelTransition BY <1>15 DEF CancelTransition
<1>16. CASE ProveFrame \/ ConfirmAdvanced \/ TransitionRejected
  BY <1>16 DEF ProveFrame, ConfirmAdvanced, TransitionRejected
<1> QED BY <1>2, <1>3, <1>4, <1>5, <1>6, <1>7, <1>8, <1>9, <1>10, <1>11, <1>12, <1>13,
       <1>14, <1>15, <1>16 DEF DriverStep

LEMMA SlotsStep == TypeOK /\ Slots /\ [Next]_vars /\ Undisturbed' => Slots'
<1> SUFFICES ASSUME TypeOK, Slots, [Next]_vars, Undisturbed' PROVE Slots'
  OBVIOUS
<1>1. CASE NotDriver
  BY <1>1, DriverAlone DEF Slots, Labels, Epochs, driverState
<1> QED BY <1>1, SlotsDriverStep DEF Next, Over, NotDriver

-----------------------------------------------------------------------------
(***************************************************************************)
(* Stamps, outputs and rows are of frames that were processed.             *)
(***************************************************************************)
InSlot(f) == processedBy[f] = {<<workload, activeEpoch>>}

Stamps ==
  /\ wpc \in {"stampFrame", "stampEpoch", "push"} => InSlot(wframe)
  /\ processedFrame # 0 => processedFrame \in Frames /\ InSlot(processedFrame)

\* Made by the worker in the slot, in whatever epoch.
MadeHere(f) == processedBy[f] # {} /\ \A by \in processedBy[f] : by[1] = workload

Handed  == wpc \in {"stampFrame", "stampEpoch", "push"} => MadeHere(wframe)
Outputs == \A i \in 1 .. Len(alg2Disp) : MadeHere(alg2Disp[i])

Processed(f) == f \in Frames /\ processedBy[f] # {}

Rows ==
  /\ shown # None => Processed(shown)
  /\ batch # None => Processed(batch)
  /\ flushing # None => Processed(flushing)
  /\ history # None => Processed(history)
  /\ csnap # 0 => Processed(csnap)
  /\ rowPending => shown # None

\* A frame that has passed the kernels is one of Frames.
LEMMA HandTyped == TypeOK /\ wpc \notin {"pop", "exited"} => wframe \in Frames
  BY DEF TypeOK

LEMMA OutputsTyped ==
  TypeOK => /\ alg2Disp \in Seq(Frames) /\ Len(alg2Disp) \in Nat
            /\ \A i \in 1 .. Len(alg2Disp) : alg2Disp[i] \in Frames
<1> SUFFICES ASSUME TypeOK
             PROVE  /\ alg2Disp \in Seq(Frames) /\ Len(alg2Disp) \in Nat
                    /\ \A i \in 1 .. Len(alg2Disp) : alg2Disp[i] \in Frames
  OBVIOUS
<1>1. alg2Disp \in Seq(Frames)
  BY DEF TypeOK
<1> QED BY <1>1, ElementOfSeq, LenProperties

LEMMA StampsStep ==
  ASSUME TypeOK, FrameOrder, Replaced, Slots, Stamps, [Next]_vars, Kept
  PROVE  Stamps'
<1>1. ASSUME wpc \in {"stampFrame", "stampEpoch", "push"}
      PROVE  wframe \in Frames /\ processedBy[wframe] # {} /\ processedBy'[wframe] = processedBy[wframe]
  BY <1>1, HandTyped DEF Stamps, InSlot, Kept
<1>2. ASSUME processedFrame # 0
      PROVE  processedFrame \in Frames /\ processedBy'[processedFrame] = processedBy[processedFrame]
  BY <1>2 DEF Stamps, InSlot, Kept
<1>3. CASE NotDriver
  <2>1. workload' = workload /\ activeEpoch' = activeEpoch
    BY <1>3, DriverAlone DEF driverState
  <2>2. CASE WorkerProcesses
    <3>1. wpc' = "stampFrame" /\ processedFrame' = processedFrame
      BY <2>2 DEF WorkerProcesses, controls
    <3> QED BY <1>2, <2>1, <2>2, <3>1, ProcessingEffect DEF Stamps, InSlot
  <2>3. CASE WorkerStampsFrame
    BY <1>1, <2>1, <2>3 DEF WorkerStampsFrame, Stamps, InSlot
  <2>4. CASE ~WorkerProcesses /\ ~WorkerStampsFrame
    <3>1. /\ processedFrame' = processedFrame
          /\ wpc' \in {"stampFrame", "stampEpoch", "push"} =>
               wpc \in {"stampFrame", "stampEpoch", "push"} /\ wframe' = wframe
      <4> USE DEF controls, worker
      <4>1. CASE CameraFrame \/ UNCHANGED vars
        BY <4>1 DEF CameraFrame, vars
      <4>2. CASE WorkerStep \/ WorkerStarves
        BY <2>4, <4>2 DEF WorkerStep, WorkerStarves, WorkerExits, WorkerPops, WorkerContinues,
           WorkerSkips, WorkerDrained, WorkerStampsEpoch, WorkerPushes
      <4>3. CASE DisplayDrains \/ DisplayMerges \/ DisplayMergesOriginal \/ DisplayCloses
                 \/ FlushTakes \/ FlushCommits
        BY <4>3 DEF DisplayDrains, DisplayMerges, DisplayMergesOriginal, DisplayCloses,
           FlushTakes, FlushCommits, DisplayElsewhere, FlushElsewhere
      <4>4. CASE LoopStep
        BY <4>4 DEF LoopStep, LoopChecksBarrier, LoopReadsSnapshot, LoopLocks, LoopGates,
           LoopElsewhere
      <4> QED BY <1>3, <4>1, <4>2, <4>3, <4>4 DEF NotDriver
    <3> QED BY <1>1, <1>2, <2>1, <3>1 DEF Stamps, InSlot
  <2> QED BY <2>2, <2>3, <2>4
<1>4. CASE DriverStep
  <2>1. /\ wframe' = wframe
        /\ wpc' = wpc \/ wpc' = "pop"
    BY <1>4 DEF DriverStep, WarmupFails, WarmupEnds, MissionEnds, DueTransition, RaiseBarrier,
       BeginTransition, SwapWorker, JoinWorker, ActivateEpoch, StartWorker, StartFails,
       CommitTransition, CommitThrows, CancelTransition, ProveFrame, ConfirmAdvanced,
       TransitionRejected, DriverElsewhere, Slot, WorkerRuns
  <2>2. \/ UNCHANGED <<workload, activeEpoch, processedFrame>>
        \/ processedFrame' = 0 /\ UNCHANGED <<workload, activeEpoch>>
        \/ processedFrame' = 0 /\ wpc' \in {"pop", "exited"}
    BY <1>4 DEF DriverStep, WarmupFails, WarmupEnds, MissionEnds, DueTransition, RaiseBarrier,
       BeginTransition, SwapWorker, JoinWorker, ActivateEpoch, StartWorker, StartFails,
       CommitTransition, CommitThrows, CancelTransition, ProveFrame, ConfirmAdvanced,
       TransitionRejected, DriverElsewhere, Slot, WorkerRuns, controls, Slots, Replaced,
       Epochs, NoProofYet
  <2> QED BY <1>1, <1>2, <2>1, <2>2 DEF Stamps, InSlot
<1> QED BY <1>3, <1>4 DEF Next, Over, NotDriver

\* A stamped frame came out of the kernels; a new worker has none.
LEMMA HandKept ==
  ASSUME [Next]_vars, ~WorkerProcesses, wpc' \in {"stampFrame", "stampEpoch", "push"}
  PROVE  /\ wpc \in {"stampFrame", "stampEpoch", "push"}
         /\ wframe' = wframe /\ workload' = workload
<1> USE DEF worker
<1>1. CASE CameraFrame \/ UNCHANGED vars
  BY <1>1 DEF CameraFrame, vars
<1>2. CASE WorkerStep \/ WorkerStarves
  BY <1>2 DEF WorkerStep, WorkerStarves, WorkerExits, WorkerPops, WorkerContinues,
     WorkerSkips, WorkerDrained, WorkerStampsFrame, WorkerStampsEpoch, WorkerPushes,
     WorkerElsewhere
<1>3. CASE DisplayDrains \/ DisplayMerges \/ DisplayMergesOriginal \/ DisplayCloses
           \/ FlushTakes \/ FlushCommits
  BY <1>3 DEF DisplayDrains, DisplayMerges, DisplayMergesOriginal, DisplayCloses,
     FlushTakes, FlushCommits, DisplayElsewhere, FlushElsewhere
<1>4. CASE LoopStep
  BY <1>4 DEF LoopStep, LoopChecksBarrier, LoopReadsSnapshot, LoopLocks, LoopGates,
     LoopElsewhere
<1>5. CASE DriverStep
  BY <1>5 DEF DriverStep, WarmupFails, WarmupEnds, MissionEnds, DueTransition, RaiseBarrier,
     BeginTransition, SwapWorker, JoinWorker, ActivateEpoch, StartWorker, StartFails,
     CommitTransition, CommitThrows, CancelTransition, ProveFrame, ConfirmAdvanced,
     TransitionRejected, DriverElsewhere, Slot, WorkerRuns
<1> QED BY <1>1, <1>2, <1>3, <1>4, <1>5 DEF Next, Over

LEMMA HandedStep ==
  ASSUME TypeOK, FrameOrder, Handed, [Next]_vars, Kept
  PROVE  Handed'
<1>1. CASE WorkerProcesses
  <2>1. workload' = workload
    BY <1>1 DEF WorkerProcesses, WorkerElsewhere
  <2>2. processedBy'[wframe'] = {<<workload, activeEpoch>>}
    BY <1>1, ProcessingEffect
  <2>3. MadeHere(wframe)'
    BY <2>1, <2>2 DEF MadeHere
  <2> QED BY <2>3 DEF Handed
<1>2. CASE ~WorkerProcesses
  <2> SUFFICES ASSUME wpc' \in {"stampFrame", "stampEpoch", "push"}
               PROVE  MadeHere(wframe)'
    BY DEF Handed
  <2>1. wpc \in {"stampFrame", "stampEpoch", "push"} /\ wframe' = wframe /\ workload' = workload
    BY <1>2, HandKept
  <2>2. wframe \in Frames /\ MadeHere(wframe)
    BY <2>1, HandTyped DEF Handed
  <2> QED BY <2>1, <2>2 DEF Kept, MadeHere
<1> QED BY <1>1, <1>2

LEMMA OutputsStep ==
  ASSUME TypeOK, FrameOrder, Replaced, Handed, Outputs, [Next]_vars, Kept
  PROVE  Outputs'
<1>1. \A i \in 1 .. Len(alg2Disp) : processedBy'[alg2Disp[i]] = processedBy[alg2Disp[i]]
  BY OutputsTyped DEF Kept, Outputs, MadeHere
<1>2. CASE alg2Disp' = <<>>
  <2>1. \A i \in 1 .. Len(alg2Disp') : FALSE
    BY <1>2
  <2> QED BY <2>1 DEF Outputs
<1>3. CASE alg2Disp' = alg2Disp /\ workload' = workload
  BY <1>1, <1>3 DEF Outputs, MadeHere
<1>4. CASE WorkerPushes
  <2>1. /\ alg2Disp' = Append(alg2Disp, wframe) /\ workload' = workload
        /\ processedBy' = processedBy /\ wframe \in Frames
        /\ MadeHere(wframe)
    BY <1>4, HandTyped DEF WorkerPushes, WorkerElsewhere, Handed
  <2>2. /\ Len(alg2Disp) \in Nat /\ Len(alg2Disp') = Len(alg2Disp) + 1
        /\ \A i \in 1 .. Len(alg2Disp) : alg2Disp'[i] = alg2Disp[i]
        /\ alg2Disp'[Len(alg2Disp) + 1] = wframe
    BY <2>1, OutputsTyped, AppendProperties
  <2>3. ASSUME NEW i \in 1 .. Len(alg2Disp')
        PROVE  MadeHere(alg2Disp[i])'
    <3>1. i \in 1 .. Len(alg2Disp) \/ i = Len(alg2Disp) + 1
      BY <2>2, <2>3
    <3>2. CASE i \in 1 .. Len(alg2Disp)
      BY <2>1, <2>2, <3>2 DEF Outputs, MadeHere
    <3>3. CASE i = Len(alg2Disp) + 1
      <4>1. alg2Disp'[i] = wframe
        BY <2>2, <3>3
      <4> QED BY <2>1, <4>1 DEF MadeHere
    <3> QED BY <3>1, <3>2, <3>3
  <2> QED BY <2>3 DEF Outputs
<1>5. \/ alg2Disp' = <<>>
      \/ alg2Disp' = alg2Disp /\ workload' = workload
      \/ WorkerPushes
  <2>1. CASE NotDriver
    <3>1. workload' = workload
      BY <2>1, DriverAlone DEF driverState
    <3>2. CASE CameraFrame \/ UNCHANGED vars
      BY <3>1, <3>2 DEF CameraFrame, vars, pipeline
    <3>3. CASE WorkerStep \/ WorkerStarves
      BY <3>1, <3>3 DEF WorkerStep, WorkerStarves, WorkerExits, WorkerPops, WorkerContinues,
         WorkerSkips, WorkerDrained, WorkerProcesses, WorkerStampsFrame, WorkerStampsEpoch
    <3>4. CASE DisplayDrains \/ DisplayMerges \/ DisplayMergesOriginal \/ DisplayCloses
               \/ FlushTakes \/ FlushCommits
      BY <3>1, <3>4 DEF DisplayDrains, DisplayMerges, DisplayMergesOriginal, DisplayCloses,
         FlushTakes, FlushCommits, FlushElsewhere
    <3>5. CASE LoopStep
      BY <3>1, <3>5 DEF LoopStep, LoopChecksBarrier, LoopReadsSnapshot, LoopLocks, LoopGates,
         LoopElsewhere, pipeline
    <3> QED BY <2>1, <3>2, <3>3, <3>4, <3>5 DEF NotDriver
  <2>2. CASE DriverStep
    BY <2>2 DEF DriverStep, WarmupFails, WarmupEnds, MissionEnds, DueTransition, RaiseBarrier,
       BeginTransition, SwapWorker, JoinWorker, ActivateEpoch, StartWorker, StartFails,
       CommitTransition, CommitThrows, CancelTransition, ProveFrame, ConfirmAdvanced,
       TransitionRejected, Slot, Queues, DrainQueues, Replaced
  <2> QED BY <2>1, <2>2 DEF Next, Over, NotDriver
<1> QED BY <1>2, <1>3, <1>4, <1>5

LEMMA RowsStep ==
  ASSUME TypeOK, FrameOrder, Handed, Outputs, Rows, [Next]_vars, Kept
  PROVE  Rows'
<1>1. \A f : Processed(f) => Processed(f)'
  BY DEF Processed, Kept
<1>2. CASE DisplayDrains
  <2>1. /\ shown' = alg2Disp[Len(alg2Disp)] /\ Len(alg2Disp) \in 1 .. Len(alg2Disp)
        /\ UNCHANGED <<batch, flushing, history, csnap>>
    <3>1. Len(alg2Disp) \in Nat \ {0}
      BY <1>2, OutputsTyped, EmptySeq DEF DisplayDrains
    <3> QED BY <1>2, <3>1 DEF DisplayDrains, DisplayElsewhere, Newest, loop
  <2>2. Processed(shown')
    BY <2>1, OutputsTyped DEF Outputs, MadeHere, Processed
  <2>3. shown' # None
    BY <2>2, MissionAssumption DEF Processed, Frames, None
  <2> QED BY <1>1, <2>1, <2>2, <2>3 DEF Rows
<1>3. CASE DisplayMergesOriginal
  <2>1. UNCHANGED <<shown, rowPending, flushing, history, csnap>>
    BY <1>3 DEF DisplayMergesOriginal, DisplayElsewhere, loop
  <2>2. Processed(batch')
    <3>1. CASE wpc = "push" /\ batch' = wframe
      BY <3>1, HandTyped DEF Handed, MadeHere, Processed
    <3>2. CASE batch' \in {alg2Disp[i] : i \in DOMAIN alg2Disp}
      <4>1. DOMAIN alg2Disp = 1 .. Len(alg2Disp)
        BY OutputsTyped, LenProperties
      <4> QED BY <3>2, <4>1, OutputsTyped DEF Outputs, MadeHere, Processed
    <3> QED BY <1>3, <3>1, <3>2 DEF DisplayMergesOriginal
  <2> QED BY <1>1, <2>1, <2>2 DEF Rows
<1>4. CASE DisplayMerges \/ FlushTakes \/ FlushCommits \/ DisplayCloses
  BY <1>1, <1>4 DEF DisplayMerges, FlushTakes, FlushCommits, DisplayCloses, DisplayElsewhere,
     FlushElsewhere, loop, Rows
<1>5. CASE LoopStep
  <2>1. UNCHANGED <<shown, rowPending, batch, flushing, history>>
    BY <1>5 DEF LoopStep, LoopChecksBarrier, LoopReadsSnapshot, LoopLocks, LoopGates,
       LoopElsewhere, pipeline
  <2>2. \/ csnap' = csnap
        \/ csnap' = 0
        \/ LatestSnapshot # None /\ csnap' = LatestFrameId
    <3>1. CASE LoopChecksBarrier BY <3>1 DEF LoopChecksBarrier
    <3>2. CASE LoopReadsSnapshot BY <3>2 DEF LoopReadsSnapshot
    <3>3. CASE LoopLocks BY <3>3 DEF LoopLocks, Skip
    <3>4. CASE LoopGates BY <3>4 DEF LoopGates, Evolve, Skip
    <3> QED BY <1>5, <3>1, <3>2, <3>3, <3>4 DEF LoopStep
  <2>3. ASSUME LatestSnapshot # None PROVE LatestFrameId # 0 => Processed(LatestFrameId)
    <3>1. Processed(LatestSnapshot)
      BY <2>3 DEF LatestSnapshot, Rows
    <3>2. LatestSnapshot \in Nat
      BY <3>1, MissionAssumption DEF Processed, Frames
    <3> QED BY <3>1, <3>2 DEF LatestFrameId, Larger
  <2> QED BY <1>1, <2>1, <2>2, <2>3 DEF Rows
<1>6. CASE CameraFrame \/ WorkerStep \/ WorkerStarves \/ DriverStep \/ UNCHANGED vars
  <2>1. UNCHANGED <<shown, rowPending, batch, flushing, history, csnap>>
    <3> USE DEF loop
    <3>1. CASE CameraFrame \/ UNCHANGED vars
      BY <3>1 DEF CameraFrame, vars, pipeline
    <3>2. CASE WorkerStep \/ WorkerStarves
      BY <3>2 DEF WorkerStep, WorkerStarves, WorkerExits, WorkerPops, WorkerContinues,
         WorkerSkips, WorkerDrained, WorkerProcesses, WorkerStampsFrame, WorkerStampsEpoch,
         WorkerPushes, WorkerElsewhere
    <3>3. CASE DriverStep
      BY <3>3 DEF DriverStep, WarmupFails, WarmupEnds, MissionEnds, DueTransition,
         RaiseBarrier, BeginTransition, SwapWorker, JoinWorker, ActivateEpoch, StartWorker,
         StartFails, CommitTransition, CommitThrows, CancelTransition, ProveFrame,
         ConfirmAdvanced, TransitionRejected, DriverElsewhere
    <3> QED BY <1>6, <3>1, <3>2, <3>3
  <2> QED BY <1>1, <2>1 DEF Rows
<1> QED BY <1>2, <1>3, <1>4, <1>5, <1>6 DEF Next, Over

-----------------------------------------------------------------------------
(***************************************************************************)
(* The epochs in which frames were processed.                              *)
(***************************************************************************)
ByEpoch ==
  \A f \in Frames : \A by \in processedBy[f] :
    \/ by[2] < gaEpoch
    \/ by = <<gaWorkload, gaEpoch>>
    \/ dpc = "commit" /\ by = <<workload, activeEpoch>>

InOrder ==
  \A f, h \in Frames :
    f < h => \A by \in processedBy[f], later \in processedBy[h] : by[2] <= later[2]

Eras == ByEpoch /\ InOrder

LEMMA ErasTyped ==
  TypeOK => /\ gaEpoch \in Nat /\ activeEpoch \in Nat
            /\ \A f \in Frames : f \in Int /\ \A by \in processedBy[f] : by[2] \in Nat
<1> SUFFICES ASSUME TypeOK
             PROVE  /\ gaEpoch \in Nat /\ activeEpoch \in Nat
                    /\ \A f \in Frames : f \in Int /\ \A by \in processedBy[f] : by[2] \in Nat
  OBVIOUS
<1>1. gaEpoch \in Nat /\ activeEpoch \in Nat
  BY DEF TypeOK
<1>2. \A f \in Frames : processedBy[f] \subseteq Workloads \X Nat
  BY DEF TypeOK
<1> QED BY <1>1, <1>2, FramesTyped

\* A worker with a frame in hand works in the epoch of the genetic algorithm,
\* or in the next, about to be committed.
LEMMA WorkerEpoch ==
  ASSUME TypeOK, Replaced, Slots, wpc # "exited"
  PROVE  \/ workload = gaWorkload /\ activeEpoch = gaEpoch
         \/ dpc = "commit" /\ activeEpoch = gaEpoch + 1
  BY DEF Slots, Labels, Epochs, Replaced

LEMMA ByEpochStep ==
  ASSUME TypeOK, FrameOrder, Replaced, Slots, Eras, [Next]_vars, Undisturbed'
  PROVE  ByEpoch'
<1>1. CASE WorkerProcesses
  <2>1. /\ \/ workload = gaWorkload /\ activeEpoch = gaEpoch
           \/ dpc = "commit" /\ activeEpoch = gaEpoch + 1
        /\ UNCHANGED <<workload, activeEpoch, gaWorkload, gaEpoch, dpc>>
    <3>1. NotDriver
      BY <1>1 DEF NotDriver, WorkerStep
    <3> QED BY <1>1, <3>1, WorkerEpoch, DriverAlone DEF WorkerProcesses, driverState
  <2>2. /\ processedBy'[wframe] = {<<workload, activeEpoch>>}
        /\ \A f \in Frames : f # wframe => processedBy'[f] = processedBy[f]
    BY <1>1, ProcessingEffect
  <2> QED BY <2>1, <2>2 DEF Eras, ByEpoch
<1>2. CASE NotDriver /\ ~WorkerProcesses
  BY <1>2, DriverAlone, OthersProcessNothing DEF driverState, Eras, ByEpoch
<1>3. CASE CommitTransition
  <2>1. /\ processedBy' = processedBy /\ gaEpoch' = gaEpoch + 1 /\ gaWorkload' = workload
        /\ dpc = "commit" /\ activeEpoch = gaEpoch + 1
    BY <1>3 DEF CommitTransition, DriverElsewhere, Slots, Labels, Epochs
  <2> QED BY <2>1, ErasTyped DEF Eras, ByEpoch
<1>4. CASE CommitThrows
  <2>1. /\ processedBy' = processedBy /\ UNCHANGED <<gaEpoch, gaWorkload>>
        /\ workload = gaWorkload /\ activeEpoch = gaEpoch
    BY <1>4, ErasTyped, ThrowsUnfaulted DEF CommitThrows, DriverElsewhere, Slots, Labels, Epochs,
       NoCommitFault
  <2> QED BY <2>1 DEF Eras, ByEpoch
<1>5. CASE DriverStep /\ ~CommitTransition /\ ~CommitThrows
  <2>1. processedBy' = processedBy /\ UNCHANGED <<gaEpoch, gaWorkload>> /\ dpc # "commit"
    BY <1>5 DEF DriverStep, WarmupFails, WarmupEnds, MissionEnds, DueTransition, RaiseBarrier,
       BeginTransition, SwapWorker, JoinWorker, ActivateEpoch, StartWorker, StartFails,
       CancelTransition, ProveFrame, ConfirmAdvanced, TransitionRejected, DriverElsewhere, Gates
  <2> QED BY <2>1 DEF Eras, ByEpoch
<1> QED BY <1>1, <1>2, <1>3, <1>4, <1>5 DEF Next, Over, NotDriver

LEMMA InOrderStep ==
  ASSUME TypeOK, FrameOrder, Replaced, Slots, Eras, [Next]_vars
  PROVE  InOrder'
<1>1. CASE WorkerProcesses
  <2>1. /\ wframe \in Frames
        /\ processedBy'[wframe] = {<<workload, activeEpoch>>}
        /\ \A f \in Frames : f # wframe => processedBy'[f] = processedBy[f]
    BY <1>1, ProcessingEffect
  <2>2. \A f \in Frames : \A by \in processedBy[f] : by[2] <= activeEpoch
    <3>1. activeEpoch >= gaEpoch
      BY <1>1, WorkerEpoch, ErasTyped DEF WorkerProcesses
    <3> QED BY <3>1, ErasTyped DEF Eras, ByEpoch
  <2>3. \A f \in Frames : processedBy[f] # {} => f < wframe
    BY <1>1 DEF FrameOrder, Behind, InHand, WorkerProcesses
  <2>4. SUFFICES ASSUME NEW f \in Frames, NEW h \in Frames, f < h,
                        NEW by \in processedBy'[f], NEW later \in processedBy'[h]
                 PROVE  by[2] <= later[2]
    BY DEF InOrder
  <2>5. CASE h = wframe
    <3>1. later[2] = activeEpoch /\ f # wframe
      BY <2>1, <2>4, <2>5, ErasTyped
    <3> QED BY <2>1, <2>2, <3>1
  <2>6. CASE h # wframe
    <3>1. h < wframe /\ f # wframe
      BY <2>1, <2>3, <2>4, <2>6, ErasTyped
    <3> QED BY <2>1, <2>4, <2>6, <3>1 DEF Eras, InOrder
  <2> QED BY <2>5, <2>6
<1>2. CASE ~WorkerProcesses
  BY <1>2, OthersProcessNothing DEF Eras, InOrder
<1> QED BY <1>1, <1>2

-----------------------------------------------------------------------------
(***************************************************************************)
(* The evidence of a transition.                                           *)
(***************************************************************************)
Own(f) == processedBy[f] = {<<gaWorkload, gaEpoch>>}

Evidence ==
  proven # 0 =>
    /\ dpc \in {"prove", "mission", "done", "failed"}
    /\ proven \in Frames /\ proven > frameBefore
    /\ target = gaWorkload /\ Own(proven)

LEMMA EvidenceStep ==
  ASSUME TypeOK, Slots, Stamps, Evidence, [Next]_vars, Kept
  PROVE  Evidence'
<1>1. proven # 0 => processedBy'[proven] = processedBy[proven]
  BY DEF Evidence, Own, Kept
<1>2. CASE NotDriver
  BY <1>1, <1>2, DriverAlone DEF driverState, Evidence, Own
<1>3. CASE ProveFrame
  <2>1. /\ proven' = processedFrame /\ processedFrame > frameBefore
        /\ UNCHANGED <<processedBy, dpc, target, gaWorkload, gaEpoch, frameBefore>>
        /\ dpc = "prove"
    BY <1>3 DEF ProveFrame, ReplacementFrame, DriverElsewhere, Gates, switch
  <2>2. processedFrame # 0 => processedFrame \in Frames /\ Own(processedFrame)
    BY <2>1 DEF Stamps, InSlot, Own, Slots, Labels, Epochs
  <2> QED BY <2>1, <2>2 DEF Evidence, Own, Slots, Labels
<1>4. CASE DueTransition
  BY <1>4 DEF DueTransition, Evidence
<1>5. CASE DriverStep /\ ~ProveFrame /\ ~DueTransition
  <2>1. /\ UNCHANGED <<proven, frameBefore>>
        /\ \/ dpc \notin {"prove", "mission", "done", "failed"}
           \/ /\ UNCHANGED <<target, gaWorkload, gaEpoch>>
              /\ dpc' \in {"prove", "mission", "done", "failed"}
    BY <1>5 DEF DriverStep, WarmupFails, WarmupEnds, MissionEnds, RaiseBarrier,
       BeginTransition, SwapWorker, JoinWorker, ActivateEpoch, StartWorker, StartFails,
       CommitTransition, CommitThrows, CancelTransition, ConfirmAdvanced, TransitionRejected,
       Gates, switch, evidence, Goto
  <2> QED BY <1>1, <2>1 DEF Evidence, Own
<1> QED BY <1>2, <1>3, <1>4, <1>5 DEF Next, Over, NotDriver

-----------------------------------------------------------------------------
(***************************************************************************)
(* The invariant, and what follows from it.                                *)
(***************************************************************************)
MissionInv ==
  TypeOK /\ BarrierInv /\ FrameOrder /\ RollsBack /\ Replaced /\ Handed /\ Outputs /\ Rows

\* What a commit that throws after it has assigned the workload's name breaks.
Agreement == Slots /\ Stamps /\ Eras /\ Evidence

WorkerInv == MissionInv /\ Agreement

LEMMA InitWorkerInv == Init => WorkerInv
<1> SUFFICES ASSUME Init PROVE WorkerInv
  OBVIOUS
<1>1. \A f \in Frames : processedBy[f] = {}
  BY DEF Init
<1>2. FrameOrder
  BY <1>1 DEF Init, FrameOrder, Delivered, Increasing, HandBehind, Behind, InHand
<1>3. RollsBack /\ Replaced /\ Slots
  BY DEF Init, RollsBack, Replaced, Slots, Labels, Epochs
<1>4. Handed /\ Outputs /\ Rows /\ Stamps /\ Evidence
  BY DEF Init, Handed, Outputs, Rows, Stamps, Evidence
<1>5. Eras
  BY <1>1 DEF Eras, ByEpoch, InOrder
<1>6. BarrierInv
  BY DEF Init, BarrierInv, InBarrier
<1> QED BY <1>2, <1>3, <1>4, <1>5, <1>6, InitTyped DEF WorkerInv, MissionInv, Agreement

LEMMA MissionInvStep == MissionInv /\ [Next]_vars => MissionInv'
<1> SUFFICES ASSUME MissionInv, [Next]_vars PROVE MissionInv'
  OBVIOUS
<1> USE DEF MissionInv
<1>1. Kept
  BY KeptStep
<1>2. TypeOK' /\ BarrierInv' /\ FrameOrder' /\ RollsBack' /\ Replaced'
  BY TypeStep, BarrierStep, FrameOrderStep, RollsBackStep, ReplacedStep
<1>3. Handed' /\ Outputs' /\ Rows'
  BY <1>1, HandedStep, OutputsStep, RowsStep
<1> QED BY <1>2, <1>3

LEMMA AgreementStep == WorkerInv /\ [Next]_vars /\ Undisturbed' => Agreement'
<1> SUFFICES ASSUME WorkerInv, [Next]_vars, Undisturbed' PROVE Agreement'
  OBVIOUS
<1> USE DEF WorkerInv, MissionInv, Agreement
<1>1. Kept
  BY KeptStep
<1>2. Slots' /\ Stamps' /\ Evidence'
  BY <1>1, SlotsStep, StampsStep, EvidenceStep
<1>3. Eras'
  BY ByEpochStep, InOrderStep DEF Eras
<1> QED BY <1>2, <1>3

\* The mission is sound to the end, and all agree until it is disturbed.
LEMMA WorkerInvariant == Spec => [](MissionInv /\ (Undisturbed => Agreement))
<1> DEFINE Both == MissionInv /\ (Undisturbed => Agreement)
<1>1. Init => Both
  BY InitWorkerInv DEF WorkerInv
<1>2. Both /\ [Next]_vars => Both'
  <2> SUFFICES ASSUME Both, [Next]_vars PROVE Both'
    OBVIOUS
  <2>1. MissionInv'
    BY MissionInvStep
  <2>2. ASSUME Undisturbed' PROVE Agreement'
    <3>1. Undisturbed
      BY <2>2, UndisturbedBefore DEF MissionInv
    <3> QED BY <2>2, <3>1, AgreementStep DEF WorkerInv
  <2> QED BY <2>1, <2>2
<1> QED BY <1>1, <1>2, PTL DEF Spec

\* Outside a transition the genetic algorithm's context is the label of the
\* worker, whatever failed before, but for a commit that threw: the barrier of
\* beginWorkloadTransition is lifted only by the commit and by the cancel, and
\* both leave them equal.
THEOREM ControllerFollows == Spec => [](Undisturbed => ControllerFollowsWorker)
<1>1. MissionInv /\ (Undisturbed => Agreement) => (Undisturbed => ControllerFollowsWorker)
  BY DEF MissionInv, Agreement, BarrierInv, InBarrier, Slots, Labels, ControllerFollowsWorker
<1> QED BY <1>1, WorkerInvariant, PTL

\* Outside a transition the pair of atomics processedFrame, processedEpoch does
\* name a frame of the genetic algorithm's workload and epoch, with the same
\* exception.
THEOREM StampIsTrue == Spec => [](Undisturbed => StampNamesWorkload)
<1>1. MissionInv /\ (Undisturbed => Agreement) => (Undisturbed => StampNamesWorkload)
  BY DEF MissionInv, Agreement, BarrierInv, InBarrier, Slots, Labels, Epochs, Stamps, InSlot,
     StampNamesWorkload
<1> QED BY <1>1, WorkerInvariant, PTL

\* The frame latched as the evidence of a transition is of the replacement and
\* newer than the last one seen before the transition, whatever fails.
THEOREM ProofIsNew == Spec => []ProvenFrameIsNew
<1>1. MissionInv /\ (Undisturbed => Agreement) => ProvenFrameIsNew
  <2> SUFFICES ASSUME MissionInv, Undisturbed => Agreement, proven # 0
               PROVE  proven > frameBefore /\ processedBy[proven] = {<<target, gaEpoch>>}
    BY DEF ProvenFrameIsNew
  <2>1. Undisturbed
    BY DEF MissionInv, RollsBack, Undisturbed
  <2> QED BY <2>1 DEF Agreement, Evidence, Own
<1> QED BY <1>1, WorkerInvariant, PTL

\* Whatever waits for the display was made by the worker in the slot, whatever
\* fails.
THEOREM OneWorkloadShown == Spec => []OutputsOfOneWorkload
<1>1. MissionInv => OutputsOfOneWorkload
  BY DEF MissionInv, Outputs, MadeHere, OutputsOfOneWorkload
<1> QED BY <1>1, WorkerInvariant, PTL

-----------------------------------------------------------------------------
(***************************************************************************)
(* The course of a mission.  What has to be excluded is a cancel after a   *)
(* commit, which takes the boundary of that commit away: there is none in  *)
(* a mission of two phases, nor in one where no switch can fail.           *)
(***************************************************************************)
Unbroken ==
  /\ Faults \cap {"configure", "start"} = {}
  /\ \A i \in 1 .. Len(Mission) - 1 : Mission[i] # Mission[i + 1]

Forgetless == Len(Mission) <= 2 \/ Unbroken

\* Any other mission has forgotten nothing as long as it has not failed: a
\* cancel fails the mission.
Intact == Undisturbed /\ (Forgetless \/ dpc # "failed")

Counting == gaEpoch <= phase /\ (dpc \notin {"prove", "failed"} => gaEpoch < phase)

Smooth ==
  /\ dpc \in {"warmup", "mission", "due", "begin", "swap", "join", "activate", "start"} =>
       workload = Mission[phase]
  /\ dpc \in {"due", "begin", "swap", "join", "activate", "start", "commit", "prove"} =>
       target = Mission[phase + 1]
  /\ dpc = "commit" => activeEpoch = gaEpoch + 1
  /\ dpc = "prove" => workload = Mission[phase + 1]
  /\ dpc # "cancel" /\ ~rollingBack

Course == Counting /\ (Unbroken => Smooth)

LEMMA CountingStep == ASSUME TypeOK, Counting, [Next]_vars PROVE Counting'
<1>1. gaEpoch \in Nat /\ phase \in Nat
  BY MissionAssumption DEF TypeOK
<1>2. CASE NotDriver
  BY <1>2, DriverAlone DEF driverState, Counting
<1>3. CASE CommitTransition
  BY <1>1, <1>3 DEF CommitTransition, Goto, Counting
<1>4. CASE ConfirmAdvanced
  BY <1>1, <1>4 DEF ConfirmAdvanced, Goto, Gates, Counting
<1>5. CASE DriverStep /\ ~CommitTransition /\ ~ConfirmAdvanced
  <2>1. /\ gaEpoch' = gaEpoch /\ phase' = phase
        /\ dpc \in {"prove", "failed"} => dpc' \in {"prove", "failed"}
    BY <1>5 DEF DriverStep, WarmupFails, WarmupEnds, MissionEnds, DueTransition, RaiseBarrier,
       BeginTransition, SwapWorker, JoinWorker, ActivateEpoch, StartWorker, StartFails,
       CommitThrows, CancelTransition, ProveFrame, TransitionRejected, Gates, Goto
  <2> QED BY <1>1, <2>1 DEF Counting
<1> QED BY <1>2, <1>3, <1>4, <1>5 DEF Next, Over, NotDriver

LEMMA SmoothStep ==
  ASSUME Unbroken, TypeOK, Slots, Smooth, [Next]_vars, Undisturbed'
  PROVE  Smooth'
<1>1. CASE NotDriver
  BY <1>1, DriverAlone DEF driverState, Smooth
<1>2. CASE DriverStep
  <2> USE DEF Smooth, DriverElsewhere, Queues, Slot, Gates, controls, barrier, switch,
      evidence, Goto, SwitchReturns
  <2>1. CASE WarmupFails BY <2>1 DEF WarmupFails
  <2>2. CASE WarmupEnds BY <2>2 DEF WarmupEnds
  <2>3. CASE MissionEnds BY <2>3 DEF MissionEnds
  <2>4. CASE DueTransition BY <2>4 DEF DueTransition
  <2>5. CASE RaiseBarrier BY <2>5 DEF RaiseBarrier
  <2>6. CASE BeginTransition BY <2>6 DEF BeginTransition
  <2>7. CASE SwapWorker
    <3>1. workload # target /\ "configure" \notin Faults
      <4>1. phase \in 1 .. Len(Mission) - 1
        BY <2>7, MissionAssumption DEF SwapWorker, TypeOK
      <4> QED BY <2>7, <4>1 DEF SwapWorker, Unbroken
    <3> QED BY <2>7, <3>1 DEF SwapWorker
  <2>8. CASE JoinWorker BY <2>8 DEF JoinWorker
  <2>9. CASE ActivateEpoch BY <2>9 DEF ActivateEpoch
  <2>10. CASE StartWorker BY <2>10 DEF StartWorker, Slots, Epochs
  <2>11. CASE StartFails BY <2>11 DEF StartFails, Unbroken
  <2>12. CASE CommitTransition BY <2>12 DEF CommitTransition, Slots, Labels
  <2>13. CASE CommitThrows 
    BY <2>13, ThrowsUnfaulted DEF CommitThrows, NoCommitFault, Slots, Epochs
  <2>14. CASE CancelTransition BY <2>14 DEF CancelTransition
  <2>15. CASE ProveFrame \/ TransitionRejected
    BY <2>15 DEF ProveFrame, TransitionRejected
  <2>16. CASE ConfirmAdvanced BY <2>16 DEF ConfirmAdvanced
  <2> QED BY <1>2, <2>1, <2>2, <2>3, <2>4, <2>5, <2>6, <2>7, <2>8, <2>9, <2>10, <2>11,
         <2>12, <2>13, <2>14, <2>15, <2>16 DEF DriverStep
<1> QED BY <1>1, <1>2 DEF Next, Over, NotDriver

\* Where nothing is forgotten, only the first transition can be cancelled.
LEMMA CancelsEarly ==
  ASSUME Forgetless, TypeOK, Course, dpc = "cancel"
  PROVE  gaEpoch = 0
<1>1. Len(Mission) <= 2
  BY DEF Forgetless, Course, Smooth
<1>2. phase < Len(Mission) /\ phase \in 1 .. Len(Mission) /\ Len(Mission) \in Nat
  BY MissionAssumption DEF TypeOK
<1>3. gaEpoch < phase /\ gaEpoch \in Nat
  BY DEF TypeOK, Course, Counting
<1> QED BY <1>1, <1>2, <1>3

-----------------------------------------------------------------------------
(***************************************************************************)
(* Learning.                                                               *)
(***************************************************************************)
Learned ==
  /\ floor > 0 => floor \in Frames /\ Own(floor)
  /\ minPost = 0 /\ gaEpoch > 0 => lastEvolved \in Frames /\ Own(lastEvolved)
  /\ cpc = "gate" => csnap > lastEvolved /\ csnap > 0

\* From a frame of the current epoch on, outside a commit, all frames are.
LEMMA OwnFrom ==
  ASSUME TypeOK, Eras, dpc # "commit", NEW f \in Frames, processedBy[f] # {},
         gaEpoch = 0 \/ (\E low \in Frames : Own(low) /\ low <= f)
  PROVE  Own(f)
<1>1. ASSUME NEW by \in processedBy[f] PROVE by = <<gaWorkload, gaEpoch>>
  <2>1. by[2] \in Nat /\ gaEpoch \in Nat
    BY ErasTyped
  <2>2. by[2] >= gaEpoch
    <3>1. CASE gaEpoch = 0
      BY <2>1, <3>1
    <3>2. ASSUME NEW low \in Frames, Own(low), low <= f PROVE by[2] >= gaEpoch
      <4>1. CASE low = f
        BY <2>1, <3>2, <4>1 DEF Own
      <4>2. CASE low # f
        <5>1. low < f /\ <<gaWorkload, gaEpoch>> \in processedBy[low]
          BY <3>2, <4>2, ErasTyped DEF Own
        <5>2. <<gaWorkload, gaEpoch>>[2] <= by[2]
          BY <5>1 DEF Eras, InOrder
        <5> QED BY <2>1, <5>2
      <4> QED BY <4>1, <4>2
    <3> QED BY <3>1, <3>2
  <2>3. ~(by[2] < gaEpoch)
    BY <2>1, <2>2
  <2> QED BY <2>3 DEF Eras, ByEpoch
<1> QED BY <1>1 DEF Own

\* In the part of the loop that holds the mutex no switch is under way.
LEMMA GateIsQuiet ==
  ASSUME WorkerInv, cpc = "gate"
  PROVE  /\ dpc # "commit"
         /\ processedFrame # 0 => processedFrame \in Frames /\ Own(processedFrame)
<1>1. dpc \notin {"start", "commit"}
  BY DEF WorkerInv, MissionInv, BarrierInv, InBarrier
<1> QED BY <1>1 DEF WorkerInv, Agreement, Slots, Labels, Epochs, Stamps, InSlot, Own

\* A frame that passes the gates was processed by the current worker.
LEMMA EvolvesOwn ==
  ASSUME WorkerInv, Learned, cpc = "gate", Evolve
  PROVE  csnap \in Frames /\ Own(csnap) /\ csnap > lastEvolved
<1>1. /\ TypeOK /\ Eras /\ dpc # "commit"
      /\ processedFrame # 0 => processedFrame \in Frames /\ Own(processedFrame)
  BY GateIsQuiet DEF WorkerInv, MissionInv, Agreement
<1>2. /\ csnap \in Nat /\ minPost \in Nat /\ floor \in Nat /\ lastEvolved \in Nat
      /\ processedFrame \in Nat /\ gaEpoch \in Nat
  BY <1>1 DEF TypeOK
<1>3. csnap > lastEvolved /\ csnap > 0
  BY DEF Learned
<1>4. csnap \in Frames /\ processedBy[csnap] # {}
  BY <1>2, <1>3 DEF WorkerInv, MissionInv, Rows, Processed
<1>5. CASE minPost > 0
  <2>1. Floor > 0 /\ csnap >= Floor
    BY <1>5 DEF Evolve, Acceptable
  <2>2. Floor \in Frames /\ Own(Floor)
    BY <1>1, <1>2, <2>1 DEF Floor, Learned, Evolve, Proved
  <2>3. Floor <= csnap
    BY <1>2, <2>1, <2>2, ErasTyped, <1>1
  <2> QED BY <1>1, <1>3, <1>4, <2>2, <2>3, OwnFrom
<1>6. CASE minPost = 0 /\ gaEpoch > 0
  <2>1. lastEvolved \in Frames /\ Own(lastEvolved) /\ lastEvolved <= csnap
    BY <1>2, <1>3, <1>6 DEF Learned
  <2> QED BY <1>1, <1>3, <1>4, <2>1, OwnFrom
<1>7. CASE gaEpoch = 0
  BY <1>1, <1>3, <1>4, <1>7, OwnFrom
<1> QED BY <1>2, <1>5, <1>6, <1>7

LEMMA LearnedStep ==
  ASSUME WorkerInv, Course, Learned, [Next]_vars, Kept, Intact'
  PROVE  Learned'
<1>1. TypeOK /\ Undisturbed'
  BY DEF WorkerInv, MissionInv, Intact
<1>2. /\ csnap \in Nat /\ minPost \in Nat /\ floor \in Nat /\ lastEvolved \in Nat
      /\ processedFrame \in Nat /\ gaEpoch \in Nat /\ boundary \in Nat
  BY <1>1 DEF TypeOK
<1>3. \A f \in Frames : Own(f) => processedBy'[f] = {<<gaWorkload, gaEpoch>>}
  BY DEF Own, Kept
<1>4. CASE LoopStep
  <2>1. gaWorkload' = gaWorkload /\ gaEpoch' = gaEpoch
    BY <1>4 DEF LoopStep, LoopChecksBarrier, LoopReadsSnapshot, LoopLocks, LoopGates,
       LoopElsewhere
  <2>2. CASE LoopChecksBarrier \/ LoopReadsSnapshot
    <3>1. UNCHANGED <<floor, minPost, lastEvolved>> /\ cpc' # "gate"
      BY <2>2 DEF LoopChecksBarrier, LoopReadsSnapshot
    <3> QED BY <1>3, <2>1, <3>1 DEF Learned, Own
  <2>3. CASE LoopLocks
    <3>1. /\ UNCHANGED <<floor, minPost, lastEvolved>>
          /\ cpc' = "gate" => csnap' = csnap /\ csnap # 0 /\ ~(csnap <= lastEvolved)
      BY <2>3 DEF LoopLocks, Skip, Refused, Stale
    <3> QED BY <1>2, <1>3, <2>1, <3>1 DEF Learned, Own
  <2>4. CASE LoopGates
    <3>1. cpc = "gate" /\ cpc' # "gate"
      BY <2>4 DEF LoopGates, Evolve, Skip
    <3>2. Floor > 0 => Floor \in Frames /\ Own(Floor)
      BY <1>2, <3>1, GateIsQuiet DEF Floor, Learned
    <3>3. CASE Evolve
      <4>1. csnap \in Frames /\ Own(csnap)
        BY <3>1, <3>3, EvolvesOwn
      <4>2. lastEvolved' = csnap /\ minPost' = 0 /\ floor' \in {0, Floor}
        BY <3>3 DEF Evolve
      <4> QED BY <1>3, <2>1, <3>1, <3>2, <4>1, <4>2 DEF Learned, Own
    <3>4. CASE ~Evolve
      <4>1. lastEvolved' = lastEvolved /\ minPost' = minPost /\ floor' \in {floor, Floor}
        BY <2>4, <3>4 DEF LoopGates, Skip
      <4> QED BY <1>3, <2>1, <3>1, <3>2, <4>1 DEF Learned, Own
    <3> QED BY <3>3, <3>4
  <2> QED BY <1>4, <2>2, <2>3, <2>4 DEF LoopStep
<1>5. CASE NotDriver /\ ~LoopStep
  <2>1. UNCHANGED <<learner, loop>>
    <3>1. CASE CameraFrame \/ UNCHANGED vars
      BY <3>1 DEF CameraFrame, vars
    <3>2. CASE WorkerStep \/ WorkerStarves
      BY <3>2 DEF WorkerStep, WorkerStarves, WorkerExits, WorkerPops, WorkerContinues,
         WorkerSkips, WorkerDrained, WorkerProcesses, WorkerStampsFrame, WorkerStampsEpoch,
         WorkerPushes, WorkerElsewhere
    <3>3. CASE DisplayDrains \/ DisplayMerges \/ DisplayMergesOriginal \/ DisplayCloses
               \/ FlushTakes \/ FlushCommits
      BY <3>3 DEF DisplayDrains, DisplayMerges, DisplayMergesOriginal, DisplayCloses,
         FlushTakes, FlushCommits, DisplayElsewhere, FlushElsewhere
    <3> QED BY <1>5, <3>1, <3>2, <3>3 DEF NotDriver
  <2> QED BY <1>3, <2>1 DEF learner, loop, Learned, Own
<1>6. CASE CommitTransition
  BY <1>2, <1>6 DEF CommitTransition, MinFrame, MutexFree, DriverElsewhere, loop, Learned
<1>7. CASE CancelTransition
  <2>1. gaEpoch = 0
    <3>1. Forgetless /\ dpc = "cancel"
      BY <1>7 DEF CancelTransition, Goto, Intact
    <3> QED BY <1>1, <3>1, CancelsEarly
  <2> QED BY <1>7, <2>1 DEF CancelTransition, MutexFree, DriverElsewhere, loop, Learned
<1>8. CASE DriverStep /\ ~CommitTransition /\ ~CancelTransition
  <2>1. UNCHANGED <<gaWorkload, gaEpoch, minPost, floor, lastEvolved, loop>>
    BY <1>1, <1>8, ThrowsUnfaulted DEF DriverStep, WarmupFails, WarmupEnds, MissionEnds, DueTransition, RaiseBarrier,
       BeginTransition, SwapWorker, JoinWorker, ActivateEpoch, StartWorker, StartFails,
       CommitThrows, ProveFrame, ConfirmAdvanced, TransitionRejected, Gates,
       DriverElsewhere, NoCommitFault
  <2> QED BY <1>3, <2>1 DEF loop, Learned, Own
<1> QED BY <1>4, <1>5, <1>6, <1>7, <1>8 DEF Next, Over, NotDriver

LearnInv == WorkerInv /\ Course /\ Learned

LEMMA InitLearnInv == Init => LearnInv
<1> SUFFICES ASSUME Init PROVE LearnInv
  OBVIOUS
<1>1. WorkerInv
  BY InitWorkerInv
<1>2. Counting /\ Smooth /\ Learned
  BY DEF Init, Counting, Smooth, Learned
<1> QED BY <1>1, <1>2 DEF LearnInv, Course

LEMMA LearnInvStep == LearnInv /\ [Next]_vars /\ Intact' => LearnInv'
<1> SUFFICES ASSUME LearnInv, [Next]_vars, Intact' PROVE LearnInv'
  OBVIOUS
<1> USE DEF LearnInv
<1>1. TypeOK /\ FrameOrder /\ Slots /\ Undisturbed'
  BY DEF WorkerInv, MissionInv, Agreement, Intact
<1>2. WorkerInv'
  BY <1>1, MissionInvStep, AgreementStep DEF WorkerInv
<1>3. Counting'
  BY <1>1, CountingStep DEF Course
<1>4. Unbroken => Smooth'
  BY <1>1, SmoothStep DEF Course
<1>5. Learned'
  BY <1>1, KeptStep, LearnedStep
<1>6. Course'
  BY <1>3, <1>4 DEF Course, Unbroken
<1> QED BY <1>2, <1>5, <1>6

LEMMA LearnInvariant == Spec /\ []Intact => []LearnInv
<1>1. Init => LearnInv
  BY InitLearnInv
<1>2. LearnInv /\ [Next]_vars /\ Intact' => LearnInv'
  BY LearnInvStep
<1> QED BY <1>1, <1>2, PTL DEF Spec

\* Only the gates of the loop make a generation or note a learned frame.
LEMMA OnlyEvolveLearns ==
  ASSUME [Next]_vars, <<generation, lastEvolved>>' # <<generation, lastEvolved>>
  PROVE  LoopGates /\ Evolve
<1>1. CASE LoopStep
  BY <1>1 DEF LoopStep, LoopChecksBarrier, LoopReadsSnapshot, LoopLocks, LoopGates, Skip
<1>2. CASE CameraFrame \/ UNCHANGED vars
  BY <1>2 DEF CameraFrame, vars, learner
<1>3. CASE WorkerStep \/ WorkerStarves
  BY <1>3 DEF WorkerStep, WorkerStarves, WorkerExits, WorkerPops, WorkerContinues, WorkerSkips,
     WorkerDrained, WorkerProcesses, WorkerStampsFrame, WorkerStampsEpoch, WorkerPushes,
     WorkerElsewhere, learner
<1>4. CASE DisplayDrains \/ DisplayMerges \/ DisplayMergesOriginal \/ DisplayCloses
           \/ FlushTakes \/ FlushCommits
  BY <1>4 DEF DisplayDrains, DisplayMerges, DisplayMergesOriginal, DisplayCloses, FlushTakes,
     FlushCommits, DisplayElsewhere, FlushElsewhere, learner
<1>5. CASE DriverStep
  BY <1>5 DEF DriverStep, WarmupFails, WarmupEnds, MissionEnds, DueTransition, RaiseBarrier,
     BeginTransition, SwapWorker, JoinWorker, ActivateEpoch, StartWorker, StartFails,
     CommitTransition, CommitThrows, CancelTransition, ProveFrame, ConfirmAdvanced,
     TransitionRejected, DriverElsewhere
<1> QED BY <1>1, <1>2, <1>3, <1>4, <1>5 DEF Next, Over

\* Whatever the two gates of controlLoop let through was processed by the
\* worker the genetic algorithm believes in, in the current epoch: in every
\* mission until it fails, and in a Forgetless one until a commit throws.
THEOREM LearnsOwn == Spec /\ []Intact => LearnsFromOwnFrames
<1>1. ASSUME LearnInv, [Next]_vars, generation' # generation
      PROVE  processedBy[lastEvolved'] = {<<gaWorkload, gaEpoch>>}
  <2>1. cpc = "gate" /\ Evolve /\ lastEvolved' = csnap
    BY <1>1, OnlyEvolveLearns DEF LoopGates, Evolve
  <2> QED BY <1>1, <2>1, EvolvesOwn DEF LearnInv, Own
<1>2. LearnInv /\ [Next]_vars =>
        [generation' # generation => processedBy[lastEvolved'] = {<<gaWorkload, gaEpoch>>}]_vars
  BY <1>1
<1> QED BY <1>2, LearnInvariant, PTL DEF Spec, LearnsFromOwnFrames

\* Where nothing can be forgotten and no commit throws, the gates are sound to
\* the end, also while a failed mission is being torn down.
COROLLARY AlwaysLearnsOwn == NoCommitFault /\ Forgetless => (Spec => LearnsFromOwnFrames)
<1> SUFFICES ASSUME NoCommitFault, Forgetless PROVE Spec => LearnsFromOwnFrames
  OBVIOUS
<1>1. Intact
  BY DEF Intact, Undisturbed
<1> QED BY <1>1, LearnsOwn, PTL

-----------------------------------------------------------------------------
(***************************************************************************)
(* The abstract learner.  The kernels produce, the gates learn, the commit *)
(* switches, and nothing else is a step of it.                             *)
(***************************************************************************)
LEMMA LearnerStep ==
  ASSUME LearnInv, [Next]_vars, Intact'
  PROVE  [Learner!Next]_(Learner!vars)
<1> USE DEF LearnInv
<1>1. TypeOK /\ FrameOrder /\ Replaced /\ Slots /\ Undisturbed'
  BY DEF WorkerInv, MissionInv, Agreement, Intact
<1>2. CASE WorkerProcesses
  <2>1. /\ wframe \in Frames /\ processedBy[wframe] = {}
        /\ processedBy' = [processedBy EXCEPT ![wframe] = {<<workload, activeEpoch>>}]
    BY <1>1, <1>2, ProcessingEffect DEF WorkerProcesses
  <2>2. workload \in Workloads /\ activeEpoch \in {gaEpoch, gaEpoch + 1}
    BY <1>1, <1>2, WorkerEpoch DEF TypeOK, WorkerProcesses
  <2>3. UNCHANGED <<gaWorkload, gaEpoch, generation, lastEvolved>>
    BY <1>2 DEF WorkerProcesses, WorkerElsewhere, learner
  <2>4. Learner!Produce(wframe)
    BY <2>1, <2>2, <2>3 DEF Learner!Produce
  <2> QED BY <2>1, <2>4 DEF Learner!Next
<1>3. CASE LoopGates /\ Evolve
  <2>1. csnap \in Frames /\ Own(csnap) /\ csnap > lastEvolved
    BY <1>3, EvolvesOwn DEF LoopGates
  <2>2. UNCHANGED <<gaWorkload, gaEpoch, processedBy>>
    BY <1>3 DEF LoopGates, LoopElsewhere, pipeline
  <2>3. Learner!Learn(csnap)
    BY <1>3, <2>1, <2>2 DEF Evolve, Own, Learner!Learn
  <2> QED BY <2>1, <2>3 DEF Learner!Next
<1>4. CASE CommitTransition
  <2>1. /\ gaWorkload' = target /\ gaEpoch' = gaEpoch + 1 /\ target \in Workloads
        /\ UNCHANGED <<processedBy, generation, lastEvolved>>
    BY <1>1, <1>4 DEF CommitTransition, DriverElsewhere, TypeOK
  <2>2. Learner!Switch(target)
    BY <2>1 DEF Learner!Switch
  <2> QED BY <2>1, <2>2 DEF Learner!Next
<1>5. CASE ~WorkerProcesses /\ ~(LoopGates /\ Evolve) /\ ~CommitTransition
  <2>1. UNCHANGED <<generation, lastEvolved, processedBy>>
    BY <1>5, OnlyEvolveLearns, OthersProcessNothing
  <2>2. UNCHANGED <<gaWorkload, gaEpoch>>
    <3>1. CASE NotDriver
      BY <3>1, DriverAlone DEF driverState
    <3>2. CASE DriverStep
      BY <1>1, <1>5, <3>2, ThrowsUnfaulted DEF DriverStep, WarmupFails, WarmupEnds, MissionEnds, DueTransition,
         RaiseBarrier, BeginTransition, SwapWorker, JoinWorker, ActivateEpoch, StartWorker,
         StartFails, CommitThrows, CancelTransition, ProveFrame, ConfirmAdvanced,
         TransitionRejected, Gates, NoCommitFault
    <3> QED BY <3>1, <3>2 DEF Next, Over, NotDriver
  <2> QED BY <2>1, <2>2 DEF Learner!vars
<1> QED BY <1>2, <1>3, <1>4, <1>5

\* The mission, with all its threads, is one learner that is never restarted
\* and learns in each context from that context's frames alone, as long as the
\* mission is intact.
THEOREM ImplementsLearner == Spec /\ []Intact => RefinesLearner
<1>1. Init => Learner!Init
  <2> SUFFICES ASSUME Init PROVE Learner!Init
    OBVIOUS
  <2>1. gaWorkload \in Workloads
    BY InitTyped DEF TypeOK
  <2> QED BY <2>1 DEF Init, Learner!Init
<1>2. LearnInv /\ [Next]_vars /\ Intact' => [Learner!Next]_(Learner!vars)
  BY LearnerStep
<1> QED BY <1>1, <1>2, LearnInvariant, PTL DEF Spec, RefinesLearner, Learner!Spec

\* The same to the end, where nothing can be forgotten and no commit throws.
COROLLARY AlwaysImplementsLearner == NoCommitFault /\ Forgetless => (Spec => RefinesLearner)
<1> SUFFICES ASSUME NoCommitFault, Forgetless PROVE Spec => RefinesLearner
  OBVIOUS
<1>1. Intact
  BY DEF Intact, Undisturbed
<1> QED BY <1>1, ImplementsLearner, PTL
=============================================================================
