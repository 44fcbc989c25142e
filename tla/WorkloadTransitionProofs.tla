---------------------- MODULE WorkloadTransitionProofs ----------------------
(***************************************************************************)
(* For every mission, every number of frames, all queue limits and every   *)
(* set of faults: the state stays well typed, and no generation is evolved *)
(* in the warm-up or inside the transition barrier.                        *)
(***************************************************************************)
EXTENDS WorkloadTransition, SequenceTheorems, TLAPS

\* What getLatestSnapshot reports to the driver is a frame number.
LEMMA LatestFrameTyped == TypeOK => LatestFrameId \in Nat
  BY DEF TypeOK, LatestFrameId, LatestSnapshot, Larger, Frames, None

\* The phases of the mission are workloads.
LEMMA MissionTyped == \A i \in 1 .. Len(Mission) : Mission[i] \in Workloads
<1> TAKE i \in 1 .. Len(Mission)
<1>1. Mission \in Seq(Workloads)
  BY MissionAssumption
<1> QED BY <1>1, ElementOfSeq

\* The camera's steps keep the state well typed.
LEMMA CameraTyped == TypeOK /\ CameraFrame => TypeOK'
<1> SUFFICES ASSUME TypeOK, CameraFrame PROVE TypeOK'
  OBVIOUS
<1>1. nextFrame \in Frames /\ nextFrame' \in 0 .. MaxFrame + 1
  <2>1. nextFrame \in 0 .. MaxFrame + 1 /\ nextFrame <= MaxFrame
    BY DEF TypeOK, CameraFrame
  <2> QED BY <2>1, MissionAssumption DEF CameraFrame, Frames
<1>2. cam2Alg' \in Seq(Frames)
  BY <1>1 DEF TypeOK, CameraFrame
<1> QED BY <1>1, <1>2 DEF TypeOK, CameraFrame, worker, controls, barrier, learner, loop,
       driver, switch, evidence

\* So do the worker's.
LEMMA WorkerTyped == TypeOK /\ (WorkerStep \/ WorkerStarves) => TypeOK'
<1> SUFFICES ASSUME TypeOK, WorkerStep \/ WorkerStarves PROVE TypeOK'
  OBVIOUS
<1> USE DEF TypeOK, WorkerElsewhere, controls, barrier, learner, loop, driver, switch,
    evidence, WorkerSteps
<1>1. CASE WorkerExits BY <1>1 DEF WorkerExits
<1>2. CASE WorkerStarves BY <1>2 DEF WorkerStarves
<1>3. CASE WorkerPops BY <1>3 DEF WorkerPops
<1>4. CASE WorkerContinues BY <1>4 DEF WorkerContinues
<1>5. CASE WorkerSkips BY <1>5 DEF WorkerSkips
<1>6. CASE WorkerDrained BY <1>6 DEF WorkerDrained
<1>7. CASE WorkerProcesses
  <2>1. processedBy[wframe] \cup {<<workload, activeEpoch>>} \in SUBSET (Workloads \X Nat)
    BY <1>7 DEF WorkerProcesses
  <2>2. processedBy' \in [Frames -> SUBSET (Workloads \X Nat)]
    BY <1>7, <2>1 DEF WorkerProcesses
  <2> QED BY <1>7, <2>2 DEF WorkerProcesses
<1>8. CASE WorkerStampsFrame BY <1>8 DEF WorkerStampsFrame, Frames
<1>9. CASE WorkerStampsEpoch BY <1>9 DEF WorkerStampsEpoch
<1>10. CASE WorkerPushes BY <1>10 DEF WorkerPushes
<1> QED BY <1>1, <1>2, <1>3, <1>4, <1>5, <1>6, <1>7, <1>8, <1>9, <1>10 DEF WorkerStep

\* And those of the display and of the aggregator's flush.
LEMMA DisplayTyped ==
  TypeOK /\ (DisplayDrains \/ DisplayMerges \/ DisplayMergesOriginal \/ DisplayCloses
               \/ FlushTakes \/ FlushCommits)
    => TypeOK'
<1> SUFFICES ASSUME TypeOK,
                    DisplayDrains \/ DisplayMerges \/ DisplayMergesOriginal \/ DisplayCloses
                      \/ FlushTakes \/ FlushCommits
             PROVE  TypeOK'
  OBVIOUS
<1> USE DEF TypeOK, DisplayElsewhere, FlushElsewhere, worker, controls, barrier, learner,
    loop, driver, switch, evidence
<1>1. CASE DisplayDrains
  <2>1. Newest(alg2Disp) \in Frames
    <3>1. alg2Disp \in Seq(Frames) /\ alg2Disp # <<>>
      BY <1>1 DEF DisplayDrains
    <3>2. Len(alg2Disp) \in 1 .. Len(alg2Disp)
      BY <3>1
    <3> QED BY <3>1, <3>2, ElementOfSeq DEF Newest
  <2>2. alg2Disp' \in Seq(Frames)
    BY <1>1 DEF DisplayDrains
  <2> QED BY <1>1, <2>1, <2>2 DEF DisplayDrains
<1>2. CASE DisplayMerges BY <1>2 DEF DisplayMerges
<1>3. CASE DisplayCloses BY <1>3 DEF DisplayCloses
<1>4. CASE FlushTakes BY <1>4 DEF FlushTakes
<1>5. CASE FlushCommits BY <1>5 DEF FlushCommits
<1>6. CASE DisplayMergesOriginal
  <2>1. batch' \in Frames
    BY <1>6 DEF DisplayMergesOriginal
  <2> QED BY <1>6, <2>1 DEF DisplayMergesOriginal
<1> QED BY <1>1, <1>2, <1>3, <1>4, <1>5, <1>6

\* And those of the control loop.
LEMMA LoopTyped == TypeOK /\ LoopStep => TypeOK'
<1> SUFFICES ASSUME TypeOK, LoopStep PROVE TypeOK'
  OBVIOUS
<1> USE DEF TypeOK, LoopElsewhere, LoopSteps, Skip, pipeline, worker, controls, barrier,
    driver, switch, evidence
<1>1. CASE LoopChecksBarrier BY <1>1 DEF LoopChecksBarrier
<1>2. CASE LoopReadsSnapshot BY <1>2, LatestFrameTyped DEF LoopReadsSnapshot
<1>3. CASE LoopLocks BY <1>3 DEF LoopLocks
<1>4. CASE LoopGates BY <1>4 DEF LoopGates, Evolve, Floor
<1> QED BY <1>1, <1>2, <1>3, <1>4 DEF LoopStep

\* And those of the mission driver.
LEMMA DriverTyped == TypeOK /\ (DriverStep \/ Over) => TypeOK'
<1> SUFFICES ASSUME TypeOK, DriverStep \/ Over PROVE TypeOK'
  OBVIOUS
<1> USE DEF TypeOK, DriverElsewhere, Queues, Slot, Gates, controls, barrier, switch,
    evidence, loop, Goto, SwitchReturns, DriverSteps
<1>1. CASE WarmupFails BY <1>1 DEF WarmupFails
<1>2. CASE WarmupEnds BY <1>2 DEF WarmupEnds
<1>3. CASE MissionEnds BY <1>3 DEF MissionEnds
<1>4. CASE DueTransition
  <2>1. Mission[phase + 1] \in Workloads
    BY <1>4, MissionTyped, MissionAssumption DEF DueTransition
  <2> QED BY <1>4, <2>1, LatestFrameTyped DEF DueTransition
<1>5. CASE RaiseBarrier BY <1>5 DEF RaiseBarrier
<1>6. CASE BeginTransition BY <1>6, LatestFrameTyped DEF BeginTransition, Larger
<1>7. CASE SwapWorker BY <1>7 DEF SwapWorker
<1>8. CASE JoinWorker BY <1>8 DEF JoinWorker
<1>9. CASE ActivateEpoch
  <2>1. cam2Alg' \in Seq(Frames) /\ alg2Disp' \in Seq(Frames)
    BY <1>9 DEF ActivateEpoch, DrainQueues
  <2> QED BY <1>9, <2>1 DEF ActivateEpoch, NoProofYet
<1>10. CASE StartWorker BY <1>10 DEF StartWorker, WorkerRuns, WorkerSteps
<1>11. CASE StartFails BY <1>11 DEF StartFails, WorkerRuns, WorkerSteps
<1>12. CASE CommitTransition
  <2>1. gaEpoch' \in Nat /\ minPost' \in Nat /\ floor' \in Nat
    BY <1>12 DEF CommitTransition, MinFrame
  <2> QED BY <1>12, <2>1 DEF CommitTransition
<1>13. CASE CommitThrows
  <2>1. gaWorkload' \in Workloads
    BY <1>13 DEF CommitThrows
  <2> QED BY <1>13, <2>1 DEF CommitThrows
<1>14. CASE CancelTransition BY <1>14 DEF CancelTransition
<1>15. CASE ProveFrame BY <1>15 DEF ProveFrame
<1>16. CASE ConfirmAdvanced BY <1>16, MissionAssumption DEF ConfirmAdvanced
<1>17. CASE TransitionRejected BY <1>17 DEF TransitionRejected
<1>18. CASE Over BY <1>18 DEF Over, vars, pipeline, worker, learner, driver
<1> QED BY <1>1, <1>2, <1>3, <1>4, <1>5, <1>6, <1>7, <1>8, <1>9, <1>10, <1>11, <1>12,
       <1>13, <1>14, <1>15, <1>16, <1>17, <1>18 DEF DriverStep

\* Every step keeps the state well typed.
LEMMA TypeStep == TypeOK /\ [Next]_vars => TypeOK'
<1>1. TypeOK /\ UNCHANGED vars => TypeOK'
  BY DEF TypeOK, vars, pipeline, worker, controls, barrier, learner, loop, driver, switch,
     evidence
<1> QED BY <1>1, CameraTyped, WorkerTyped, DisplayTyped, LoopTyped, DriverTyped DEF Next

\* The mission starts well typed.
LEMMA InitTyped == Init => TypeOK
<1> SUFFICES ASSUME Init PROVE TypeOK
  OBVIOUS
<1>1. Mission[1] \in Workloads /\ 1 \in 1 .. Len(Mission)
  BY MissionTyped, MissionAssumption
<1>2. cam2Alg \in Seq(Frames) /\ alg2Disp \in Seq(Frames)
  BY DEF Init
<1>3. processedBy \in [Frames -> SUBSET (Workloads \X Nat)]
  BY DEF Init
<1>4. nextFrame \in 0 .. MaxFrame + 1
  BY MissionAssumption DEF Init
<1> QED BY <1>1, <1>2, <1>3, <1>4 DEF Init, TypeOK, WorkerSteps, LoopSteps, DriverSteps

\* The state of the mission is always well typed.
THEOREM TypeCorrect == Spec => []TypeOK
  BY InitTyped, TypeStep, PTL DEF Spec
-----------------------------------------------------------------------------
(***************************************************************************)
(* The barrier.  From beginWorkloadTransition's lock on, the flag is up    *)
(* and the control loop is outside the part that holds gaMutex_; it cannot *)
(* enter it again, because it looks at the flag after taking the lock.     *)
(***************************************************************************)
BarrierInv ==
  /\ (InBarrier \/ dpc = "begin") => transitionInProgress
  /\ InBarrier => cpc # "gate" /\ generation = genBefore

\* Whoever else moves, the driver's side of the barrier stays as it was.
LEMMA BarrierStep == TypeOK /\ BarrierInv /\ [Next]_vars => BarrierInv'
<1> SUFFICES ASSUME TypeOK, BarrierInv, [Next]_vars PROVE BarrierInv'
  OBVIOUS
<1>1. CASE UNCHANGED vars
  BY <1>1 DEF BarrierInv, InBarrier, vars, barrier, learner, loop, driver, evidence
<1>2. CASE CameraFrame \/ WorkerStep \/ WorkerStarves
  BY <1>2 DEF BarrierInv, InBarrier, CameraFrame, WorkerStep, WorkerStarves, WorkerExits,
     WorkerPops, WorkerContinues, WorkerSkips, WorkerDrained, WorkerProcesses,
     WorkerStampsFrame, WorkerStampsEpoch, WorkerPushes, WorkerElsewhere, barrier,
     learner, loop, driver, evidence
<1>3. CASE DisplayDrains \/ DisplayMerges \/ DisplayMergesOriginal \/ DisplayCloses
           \/ FlushTakes \/ FlushCommits
  BY <1>3 DEF BarrierInv, InBarrier, DisplayDrains, DisplayMerges, DisplayMergesOriginal,
     DisplayCloses, FlushTakes, FlushCommits, DisplayElsewhere, FlushElsewhere, barrier, learner, loop,
     driver, evidence
<1>4. CASE LoopStep
  <2> USE DEF BarrierInv, InBarrier, LoopElsewhere, Skip, barrier, driver, evidence
  <2>1. CASE LoopChecksBarrier BY <2>1 DEF LoopChecksBarrier
  <2>2. CASE LoopReadsSnapshot BY <2>2 DEF LoopReadsSnapshot
  <2>3. CASE LoopLocks BY <2>3 DEF LoopLocks, Refused
  <2>4. CASE LoopGates BY <2>4 DEF LoopGates, Evolve
  <2> QED BY <1>4, <2>1, <2>2, <2>3, <2>4 DEF LoopStep
<1>5. CASE DriverStep
  <2> USE DEF BarrierInv, InBarrier, DriverElsewhere, loop, barrier, evidence, Goto,
      SwitchReturns
  <2>1. CASE WarmupFails BY <2>1 DEF WarmupFails
  <2>2. CASE WarmupEnds BY <2>2 DEF WarmupEnds
  <2>3. CASE MissionEnds BY <2>3 DEF MissionEnds
  <2>4. CASE DueTransition BY <2>4 DEF DueTransition
  <2>5. CASE RaiseBarrier BY <2>5 DEF RaiseBarrier
  <2>6. CASE BeginTransition BY <2>6 DEF BeginTransition, MutexFree
  <2>7. CASE SwapWorker BY <2>7 DEF SwapWorker
  <2>8. CASE JoinWorker BY <2>8 DEF JoinWorker
  <2>9. CASE ActivateEpoch BY <2>9 DEF ActivateEpoch
  <2>10. CASE StartWorker BY <2>10 DEF StartWorker
  <2>11. CASE StartFails BY <2>11 DEF StartFails
  <2>12. CASE CommitTransition BY <2>12 DEF CommitTransition
  <2>13. CASE CommitThrows BY <2>13 DEF CommitThrows
  <2>14. CASE CancelTransition BY <2>14 DEF CancelTransition
  <2>15. CASE ProveFrame \/ ConfirmAdvanced \/ TransitionRejected
    BY <2>15 DEF ProveFrame, ConfirmAdvanced, TransitionRejected
  <2> QED BY <1>5, <2>1, <2>2, <2>3, <2>4, <2>5, <2>6, <2>7, <2>8, <2>9, <2>10, <2>11,
         <2>12, <2>13, <2>14, <2>15 DEF DriverStep
<1> QED BY <1>1, <1>2, <1>3, <1>4, <1>5 DEF Next, Over

\* No generation is evolved in the warm-up, nor while the worker is replaced:
\* generation_before and generation_after of every transition are equal.
THEOREM BarrierHolds == Spec => []BarrierHoldsGeneration
<1>1. Init => BarrierInv
  BY DEF Init, BarrierInv, InBarrier
<1>2. BarrierInv => BarrierHoldsGeneration
  BY DEF BarrierInv, BarrierHoldsGeneration
<1> QED BY <1>1, <1>2, TypeCorrect, BarrierStep, PTL DEF Spec
=============================================================================
