----------------------------- MODULE Actuation -------------------------------
(***************************************************************************)
(* From a decision to its effect.  The control thread lets the scheduler    *)
(* apply the selected genome and then publishes the number of the action;   *)
(* the worker thread looks at the number with every frame, at the controls  *)
(* with every AdaptEvery-th, and times how long an action takes to arrive.  *)
(***************************************************************************)
EXTENDS Scheduler

CONSTANTS
  AdaptEvery,     \* frames between two looks at the controls: 10 in the code
  MaxActions      \* bound on the actions applied

ASSUME ActuationAssumption == AdaptEvery \in Nat \ {0} /\ MaxActions \in Nat

VARIABLES
  pc, mode, asked,          \* controlLoop inside evolve(): its step and its locals
  reading,                  \* the temperature and the genome of this apply
  generation_,
  endTaken,                 \* applies whose end has been timed; stands for the clock
  action_apply_end_ns,      \* RuntimeControls: the apply it times
  action_generation,
  wpc, useGPU, adaptationCounter,
  epoch, observedAt,        \* the worker's locals: action number, clock
  algorithm_observed_generation,
  response,                 \* action_response_generation, and the apply timed from
  lag                       \* history: GPU frames since the GPU was switched off

controlVars == <<pc, mode, asked, reading, generation_, endTaken,
                 action_apply_end_ns, action_generation>>
workerVars  == <<wpc, useGPU, adaptationCounter, epoch, observedAt,
                 algorithm_observed_generation, response, lag>>
vars == <<schedulerVars, controlVars, workerVars>>

Nothing == [cores |-> 1, gpuOn |-> FALSE, cpu |-> CpuMin, gpu |-> GpuMin]

TypeOK ==
  /\ SchedulerTypeOK
  /\ pc \in {"idle", "governed", "applied", "stored"}
  /\ mode \in Modes
  /\ asked \in [cores : 1 .. MaxCores, gpuOn : BOOLEAN,
                cpu : CpuMin .. CpuMax, gpu : GpuMin .. GpuMax]
  /\ reading \in [temp : Temps \cup {0}, cap : Int]
  /\ generation_ \in 0 .. MaxActions /\ endTaken \in 0 .. MaxActions
  /\ action_apply_end_ns \in 0 .. MaxActions /\ action_generation \in 0 .. MaxActions
  /\ wpc \in {"take", "observe", "respond", "process"}
  /\ useGPU \in BOOLEAN /\ adaptationCounter \in 0 .. AdaptEvery - 1
  /\ epoch \in 0 .. MaxActions /\ observedAt \in 0 .. MaxActions
  /\ algorithm_observed_generation \in 0 .. MaxActions
  /\ response \in [gen : 0 .. MaxActions, from : 0 .. MaxActions]
  /\ lag \in 0 .. AdaptEvery + 1

Init ==
  /\ SchedulerInit
  /\ pc = "idle" /\ mode = "BALANCED" /\ asked = Nothing
  /\ reading = [temp |-> 0, cap |-> CpuMax]
  /\ generation_ = 0 /\ endTaken = 0 /\ action_apply_end_ns = 0 /\ action_generation = 0
  /\ wpc = "take" /\ useGPU \in BOOLEAN /\ adaptationCounter = 0
  /\ epoch = 0 /\ observedAt = 0 /\ algorithm_observed_generation = 0
  /\ response = [gen |-> 0, from |-> 0]
  /\ lag = 0

-----------------------------------------------------------------------------
(* The control thread *)

\* apply() begins: the governor's tick, and the split is published at once.
Decide ==
  /\ pc = "idle" /\ generation_ < MaxActions
  /\ \E g \in Genomes, err \in FpsErrors, temp \in Temps :
       LET forced == ShouldShutdown(temp)
           adj == Adjusted(g, temp, forced)
       IN  /\ Govern(temp, adj.split)
           /\ mode' = adj.mode /\ asked' = Asked(adj, err, temp)
           /\ reading' = [temp |-> temp, cap |-> g.cap]
  /\ pc' = "governed"
  /\ UNCHANGED <<generation_, endTaken, action_apply_end_ns, action_generation, workerVars>>

\* apply() ends, with the policy's controls and settings; then applyEndNs, a
\* local variable, is read off the clock.
Apply ==
  /\ pc = "governed" /\ Actuate(mode, asked)
  /\ endTaken' = generation_ + 1
  /\ pc' = "applied" /\ asked' = Nothing
  /\ lag' = IF asked.gpuOn THEN 0 ELSE lag
  /\ UNCHANGED <<mode, reading, generation_, action_apply_end_ns, action_generation,
                 wpc, useGPU, adaptationCounter, epoch, observedAt,
                 algorithm_observed_generation, response>>

\* seeded: the number of the action is released before the end of its apply
NumberFirst ==
  /\ \/ /\ pc = "applied" /\ action_generation' = generation_ + 1
        /\ pc' = "stored" /\ UNCHANGED <<action_apply_end_ns, generation_>>
     \/ /\ pc = "stored" /\ action_apply_end_ns' = endTaken
        /\ generation_' = generation_ + 1
        /\ pc' = "idle" /\ UNCHANGED action_generation
  /\ UNCHANGED <<mode, asked, reading, endTaken, workerVars, schedulerVars>>

\* The end is stored, then the number of the action is released, and the
\* generation is over.
Publish ==
  /\ \/ /\ pc = "applied" /\ action_apply_end_ns' = endTaken
        /\ pc' = "stored" /\ UNCHANGED <<action_generation, generation_>>
     \/ /\ pc = "stored" /\ action_generation' = generation_ + 1
        /\ generation_' = generation_ + 1
        /\ pc' = "idle" /\ UNCHANGED action_apply_end_ns
  /\ UNCHANGED <<mode, asked, reading, endTaken, workerVars, schedulerVars>>

\* Twenty unusable snapshots in a row, half a second apart: the emergency recovery.
Recover == pc = "idle" /\ ~dwelling /\ Reset /\ UNCHANGED <<controlVars, workerVars>>

-----------------------------------------------------------------------------
(* The worker thread, one iteration per valid frame *)

\* seeded: the GPU setting is taken over only together with a new concurrency
AdaptedWithCores(counter) ==
  IF counter = 0 /\ rt.concurrency_level # 2 THEN rt.enable_gpu ELSE useGPU
Adapted(counter) == IF counter = 0 THEN rt.enable_gpu ELSE useGPU

\* A frame is popped; with every AdaptEvery-th the controls are taken over.
Take ==
  /\ wpc = "take"
  /\ adaptationCounter' = (adaptationCounter + 1) % AdaptEvery
  /\ useGPU' = Adapted(adaptationCounter')
  /\ epoch' = action_generation
  /\ wpc' = IF action_generation \notin {0, algorithm_observed_generation}
            THEN "observe" ELSE "process"
  /\ UNCHANGED <<observedAt, algorithm_observed_generation, response, lag,
                 controlVars, schedulerVars>>

\* The clock is read and the number noted as observed.
Observe ==
  /\ wpc = "observe" /\ observedAt' = endTaken
  /\ algorithm_observed_generation' = epoch
  /\ wpc' = "respond"
  /\ UNCHANGED <<useGPU, adaptationCounter, epoch, response, lag, controlVars, schedulerVars>>

\* The response is reported, unless the end stored is later than the clock read.
Respond ==
  /\ wpc = "respond"
  /\ response' = IF action_apply_end_ns \in 1 .. observedAt
                 THEN [gen |-> epoch, from |-> action_apply_end_ns] ELSE response
  /\ wpc' = "process"
  /\ UNCHANGED <<useGPU, adaptationCounter, epoch, observedAt,
                 algorithm_observed_generation, lag, controlVars, schedulerVars>>

\* The frame is processed; when a kernel fails the GPU is given up until the
\* controls are looked at again.
Process ==
  /\ wpc = "process"
  /\ lag' = IF useGPU /\ ~rt.enable_gpu /\ lag <= AdaptEvery THEN lag + 1 ELSE lag
  /\ useGPU' \in {useGPU, FALSE}
  /\ wpc' = "take" /\ epoch' = 0 /\ observedAt' = 0
  /\ UNCHANGED <<adaptationCounter, algorithm_observed_generation,
                 response, controlVars, schedulerVars>>

Next ==
  \/ Decide \/ Apply \/ Publish \/ Recover
  \/ DwellEnds /\ UNCHANGED <<controlVars, workerVars>>
  \/ Take \/ Observe \/ Respond \/ Process

Spec == Init /\ [][Next]_vars

-----------------------------------------------------------------------------
(* Properties *)

Applied == pc # "governed" /\ generation_ + (IF pc = "idle" THEN 0 ELSE 1) > 0
\* Between two applies the hardware has as many cores online as the worker is
\* told to use threads, and the ceiling the scheduler says it commanded, unless
\* reset() has set it and nothing was written since: the caches that spare the
\* writes never claim a setting the hardware does not have.
RunsWhatItSays ==
  Applied =>
    /\ "cores" \notin restored => hw.cores = rt.concurrency_level
    /\ "cpu" \notin restored => hw.cpu = rt.commanded

\* Once the governor has seen a temperature above `warning`, the apply that saw
\* it leaves the GPU off, its share of the work zero and its clock at the minimum,
\* whatever was applied before it and however short the time since a GPU switch.
HotGpuIsOff ==
  Applied /\ reading.temp > cfg_.warning =>
    /\ ~rt.enable_gpu /\ rt.gpu_workload_split = 0
    /\ "gpu" \notin restored => hw.gpu = GpuMin

\* The CPU never runs above the evolved ceiling, nor in BALANCED mode above what
\* heat allows, by more than the deadband that spares small writes.
CeilingsHold ==
  Applied /\ "cpu" \notin restored =>
    LET floor == IF mode = "LOW_POWER" THEN LowPowerFloor ELSE CpuMin
        gene == IF reading.cap < floor THEN floor ELSE reading.cap
    IN  IF mode # "BALANCED" THEN hw.cpu <= gene
        ELSE /\ hw.cpu <= gene + Deadband
             /\ reading.temp > 75 => hw.cpu <= 1183200 + Deadband
             /\ reading.temp > 80 => hw.cpu <= 591600 + Deadband

\* A response is never timed from an apply older than the action it is reported
\* for: the end of the apply is stored before its number is released.
ResponseMeasuredFromItsAction == response.from >= response.gen

\* After the GPU was switched off at most AdaptEvery frames still run on it.
GpuSettingCatchesUp == lag <= AdaptEvery
=============================================================================
