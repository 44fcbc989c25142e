------------------------------ MODULE Scheduler ------------------------------
(***************************************************************************)
(* The scheduler: it turns the genome the genetic algorithm has selected    *)
(* and the latest measurements into controls for the worker and settings of *)
(* the hardware, under the thermal governor.  Settings are written only     *)
(* when they differ from what the scheduler remembers to have written, so   *)
(* what it remembers and what the hardware holds may part.  CPU and GPU     *)
(* clocks are in kHz; floors of the clocks, affinity, and the CPU governor  *)
(* are left out.                                                            *)
(***************************************************************************)
EXTENDS Integers

CONSTANTS
  cfg_,           \* the thermal profile: [caution, warning, critical, emergency, shutdown]
  Genomes,        \* [mode, prefer_gpu, split, cap, budget], the last in 0.1 W
  Temps,          \* readings, in degrees, the same for CPU and GPU
  FpsErrors       \* target_fps minus the measured fps

MaxCores == 4
CpuMin == 102000
CpuMax == 1479000
GpuMin == 76800
GpuMax == 921600
Deadband == 100000
LowPowerFloor == 460800

Modes == {"MAX_PERFORMANCE", "BALANCED", "LOW_POWER"}

ASSUME SchedulerAssumption ==
  /\ cfg_ \in [caution : Int, warning : Int, critical : Int, emergency : Int, shutdown : Int]
  /\ Genomes \subseteq [mode : Modes, prefer_gpu : BOOLEAN, split : 0 .. 10,
                        cap : Int, budget : Int]
  /\ Temps \subseteq Int /\ FpsErrors \subseteq Int

VARIABLES
  current_stage_, shutdown_initiated_,   \* the governor
  last,           \* last_core_count, last_cpu_freq, last_gpu_freq_val, last_gpu_enabled_
  dwelling,       \* the last GPU transition is at most 200 ms old
  hw,             \* cores online, ceilings of the CPU and the GPU clock
  rt,             \* RuntimeControls as far as the scheduler writes it
  restored        \* history: the settings at what the last reset() wrote

schedulerVars ==
  <<current_stage_, shutdown_initiated_, last, dwelling, hw, rt, restored>>

Settings == {"cores", "cpu", "gpu"}

SchedulerTypeOK ==
  /\ current_stage_ \in 0 .. 4 /\ shutdown_initiated_ \in BOOLEAN
  /\ last \in [cores : -1 .. MaxCores, cpu : -1 .. CpuMax, gpu : -1 .. GpuMax,
               gpuOn : BOOLEAN]
  /\ dwelling \in BOOLEAN
  /\ hw \in [cores : 1 .. MaxCores, cpu : CpuMin .. CpuMax, gpu : GpuMin .. GpuMax]
  /\ rt \in [concurrency_level : 1 .. MaxCores, enable_gpu : BOOLEAN,
             gpu_workload_split : 0 .. 10, commanded : 0 .. CpuMax]
  /\ restored \subseteq Settings

\* Whatever ran before may have left the hardware in any state; the first apply
\* writes every setting, so one state stands for them all.
SchedulerInit ==
  /\ current_stage_ = 0 /\ shutdown_initiated_ = FALSE
  /\ last = [cores |-> -1, cpu |-> -1, gpu |-> -1, gpuOn |-> TRUE]
  /\ dwelling = FALSE
  /\ hw = [cores |-> 3, cpu |-> CpuMax, gpu |-> GpuMax]
  /\ rt = [concurrency_level |-> 2, enable_gpu |-> TRUE,
           gpu_workload_split |-> 10, commanded |-> 0]
  /\ restored = {}

-----------------------------------------------------------------------------
(* The thermal governor *)

Clamp(n, low, high) == IF n < low THEN low ELSE IF n > high THEN high ELSE n

Stage(temp) ==
  IF temp > cfg_.emergency THEN 4 ELSE IF temp > cfg_.critical THEN 3
  ELSE IF temp > cfg_.warning THEN 2 ELSE IF temp > cfg_.caution THEN 1 ELSE 0

\* seeded: the GPU is revoked one stage late
LateRevocation(stage) == stage < 3
GpuAllowed(stage) == stage < 2

\* It answers TRUE once in the life of the governor.
ShouldShutdown(temp) == temp > cfg_.shutdown /\ ~shutdown_initiated_

-----------------------------------------------------------------------------
(* The three policies, as what each one asks for *)

GpuClock(on) == IF on THEN GpuMax ELSE GpuMin

\* Above 75 degrees 20 % are taken off a clock, above 80 another 50 %.
Throttled(clock, temp, low, high) ==
  LET warm == IF temp > 75 THEN Clamp((clock * 8) \div 10, low, high) ELSE clock
  IN  IF temp > 80 THEN Clamp(warm \div 2, low, high) ELSE warm

MaxPerf(g) ==
  [cores |-> MaxCores, gpuOn |-> g.prefer_gpu,
   cpu |-> Clamp(g.cap, CpuMin, CpuMax), gpu |-> GpuClock(g.prefer_gpu)]

LowPower(g) ==
  [cores |-> IF g.budget < 35 THEN 1 ELSE 2, gpuOn |-> g.prefer_gpu,
   cpu |-> Clamp(g.cap, LowPowerFloor, CpuMax), gpu |-> GpuClock(g.prefer_gpu)]

\* seeded: the step of the concurrency is not clamped
StepUnclamped(err) ==
  rt.concurrency_level + (IF err > 2 THEN 1 ELSE IF err < -5 THEN -1 ELSE 0)
NextConcurrency(err) ==
  Clamp(rt.concurrency_level + (IF err > 2 THEN 1 ELSE IF err < -5 THEN -1 ELSE 0),
        1, MaxCores)

\* seeded: the evolved ceiling is ignored
GeneForgotten(g, err) == IF err > 0 THEN CpuMax ELSE 1035299
\* The controller's ceiling (70 % of the maximum once the target is met), below
\* the evolved one.
BalancedCap(g, err) ==
  LET pid == IF err > 0 THEN CpuMax ELSE 1035299
      gene == Clamp(g.cap, CpuMin, CpuMax)
  IN  IF gene < pid THEN gene ELSE pid

Balanced(g, err, temp) ==
  [cores |-> NextConcurrency(err), gpuOn |-> g.prefer_gpu,
   cpu |-> Throttled(BalancedCap(g, err), temp, CpuMin, CpuMax),
   gpu |-> Throttled(GpuClock(g.prefer_gpu), temp, GpuMin, GpuMax)]

\* The genome as the governor lets it through: `forced` by the one-shot shutdown.
Adjusted(g, temp, forced) ==
  LET revoked == forced \/ ~GpuAllowed(Stage(temp))
  IN  [g EXCEPT !.mode = IF forced THEN "LOW_POWER" ELSE @,
                !.prefer_gpu = @ /\ ~revoked,
                !.split = IF revoked THEN 0 ELSE @]

Asked(g, err, temp) ==
  CASE g.mode = "MAX_PERFORMANCE" -> MaxPerf(g)
    [] g.mode = "LOW_POWER"       -> LowPower(g)
    [] g.mode = "BALANCED"        -> Balanced(g, err, temp)

-----------------------------------------------------------------------------
(* Writing the settings *)

Distance(m, n) == IF m < n THEN n - m ELSE m - n

\* MAX_PERFORMANCE writes the cores always; BALANCED leaves a clock that is near.
WritesCores(mode, a) == mode = "MAX_PERFORMANCE" \/ a.cores # last.cores
WritesCpu(mode, a) ==
  IF mode = "BALANCED" THEN Distance(a.cpu, last.cpu) > Deadband ELSE a.cpu # last.cpu
WritesGpu(a)  == a.gpu # last.gpu
\* applyGpuStateOnce: at most one transition in 200 ms.
SwitchesGpu(a) == a.gpuOn # last.gpuOn /\ ~dwelling

Wrote(mode, a) ==
  {s \in Settings : \/ s = "cores" /\ WritesCores(mode, a)
                    \/ s = "cpu"   /\ WritesCpu(mode, a)
                    \/ s = "gpu"   /\ (WritesGpu(a) \/ SwitchesGpu(a))}

\* seeded: MAX_PERFORMANCE does not remember that it put four cores online
Forgetful(mode, a) ==
  [cores |-> IF mode = "MAX_PERFORMANCE" THEN last.cores ELSE a.cores,
   cpu   |-> IF WritesCpu(mode, a) THEN a.cpu ELSE last.cpu,
   gpu   |-> a.gpu,
   gpuOn |-> IF SwitchesGpu(a) THEN a.gpuOn ELSE last.gpuOn]
Remembered(mode, a) ==
  [cores |-> a.cores,
   cpu   |-> IF WritesCpu(mode, a) THEN a.cpu ELSE last.cpu,
   gpu   |-> a.gpu,
   gpuOn |-> IF SwitchesGpu(a) THEN a.gpuOn ELSE last.gpuOn]

\* The ceilings the file system is left with: the clock of applyGpuStateOnce is
\* overwritten by that of the policy, when the policy writes one.
Written(mode, a) ==
  [cores |-> IF WritesCores(mode, a) THEN a.cores ELSE hw.cores,
   cpu   |-> IF WritesCpu(mode, a) THEN a.cpu ELSE hw.cpu,
   gpu   |-> IF WritesGpu(a) THEN a.gpu
             ELSE IF SwitchesGpu(a) THEN GpuClock(a.gpuOn) ELSE hw.gpu]

\* What a policy does: the controls of the worker, then the settings.
Actuate(mode, a) ==
  /\ hw' = Written(mode, a)
  /\ last' = Remembered(mode, a)
  /\ rt' = [rt EXCEPT !.concurrency_level = a.cores, !.enable_gpu = a.gpuOn,
                      !.commanded = last'.cpu]
  /\ dwelling' = (dwelling \/ SwitchesGpu(a))
  /\ restored' = restored \ Wrote(mode, a)
  /\ UNCHANGED <<current_stage_, shutdown_initiated_>>

\* What apply() does before: the governor's tick and the split of the work.
Govern(temp, split) ==
  /\ current_stage_' = Stage(temp)
  /\ shutdown_initiated_' = (shutdown_initiated_ \/ ShouldShutdown(temp))
  /\ rt' = [rt EXCEPT !.gpu_workload_split = split]
  /\ UNCHANGED <<last, dwelling, hw, restored>>

\* 200 ms have passed since the last GPU transition.
DwellEnds ==
  /\ dwelling /\ dwelling' = FALSE
  /\ UNCHANGED <<current_stage_, shutdown_initiated_, last, hw, rt, restored>>

\* reset(): full settings, but neither what is remembered nor the controls.
Reset ==
  /\ hw' = [cores |-> MaxCores, cpu |-> CpuMax, gpu |-> GpuMax]
  /\ restored' = Settings
  /\ UNCHANGED <<current_stage_, shutdown_initiated_, last, dwelling, rt>>
=============================================================================
