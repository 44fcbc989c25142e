-------------------------- MODULE ActuationProofs ----------------------------
(***************************************************************************)
(* Proofs about Actuation, for every thermal profile, set of genomes, of    *)
(* temperatures and of frame-rate errors, every AdaptEvery and every number *)
(* of actions.                                                              *)
(***************************************************************************)
EXTENDS Actuation, TLAPS

Genes   == [mode : Modes, prefer_gpu : BOOLEAN, split : 0 .. 10, cap : Int, budget : Int]
Demands == [cores : 1 .. MaxCores, gpuOn : BOOLEAN,
            cpu : CpuMin .. CpuMax, gpu : GpuMin .. GpuMax]

-----------------------------------------------------------------------------
(* What a policy asks for *)

\* The limits, as inequalities: an equation with a literal would make the
\* provers enumerate the ranges between two of them.
LEMMA Limits ==
  /\ CpuMin \in Int /\ CpuMin <= 102000 /\ CpuMin >= 102000
  /\ CpuMax \in Int /\ CpuMax <= 1479000 /\ CpuMax >= 1479000
  /\ GpuMin \in Int /\ GpuMin <= 76800 /\ GpuMin >= 76800
  /\ GpuMax \in Int /\ GpuMax <= 921600 /\ GpuMax >= 921600
  /\ Deadband \in Int /\ Deadband <= 100000 /\ Deadband >= 100000
  /\ LowPowerFloor \in Int /\ LowPowerFloor <= 460800 /\ LowPowerFloor >= 460800
  BY SMT DEF CpuMin, CpuMax, GpuMin, GpuMax, Deadband, LowPowerFloor

\* What heat allows the CPU's clock to be.
WithinHeat(clock, temp) ==
  (temp > 75 => clock <= 1183200) /\ (temp > 80 => clock <= 591600)

\* Throttling keeps a clock between its limits, and takes off what it says.
LEMMA ThrottledCpu ==
  ASSUME NEW clock \in CpuMin .. CpuMax, NEW temp \in Int
  PROVE  /\ Throttled(clock, temp, CpuMin, CpuMax) \in CpuMin .. CpuMax
         /\ Throttled(clock, temp, CpuMin, CpuMax) <= clock
         /\ WithinHeat(Throttled(clock, temp, CpuMin, CpuMax), temp)
<1> DEFINE fifth == (clock * 8) \div 10
           warm == IF temp > 75 THEN Clamp(fifth, CpuMin, CpuMax) ELSE clock
           half == warm \div 2
<1>1. fifth \in Int /\ fifth <= clock /\ fifth <= 1183200
  BY Limits, SMT
<1>2. /\ warm \in CpuMin .. CpuMax /\ warm <= clock
      /\ temp > 75 => warm <= 1183200
  <2> HIDE DEF fifth
  <2> QED  BY <1>1, Limits, SMT DEF Clamp
<1>3. /\ half \in Int /\ half <= warm
      /\ temp > 75 => half <= 591600
  <2> HIDE DEF warm
  <2> QED  BY <1>2, Limits, SMT
<1>4. Throttled(clock, temp, CpuMin, CpuMax)
        = IF temp > 80 THEN Clamp(half, CpuMin, CpuMax) ELSE warm
  BY DEF Throttled
<1> HIDE DEF half, warm
<1> QED  BY <1>2, <1>3, <1>4, Limits, SMT DEF Clamp, WithinHeat

\* The GPU's clock is at the minimum exactly when the GPU is off.
LEMMA ThrottledGpu ==
  ASSUME NEW on \in BOOLEAN, NEW temp \in Int
  PROVE  /\ Throttled(GpuClock(on), temp, GpuMin, GpuMax) \in GpuMin .. GpuMax
         /\ Throttled(GpuClock(on), temp, GpuMin, GpuMax) = GpuMin <=> ~on
<1> DEFINE clock == GpuClock(on)
           fifth == (clock * 8) \div 10
           warm == IF temp > 75 THEN Clamp(fifth, GpuMin, GpuMax) ELSE clock
           half == warm \div 2
<1>1. clock = IF on THEN GpuMax ELSE GpuMin
  BY DEF GpuClock
<1>2. /\ fifth \in Int /\ fifth <= clock
      /\ on => fifth >= 737280
  <2> HIDE DEF clock
  <2> QED  BY <1>1, Limits, SMT
<1>3. /\ warm \in GpuMin .. GpuMax
      /\ IF on THEN warm >= 737280 ELSE warm = GpuMin
  <2> HIDE DEF clock, fifth
  <2> QED  BY <1>1, <1>2, Limits, SMT DEF Clamp
<1>4. /\ half \in Int /\ half <= warm
      /\ on => half >= 368640
  <2> HIDE DEF warm
  <2> QED  BY <1>3, Limits, SMT
<1>5. Throttled(clock, temp, GpuMin, GpuMax)
        = IF temp > 80 THEN Clamp(half, GpuMin, GpuMax) ELSE warm
  BY DEF Throttled
<1> HIDE DEF clock, half, warm
<1>6. /\ Throttled(clock, temp, GpuMin, GpuMax) \in GpuMin .. GpuMax
      /\ Throttled(clock, temp, GpuMin, GpuMax) = GpuMin <=> ~on
  BY <1>3, <1>4, <1>5, Limits, SMT DEF Clamp
<1> QED  BY <1>6 DEF clock

\* The governor's changes leave a genome, revoke the GPU above `warning`, and
\* keep the ceiling.
LEMMA AdjustedIsGenome ==
  ASSUME NEW g \in Genes, NEW temp \in Int, NEW forced \in BOOLEAN
  PROVE  /\ Adjusted(g, temp, forced) \in Genes
         /\ Adjusted(g, temp, forced).cap = g.cap
         /\ temp > cfg_.warning => /\ ~Adjusted(g, temp, forced).prefer_gpu
                                   /\ Adjusted(g, temp, forced).split = 0
<1> DEFINE revoked == forced \/ ~GpuAllowed(Stage(temp))
           adj == Adjusted(g, temp, forced)
<1>1. adj = [g EXCEPT !.mode = IF forced THEN "LOW_POWER" ELSE @,
                      !.prefer_gpu = @ /\ ~revoked, !.split = IF revoked THEN 0 ELSE @]
  BY DEF Adjusted
<1>2. /\ g.mode \in Modes /\ g.prefer_gpu \in BOOLEAN /\ g.split \in 0 .. 10
      /\ g.cap \in Int /\ g.budget \in Int
      /\ g = [mode |-> g.mode, prefer_gpu |-> g.prefer_gpu, split |-> g.split,
              cap |-> g.cap, budget |-> g.budget]
  BY DEF Genes
<1>3. revoked \in BOOLEAN
  BY DEF GpuAllowed, Stage
<1>4. temp > cfg_.warning => revoked
  BY SchedulerAssumption DEF GpuAllowed, Stage
<1> HIDE DEF revoked
<1>5. adj = [mode |-> IF forced THEN "LOW_POWER" ELSE g.mode,
             prefer_gpu |-> g.prefer_gpu /\ ~revoked,
             split |-> IF revoked THEN 0 ELSE g.split,
             cap |-> g.cap, budget |-> g.budget]
  BY <1>1, <1>2
<1> HIDE DEF adj
<1>6. adj \in Genes
  BY <1>2, <1>3, <1>5 DEF Genes, Modes
<1>7. adj.cap = g.cap /\ (revoked => ~adj.prefer_gpu /\ adj.split = 0)
  BY <1>5
<1> QED  BY <1>4, <1>6, <1>7 DEF adj

\* A clock's gene, between the limits of the mode.
LEMMA ClampBetween ==
  ASSUME NEW n \in Int, NEW low \in Int, NEW high \in Int, low <= high
  PROVE  /\ Clamp(n, low, high) \in low .. high
         /\ Clamp(n, low, high) <= IF n < low THEN low ELSE n
  BY SMT DEF Clamp

\* The ceiling a policy may ask for: the evolved one, not below the mode's floor.
Gene(m, cap) ==
  LET floor == IF m = "LOW_POWER" THEN LowPowerFloor ELSE CpuMin
  IN  IF cap < floor THEN floor ELSE cap

LEMMA CpuGenes ==
  ASSUME NEW m, NEW cap \in Int
  PROVE  /\ Gene(m, cap) \in Int
         /\ m # "LOW_POWER" =>
              /\ Clamp(cap, CpuMin, CpuMax) \in CpuMin .. CpuMax
              /\ Clamp(cap, CpuMin, CpuMax) <= Gene(m, cap)
         /\ m = "LOW_POWER" =>
              /\ Clamp(cap, LowPowerFloor, CpuMax) \in CpuMin .. CpuMax
              /\ Clamp(cap, LowPowerFloor, CpuMax) <= Gene(m, cap)
<1>1. /\ Gene(m, cap) \in Int
      /\ m # "LOW_POWER" => Gene(m, cap) = IF cap < CpuMin THEN CpuMin ELSE cap
      /\ m = "LOW_POWER" => Gene(m, cap) = IF cap < LowPowerFloor THEN LowPowerFloor ELSE cap
  BY Limits DEF Gene
<1>2. /\ Clamp(cap, CpuMin, CpuMax) \in CpuMin .. CpuMax
      /\ Clamp(cap, CpuMin, CpuMax) <= IF cap < CpuMin THEN CpuMin ELSE cap
  BY ClampBetween, Limits, SMT
<1>3. /\ Clamp(cap, LowPowerFloor, CpuMax) \in LowPowerFloor .. CpuMax
      /\ Clamp(cap, LowPowerFloor, CpuMax) <= IF cap < LowPowerFloor THEN LowPowerFloor ELSE cap
  BY ClampBetween, Limits, SMT
<1>4. LowPowerFloor .. CpuMax \subseteq CpuMin .. CpuMax
  BY Limits, SMT
<1> QED  BY <1>1, <1>2, <1>3, <1>4, SMT

\* What a policy may ask for after a decision at temperature temp.
Sound(a, m, temp, cap) ==
  /\ a \in Demands
  /\ a.gpu = GpuMin <=> ~a.gpuOn
  /\ a.cpu <= Gene(m, cap)
  /\ m = "BALANCED" => WithinHeat(a.cpu, temp)

\* Every policy asks for settings within the limits, the evolved ceiling and,
\* in BALANCED mode, what heat allows, with the GPU as the genome prefers it.
LEMMA AskedIsSound ==
  ASSUME NEW g \in Genes, NEW err \in Int, NEW temp \in Int,
         rt.concurrency_level \in 1 .. MaxCores
  PROVE  /\ Sound(Asked(g, err, temp), g.mode, temp, g.cap)
         /\ Asked(g, err, temp).gpuOn = g.prefer_gpu
<1> DEFINE a == Asked(g, err, temp)
<1>1. /\ g.mode \in Modes /\ g.prefer_gpu \in BOOLEAN /\ g.cap \in Int
      /\ g.budget \in Int
  BY DEF Genes
<1>2. GpuClock(g.prefer_gpu) \in GpuMin .. GpuMax
      /\ (GpuClock(g.prefer_gpu) = GpuMin <=> ~g.prefer_gpu)
  BY <1>1, Limits, SMT DEF GpuClock
<1>3. CASE g.mode = "MAX_PERFORMANCE"
  <2>1. a = [cores |-> MaxCores, gpuOn |-> g.prefer_gpu,
             cpu |-> Clamp(g.cap, CpuMin, CpuMax), gpu |-> GpuClock(g.prefer_gpu)]
    BY <1>3 DEF Asked, MaxPerf
  <2>2. /\ Clamp(g.cap, CpuMin, CpuMax) \in CpuMin .. CpuMax
        /\ Clamp(g.cap, CpuMin, CpuMax) <= Gene(g.mode, g.cap)
    BY <1>1, <1>3, CpuGenes, SMT
  <2>3. MaxCores \in 1 .. MaxCores
    BY DEF MaxCores
  <2> HIDE DEF a
  <2>4. a \in Demands
    BY <1>1, <1>2, <2>1, <2>2, <2>3 DEF Demands
  <2>5. a.gpuOn = g.prefer_gpu /\ a.gpu = GpuClock(g.prefer_gpu)
        /\ a.cpu = Clamp(g.cap, CpuMin, CpuMax)
    BY <2>1
  <2> QED  BY <1>2, <1>3, <2>2, <2>4, <2>5 DEF Sound, a
<1>4. CASE g.mode = "LOW_POWER"
  <2> DEFINE n == IF g.budget < 35 THEN 1 ELSE 2
  <2>1. a = [cores |-> n, gpuOn |-> g.prefer_gpu,
             cpu |-> Clamp(g.cap, LowPowerFloor, CpuMax), gpu |-> GpuClock(g.prefer_gpu)]
    BY <1>4 DEF Asked, LowPower
  <2>2. /\ Clamp(g.cap, LowPowerFloor, CpuMax) \in CpuMin .. CpuMax
        /\ Clamp(g.cap, LowPowerFloor, CpuMax) <= Gene(g.mode, g.cap)
    BY <1>1, <1>4, CpuGenes, SMT
  <2>4. n \in 1 .. MaxCores
    BY DEF MaxCores
  <2> HIDE DEF a, n
  <2>5. a \in Demands
    BY <1>1, <1>2, <2>1, <2>2, <2>4 DEF Demands
  <2>6. a.gpuOn = g.prefer_gpu /\ a.gpu = GpuClock(g.prefer_gpu)
        /\ a.cpu = Clamp(g.cap, LowPowerFloor, CpuMax)
    BY <2>1
  <2> QED  BY <1>2, <1>4, <2>2, <2>5, <2>6 DEF Sound, a
<1>5. CASE g.mode = "BALANCED"
  <2> DEFINE n == NextConcurrency(err)
             ceiling == BalancedCap(g, err)
             cpu == Throttled(ceiling, temp, CpuMin, CpuMax)
             gpu == Throttled(GpuClock(g.prefer_gpu), temp, GpuMin, GpuMax)
  <2> HIDE DEF n, ceiling, cpu, gpu
  <2>1. a = [cores |-> n, gpuOn |-> g.prefer_gpu, cpu |-> cpu, gpu |-> gpu]
    BY <1>5 DEF Asked, Balanced, n, ceiling, cpu, gpu
  <2>2. /\ Clamp(g.cap, CpuMin, CpuMax) \in CpuMin .. CpuMax
        /\ Clamp(g.cap, CpuMin, CpuMax) <= Gene(g.mode, g.cap)
    <3>1. g.mode # "LOW_POWER"
      BY <1>5
    <3> QED  BY <1>1, <3>1, CpuGenes
  <2>3. ceiling \in CpuMin .. CpuMax /\ ceiling <= Clamp(g.cap, CpuMin, CpuMax)
    <3> DEFINE gene == Clamp(g.cap, CpuMin, CpuMax)
               pid == IF err > 0 THEN CpuMax ELSE 1035299
    <3>1. ceiling = IF gene < pid THEN gene ELSE pid
      BY DEF BalancedCap, ceiling
    <3> HIDE DEF gene
    <3>2. gene \in CpuMin .. CpuMax
      BY <2>2 DEF gene
    <3>3. ceiling \in CpuMin .. CpuMax /\ ceiling <= gene
      BY <3>1, <3>2, Limits, SMT
    <3> QED  BY <3>3 DEF gene
  <2>4. cpu \in CpuMin .. CpuMax /\ cpu <= ceiling /\ WithinHeat(cpu, temp)
    BY <2>3, ThrottledCpu DEF cpu
  <2>5. gpu \in GpuMin .. GpuMax /\ (gpu = GpuMin <=> ~g.prefer_gpu)
    BY <1>1, ThrottledGpu, SMT DEF gpu
  <2>6. n \in 1 .. MaxCores
    BY SMT DEF NextConcurrency, Clamp, MaxCores, n
  <2>7. Gene(g.mode, g.cap) \in Int
    BY <1>1, Limits, SMT DEF Gene
  <2> HIDE DEF a
  <2>8. a \in Demands
    BY <1>1, <2>1, <2>4, <2>5, <2>6 DEF Demands
  <2>9. a.gpuOn = g.prefer_gpu /\ a.gpu = gpu /\ a.cpu = cpu
    BY <2>1
  <2>10. cpu <= Gene(g.mode, g.cap)
    BY <2>2, <2>3, <2>4, <2>7, Limits, SMT
  <2> QED  BY <2>4, <2>5, <2>8, <2>9, <2>10 DEF Sound, a
<1> QED  BY <1>1, <1>3, <1>4, <1>5 DEF Modes

-----------------------------------------------------------------------------
(* What the two steps of apply() do *)

Controls == [concurrency_level : 1 .. MaxCores, enable_gpu : BOOLEAN,
             gpu_workload_split : 0 .. 10, commanded : 0 .. CpuMax]
Memory   == [cores : -1 .. MaxCores, cpu : -1 .. CpuMax, gpu : -1 .. GpuMax, gpuOn : BOOLEAN]
Hardware == [cores : 1 .. MaxCores, cpu : CpuMin .. CpuMax, gpu : GpuMin .. GpuMax]
Readings == [temp : Temps \cup {0}, cap : Int]

Typed ==
  /\ current_stage_ \in 0 .. 4 /\ shutdown_initiated_ \in BOOLEAN
  /\ last \in Memory /\ dwelling \in BOOLEAN /\ hw \in Hardware /\ rt \in Controls
  /\ restored \subseteq Settings
  /\ mode \in Modes /\ asked \in Demands /\ reading \in Readings

\* A decision asks for something sound, and above `warning` has the GPU off.
LEMMA DecideEffect ==
  ASSUME Typed, Decide
  PROVE  /\ mode' \in Modes /\ reading' \in Readings
         /\ current_stage_' \in 0 .. 4 /\ shutdown_initiated_' \in BOOLEAN
         /\ Sound(asked', mode', reading'.temp, reading'.cap)
         /\ rt' \in Controls /\ rt'.enable_gpu = rt.enable_gpu
         /\ rt'.concurrency_level = rt.concurrency_level /\ rt'.commanded = rt.commanded
         /\ reading'.temp > cfg_.warning => ~asked'.gpuOn /\ rt'.gpu_workload_split = 0
<1>1. PICK g \in Genomes, err \in FpsErrors, temp \in Temps :
        LET forced == ShouldShutdown(temp)
            adj == Adjusted(g, temp, forced)
        IN  /\ Govern(temp, adj.split)
            /\ mode' = adj.mode /\ asked' = Asked(adj, err, temp)
            /\ reading' = [temp |-> temp, cap |-> g.cap]
  BY DEF Decide
<1> DEFINE forced == ShouldShutdown(temp)
           adj == Adjusted(g, temp, forced)
<1>2. /\ Govern(temp, adj.split) /\ mode' = adj.mode /\ asked' = Asked(adj, err, temp)
      /\ reading' = [temp |-> temp, cap |-> g.cap]
  BY <1>1
<1>3. g \in Genes /\ temp \in Int /\ err \in Int
  BY SchedulerAssumption DEF Genes
<1>4. forced \in BOOLEAN
  BY DEF ShouldShutdown, Typed
<1> HIDE DEF forced
<1>5. /\ adj \in Genes /\ adj.cap = g.cap
      /\ temp > cfg_.warning => ~adj.prefer_gpu /\ adj.split = 0
  BY <1>3, <1>4, AdjustedIsGenome
<1> HIDE DEF adj
<1>6. adj.mode \in Modes /\ adj.split \in 0 .. 10
  BY <1>5 DEF Genes
<1>7. reading'.temp = temp /\ reading'.cap = g.cap /\ reading' \in Readings
  BY <1>2, <1>3 DEF Readings, Genes
<1>8. rt.concurrency_level \in 1 .. MaxCores
  BY DEF Typed, Controls
<1>9. Sound(asked', adj.mode, temp, adj.cap) /\ asked'.gpuOn = adj.prefer_gpu
  BY <1>2, <1>3, <1>5, <1>8, AskedIsSound
<1>10. Stage(temp) \in 0 .. 4 /\ ShouldShutdown(temp) \in BOOLEAN
  BY DEF Stage, ShouldShutdown, Typed
<1>11. /\ current_stage_' \in 0 .. 4 /\ shutdown_initiated_' \in BOOLEAN
       /\ rt' = [rt EXCEPT !.gpu_workload_split = adj.split]
  BY <1>2, <1>10 DEF Govern, Typed
<1>12. rt' = [concurrency_level |-> rt.concurrency_level, enable_gpu |-> rt.enable_gpu,
              gpu_workload_split |-> adj.split, commanded |-> rt.commanded]
  BY <1>11 DEF Typed, Controls
<1>13. /\ rt.concurrency_level \in 1 .. MaxCores /\ rt.enable_gpu \in BOOLEAN
       /\ rt.commanded \in 0 .. CpuMax
  BY DEF Typed, Controls
<1>14. /\ rt' \in Controls /\ rt'.enable_gpu = rt.enable_gpu
       /\ rt'.gpu_workload_split = adj.split
       /\ rt'.concurrency_level = rt.concurrency_level /\ rt'.commanded = rt.commanded
  BY <1>6, <1>12, <1>13 DEF Controls
<1> QED  BY <1>2, <1>5, <1>6, <1>7, <1>9, <1>11, <1>14

\* What a policy writes is what it remembers and what it tells the worker.
LEMMA ApplyEffect ==
  ASSUME Typed, Apply
  PROVE  /\ hw' = Written(mode, asked) /\ last' = Remembered(mode, asked)
         /\ last' \in Memory /\ hw' \in Hardware /\ last'.cpu # -1
         /\ rt' = [concurrency_level |-> asked.cores, enable_gpu |-> asked.gpuOn,
                   gpu_workload_split |-> rt.gpu_workload_split, commanded |-> last'.cpu]
         /\ rt' \in Controls
         /\ restored' = restored \ Wrote(mode, asked) /\ restored' \subseteq Settings
         /\ dwelling' \in BOOLEAN
<1>1. /\ hw' = Written(mode, asked) /\ last' = Remembered(mode, asked)
      /\ rt' = [rt EXCEPT !.concurrency_level = asked.cores, !.enable_gpu = asked.gpuOn,
                          !.commanded = last'.cpu]
      /\ dwelling' = (dwelling \/ SwitchesGpu(asked))
      /\ restored' = restored \ Wrote(mode, asked)
  BY DEF Apply, Actuate
<1>2. /\ asked.cores \in 1 .. MaxCores /\ asked.gpuOn \in BOOLEAN
      /\ asked.cpu \in CpuMin .. CpuMax /\ asked.gpu \in GpuMin .. GpuMax
  BY DEF Typed, Demands
<1>3. /\ last.cores \in -1 .. MaxCores /\ last.cpu \in -1 .. CpuMax
      /\ last.gpu \in -1 .. GpuMax /\ last.gpuOn \in BOOLEAN
  BY DEF Typed, Memory
<1>4. /\ hw.cores \in 1 .. MaxCores /\ hw.cpu \in CpuMin .. CpuMax
      /\ hw.gpu \in GpuMin .. GpuMax
  BY DEF Typed, Hardware
<1>5. \A on \in BOOLEAN : GpuClock(on) \in GpuMin .. GpuMax
  BY Limits, SMT DEF GpuClock
<1>6. WritesCpu(mode, asked) \/ (last.cpu # -1 /\ last.cpu \in 0 .. CpuMax)
  BY <1>2, <1>3, Limits, SMT DEF WritesCpu, Distance
<1>7. 1 .. MaxCores \subseteq -1 .. MaxCores /\ CpuMin .. CpuMax \subseteq 0 .. CpuMax
      /\ 0 .. CpuMax \subseteq -1 .. CpuMax /\ GpuMin .. GpuMax \subseteq -1 .. GpuMax
      /\ -1 \notin 0 .. CpuMax
  BY Limits, SMT DEF MaxCores
<1> DEFINE cpu == IF WritesCpu(mode, asked) THEN asked.cpu ELSE last.cpu
           on == IF SwitchesGpu(asked) THEN asked.gpuOn ELSE last.gpuOn
<1>8. last' = [cores |-> asked.cores, cpu |-> cpu, gpu |-> asked.gpu, gpuOn |-> on]
  BY <1>1 DEF Remembered
<1>9. cpu \in 0 .. CpuMax /\ on \in BOOLEAN
  BY <1>2, <1>3, <1>6, <1>7
<1> HIDE DEF cpu, on
<1>10. last' \in Memory /\ last'.cpu = cpu /\ last'.cpu # -1
  BY <1>2, <1>7, <1>8, <1>9 DEF Memory
<1> DEFINE c == IF WritesCores(mode, asked) THEN asked.cores ELSE hw.cores
           f == IF WritesCpu(mode, asked) THEN asked.cpu ELSE hw.cpu
           u == IF WritesGpu(asked) THEN asked.gpu
                ELSE IF SwitchesGpu(asked) THEN GpuClock(asked.gpuOn) ELSE hw.gpu
<1>11. hw' = [cores |-> c, cpu |-> f, gpu |-> u]
  BY <1>1 DEF Written
<1>12. c \in 1 .. MaxCores /\ f \in CpuMin .. CpuMax /\ u \in GpuMin .. GpuMax
  BY <1>2, <1>4, <1>5
<1> HIDE DEF c, f, u
<1>13. hw' \in Hardware
  BY <1>11, <1>12 DEF Hardware
<1>14. rt' = [concurrency_level |-> asked.cores, enable_gpu |-> asked.gpuOn,
              gpu_workload_split |-> rt.gpu_workload_split, commanded |-> last'.cpu]
  BY <1>1 DEF Typed, Controls
<1>15. rt.gpu_workload_split \in 0 .. 10
  BY DEF Typed, Controls
<1>16. rt' \in Controls
  BY <1>2, <1>9, <1>10, <1>14, <1>15 DEF Controls
<1>17. restored' \subseteq Settings
  BY <1>1 DEF Typed
<1>18. dwelling' \in BOOLEAN
  BY <1>1, <1>2, <1>3 DEF SwitchesGpu, Typed
<1> QED  BY <1>1, <1>10, <1>13, <1>14, <1>16, <1>17, <1>18

-----------------------------------------------------------------------------
(* The invariant, in four parts *)

Numbers ==
  /\ generation_ \in 0 .. MaxActions /\ endTaken \in 0 .. MaxActions
  /\ action_apply_end_ns \in 0 .. MaxActions /\ action_generation \in 0 .. MaxActions
  /\ epoch \in 0 .. MaxActions /\ observedAt \in 0 .. MaxActions
  /\ algorithm_observed_generation \in 0 .. MaxActions
  /\ response \in [gen : 0 .. MaxActions, from : 0 .. MaxActions]

\* The numbers of the actions and the ends of their applies, step by step.
Ordered ==
  /\ pc \in {"idle", "governed", "applied", "stored"}
  /\ wpc \in {"take", "observe", "respond", "process"}
  /\ Numbers
  /\ pc # "idle" => generation_ < MaxActions
  /\ pc \in {"applied", "stored"} => endTaken = generation_ + 1
  /\ action_generation = generation_
  /\ action_apply_end_ns >= generation_
  /\ pc = "stored" => action_apply_end_ns = generation_ + 1
  /\ epoch <= generation_
  /\ response.from >= response.gen

\* While the GPU is off the worker's frames on it are counted by its own counter,
\* plus the one whose counter is about to move.
Lagging ==
  /\ useGPU \in BOOLEAN /\ adaptationCounter \in 0 .. AdaptEvery - 1
  /\ lag \in 0 .. AdaptEvery
  /\ rt.enable_gpu => lag = 0
  /\ ~rt.enable_gpu /\ useGPU =>
       lag <= adaptationCounter + (IF wpc = "take" THEN 1 ELSE 0)

\* Something has been applied, and the worker told.
Told == generation_ > 0 \/ pc \in {"applied", "stored"}

\* What is remembered is what the hardware has, except where reset() wrote.
Cached ==
  /\ "cores" \notin restored /\ last.cores # -1 => hw.cores = last.cores
  /\ "cpu" \notin restored /\ last.cpu # -1 => hw.cpu = last.cpu
  /\ "gpu" \notin restored /\ last.gpu = GpuMin => hw.gpu = GpuMin
  /\ Told =>
       /\ last.cores # -1 /\ last.cores = rt.concurrency_level
       /\ last.cpu # -1 /\ last.cpu = rt.commanded

\* What heat and the genome allow, between the two steps of apply() and after.
Cool ==
  /\ pc = "governed" =>
       /\ Sound(asked, mode, reading.temp, reading.cap)
       /\ reading.temp > cfg_.warning => ~asked.gpuOn /\ rt.gpu_workload_split = 0
  /\ pc # "governed" /\ Told =>
       /\ reading.temp > cfg_.warning =>
            ~rt.enable_gpu /\ rt.gpu_workload_split = 0 /\ last.gpu = GpuMin
       /\ \E n \in CpuMin .. CpuMax :
            /\ n <= Gene(mode, reading.cap)
            /\ mode = "BALANCED" => WithinHeat(n, reading.temp)
            /\ last.cpu <= n + (IF mode = "BALANCED" THEN Deadband ELSE 0)

IInv == Typed /\ Ordered /\ Lagging /\ Cached /\ Cool

-----------------------------------------------------------------------------
(* It holds at the start *)

LEMMA InitInv == Init => IInv
<1> SUFFICES ASSUME Init PROVE IInv
  OBVIOUS
<1>1. /\ current_stage_ = 0 /\ shutdown_initiated_ = FALSE
      /\ last = [cores |-> -1, cpu |-> -1, gpu |-> -1, gpuOn |-> TRUE]
      /\ dwelling = FALSE /\ hw = [cores |-> 3, cpu |-> CpuMax, gpu |-> GpuMax]
      /\ rt = [concurrency_level |-> 2, enable_gpu |-> TRUE,
               gpu_workload_split |-> 10, commanded |-> 0]
      /\ restored = {}
      /\ mode = "BALANCED" /\ asked = Nothing /\ reading = [temp |-> 0, cap |-> CpuMax]
  BY DEF Init, SchedulerInit
<1>2. Typed
  <2>1. /\ -1 \in -1 .. MaxCores /\ 1 \in 1 .. MaxCores /\ 2 \in 1 .. MaxCores
        /\ 3 \in 1 .. MaxCores /\ -1 \in -1 .. CpuMax /\ -1 \in -1 .. GpuMax
        /\ 0 \in 0 .. CpuMax /\ 10 \in 0 .. 10 /\ 0 \in 0 .. 4
        /\ CpuMin \in CpuMin .. CpuMax /\ CpuMax \in CpuMin .. CpuMax
        /\ GpuMin \in GpuMin .. GpuMax /\ GpuMax \in GpuMin .. GpuMax
        /\ CpuMax \in Int
    BY Limits, SMT DEF MaxCores
  <2>2. last \in Memory
    BY <1>1, <2>1 DEF Memory
  <2>3. hw \in Hardware
    BY <1>1, <2>1 DEF Hardware
  <2>4. rt \in Controls
    BY <1>1, <2>1 DEF Controls
  <2>5. asked \in Demands
    BY <1>1, <2>1 DEF Demands, Nothing
  <2>6. reading \in Readings
    BY <1>1, <2>1 DEF Readings
  <2> QED  BY <1>1, <2>1, <2>2, <2>3, <2>4, <2>5, <2>6 DEF Typed, Modes, Settings
<1>3. Ordered
  <2>1. 0 \in 0 .. MaxActions
    BY ActuationAssumption
  <2>2. response \in [gen : 0 .. MaxActions, from : 0 .. MaxActions]
    BY <2>1 DEF Init
  <2> QED  BY <2>1, <2>2 DEF Init, Ordered, Numbers
<1>4. Lagging
  BY <1>1, ActuationAssumption DEF Init, Lagging
<1>5. ~Told
  BY DEF Init, Told
<1>6. Cached
  BY <1>1, <1>5, Limits, SMT DEF Cached
<1>7. Cool
  BY <1>5 DEF Cool, Init
<1> QED  BY <1>2, <1>3, <1>4, <1>6, <1>7 DEF IInv

-----------------------------------------------------------------------------
(* Every step keeps it *)

Worker == Take \/ Observe \/ Respond \/ Process
Rest   == DwellEnds /\ UNCHANGED <<controlVars, workerVars>>

LEMMA Steps ==
  ASSUME [Next]_vars
  PROVE  Decide \/ Apply \/ Publish \/ Recover \/ Rest \/ Worker \/ UNCHANGED vars
  BY DEF Next, Worker, Rest

\* The worker writes none of the scheduler's and of the control thread's state.
LEMMA WorkerEffect ==
  ASSUME Worker
  PROVE  UNCHANGED <<controlVars, schedulerVars>>
  BY DEF Worker, Take, Observe, Respond, Process

LEMMA TypedStep ==
  ASSUME Typed, [Next]_vars
  PROVE  Typed'
<1> USE DEF schedulerVars, controlVars, workerVars
<1>1. CASE Decide
  <2>1. /\ mode' \in Modes /\ reading' \in Readings /\ current_stage_' \in 0 .. 4
        /\ shutdown_initiated_' \in BOOLEAN /\ rt' \in Controls
        /\ Sound(asked', mode', reading'.temp, reading'.cap)
    BY <1>1, DecideEffect
  <2>2. UNCHANGED <<last, dwelling, hw, restored>>
    BY <1>1 DEF Decide, Govern
  <2> QED  BY <2>1, <2>2 DEF Typed, Sound
<1>2. CASE Apply
  <2>1. /\ last' \in Memory /\ hw' \in Hardware /\ rt' \in Controls
        /\ restored' \subseteq Settings /\ dwelling' \in BOOLEAN
    BY <1>2, ApplyEffect
  <2>2. /\ UNCHANGED <<current_stage_, shutdown_initiated_, mode, reading>>
        /\ asked' = Nothing
    BY <1>2 DEF Apply, Actuate
  <2>3. Nothing \in Demands
    <3>1. 1 \in 1 .. MaxCores /\ CpuMin \in CpuMin .. CpuMax /\ GpuMin \in GpuMin .. GpuMax
      BY Limits, SMT DEF MaxCores
    <3> QED  BY <3>1 DEF Nothing, Demands
  <2> QED  BY <2>1, <2>2, <2>3 DEF Typed
<1>3. CASE Publish
  BY <1>3 DEF Publish, Typed
<1>4. CASE Recover
  <2>1. hw' = [cores |-> MaxCores, cpu |-> CpuMax, gpu |-> GpuMax]
    BY <1>4 DEF Recover, Reset
  <2>2. /\ MaxCores \in 1 .. MaxCores /\ CpuMax \in CpuMin .. CpuMax
        /\ GpuMax \in GpuMin .. GpuMax
    BY Limits, SMT DEF MaxCores
  <2>3. hw' \in Hardware
    BY <2>1, <2>2 DEF Hardware
  <2> QED  BY <1>4, <2>3 DEF Recover, Reset, Typed
<1>5. CASE Rest
  BY <1>5 DEF Rest, DwellEnds, Typed
<1>6. CASE Worker
  BY <1>6, WorkerEffect DEF Typed
<1>7. CASE UNCHANGED vars
  BY <1>7 DEF vars, Typed
<1> QED  BY <1>1, <1>2, <1>3, <1>4, <1>5, <1>6, <1>7, Steps

LEMMA OrderedStep ==
  ASSUME Ordered, [Next]_vars
  PROVE  Ordered'
<1> USE DEF schedulerVars, controlVars, workerVars
<1> DEFINE N == 0 .. MaxActions
<1>0. MaxActions \in Nat
  BY ActuationAssumption
<1>1. CASE Decide
  BY <1>1 DEF Decide, Ordered, Numbers
<1>2. CASE Apply
  BY <1>0, <1>2 DEF Apply, Ordered, Numbers
<1>3. CASE Publish
  BY <1>0, <1>3 DEF Publish, Ordered, Numbers
<1>4. CASE Recover
  BY <1>4 DEF Recover, Ordered, Numbers
<1>5. CASE Rest
  BY <1>5 DEF Rest, Ordered, Numbers
<1>6. CASE Take
  BY <1>0, <1>6 DEF Take, Ordered, Numbers
<1>7. CASE Observe
  BY <1>7 DEF Observe, Ordered, Numbers
<1>8. CASE Respond
  <2>1. /\ epoch \in N /\ action_apply_end_ns \in N /\ generation_ \in N
        /\ epoch <= action_apply_end_ns
    BY <1>0 DEF Ordered, Numbers
  <2>2. CASE action_apply_end_ns \in 1 .. observedAt
    <3>1. response' = [gen |-> epoch, from |-> action_apply_end_ns]
      BY <1>8, <2>2 DEF Respond
    <3>2. response' \in [gen : N, from : N] /\ response'.from >= response'.gen
      BY <1>0, <2>1, <3>1
    <3> QED  BY <1>8, <3>2 DEF Respond, Ordered, Numbers
  <2>3. CASE action_apply_end_ns \notin 1 .. observedAt
    BY <1>8, <2>3 DEF Respond, Ordered, Numbers
  <2> QED  BY <2>2, <2>3
<1>9. CASE Process
  BY <1>0, <1>9 DEF Process, Ordered, Numbers
<1>10. CASE UNCHANGED vars
  BY <1>10 DEF vars, Ordered, Numbers
<1> QED  BY <1>1, <1>2, <1>3, <1>4, <1>5, <1>6, <1>7, <1>8, <1>9, <1>10, Steps DEF Worker

LEMMA LaggingStep ==
  ASSUME Typed, Lagging, [Next]_vars
  PROVE  Lagging'
<1> USE DEF schedulerVars, controlVars, workerVars
<1>0. AdaptEvery \in Nat \ {0} /\ rt.enable_gpu \in BOOLEAN /\ asked.gpuOn \in BOOLEAN
  BY ActuationAssumption DEF Typed, Controls, Demands
<1>1. CASE Decide
  <2>1. rt'.enable_gpu = rt.enable_gpu
    BY <1>1, DecideEffect
  <2> QED  BY <1>1, <2>1 DEF Decide, Lagging
<1>2. CASE Apply
  <2>1. rt'.enable_gpu = asked.gpuOn
    BY <1>2, ApplyEffect
  <2>2. /\ lag' = IF asked.gpuOn THEN 0 ELSE lag
        /\ UNCHANGED <<wpc, useGPU, adaptationCounter>>
    BY <1>2 DEF Apply
  <2>3. CASE asked.gpuOn
    BY <1>0, <2>1, <2>2, <2>3 DEF Lagging
  <2>4. CASE ~asked.gpuOn
    BY <1>0, <2>1, <2>2, <2>4 DEF Lagging
  <2> QED  BY <2>3, <2>4
<1>3. CASE Publish
  BY <1>3 DEF Publish, Lagging
<1>4. CASE Recover
  BY <1>4 DEF Recover, Reset, Lagging
<1>5. CASE Rest
  BY <1>5 DEF Rest, DwellEnds, Lagging
<1>6. CASE Take
  <2>1. /\ adaptationCounter' = (adaptationCounter + 1) % AdaptEvery
        /\ useGPU' = Adapted(adaptationCounter') /\ wpc = "take" /\ wpc' # "take"
        /\ UNCHANGED <<lag, rt>>
    BY <1>6 DEF Take
  <2>2. CASE adaptationCounter + 1 < AdaptEvery
    <3>1. adaptationCounter' = adaptationCounter + 1 /\ adaptationCounter' # 0
      BY <1>0, <2>1, <2>2 DEF Lagging
    <3>2. useGPU' = useGPU
      BY <2>1, <3>1 DEF Adapted
    <3> QED  BY <1>0, <2>1, <2>2, <3>1, <3>2 DEF Lagging
  <2>3. CASE adaptationCounter + 1 >= AdaptEvery
    <3>1. adaptationCounter' = 0
      BY <1>0, <2>1, <2>3 DEF Lagging
    <3>2. useGPU' = rt.enable_gpu
      BY <2>1, <3>1 DEF Adapted
    <3> QED  BY <1>0, <2>1, <3>1, <3>2 DEF Lagging
  <2> QED  BY <1>0, <2>2, <2>3 DEF Lagging
<1>7. CASE Observe
  BY <1>7 DEF Observe, Lagging
<1>8. CASE Respond
  BY <1>8 DEF Respond, Lagging
<1>9. CASE Process
  <2>1. /\ lag' = IF useGPU /\ ~rt.enable_gpu /\ lag <= AdaptEvery THEN lag + 1 ELSE lag
        /\ wpc = "process" /\ wpc' = "take"
        /\ UNCHANGED <<adaptationCounter, rt>>
    BY <1>9 DEF Process
  <2>2. useGPU' \in BOOLEAN /\ (useGPU' => useGPU)
    <3>1. useGPU' = useGPU \/ useGPU' = FALSE
      BY <1>9 DEF Process
    <3>2. useGPU \in BOOLEAN
      BY DEF Lagging
    <3>3. CASE useGPU' = useGPU
      BY ONLY <3>2, <3>3
    <3>4. CASE useGPU' = FALSE
      BY ONLY <3>4
    <3> QED  BY <3>1, <3>3, <3>4
  <2>3. /\ adaptationCounter \in 0 .. AdaptEvery - 1 /\ lag \in 0 .. AdaptEvery
        /\ rt.enable_gpu => lag = 0
        /\ ~rt.enable_gpu /\ useGPU => lag <= adaptationCounter
    BY <1>0, <2>1, SMT DEF Lagging
  <2>4. lag' = IF useGPU /\ ~rt.enable_gpu THEN lag + 1 ELSE lag
    BY <1>0, <2>1, <2>3
  <2>5. lag' \in 0 .. AdaptEvery
    BY <1>0, <2>3, <2>4
  <2>6. rt.enable_gpu => lag' = 0
    BY <2>3, <2>4
  <2>7. ~rt.enable_gpu /\ useGPU => lag' <= adaptationCounter + 1
    BY <1>0, <2>3, <2>4
  <2> QED  BY <2>1, <2>2, <2>3, <2>5, <2>6, <2>7 DEF Lagging
<1>10. CASE UNCHANGED vars
  BY <1>10 DEF vars, Lagging
<1> QED  BY <1>1, <1>2, <1>3, <1>4, <1>5, <1>6, <1>7, <1>8, <1>9, <1>10, Steps DEF Worker

\* An apply in step with the hardware leaves it in step.
LEMMA ApplyKeepsCached ==
  ASSUME Typed, Cached, Cool, Apply
  PROVE  Cached'
<1>1. /\ asked.cores \in 1 .. MaxCores /\ asked.gpuOn \in BOOLEAN
      /\ asked.cpu \in CpuMin .. CpuMax
  BY DEF Typed, Demands
<1>2. /\ hw' = Written(mode, asked) /\ last' = Remembered(mode, asked)
      /\ last'.cpu # -1 /\ restored' = restored \ Wrote(mode, asked)
      /\ rt' = [concurrency_level |-> asked.cores, enable_gpu |-> asked.gpuOn,
                gpu_workload_split |-> rt.gpu_workload_split, commanded |-> last'.cpu]
  BY ApplyEffect
<1>3. /\ "cores" \in Wrote(mode, asked) <=> WritesCores(mode, asked)
      /\ "cpu" \in Wrote(mode, asked) <=> WritesCpu(mode, asked)
      /\ "gpu" \in Wrote(mode, asked) <=> WritesGpu(asked) \/ SwitchesGpu(asked)
  BY DEF Wrote, Settings
<1>4. /\ last'.cores = asked.cores /\ last'.gpu = asked.gpu
      /\ last'.cpu = IF WritesCpu(mode, asked) THEN asked.cpu ELSE last.cpu
  BY <1>2 DEF Remembered
<1>5. /\ hw'.cores = IF WritesCores(mode, asked) THEN asked.cores ELSE hw.cores
      /\ hw'.cpu = IF WritesCpu(mode, asked) THEN asked.cpu ELSE hw.cpu
      /\ hw'.gpu = IF WritesGpu(asked) THEN asked.gpu
                   ELSE IF SwitchesGpu(asked) THEN GpuClock(asked.gpuOn) ELSE hw.gpu
  BY <1>2 DEF Written
<1>6. asked.cores # -1
  BY <1>1, SMT DEF MaxCores
<1>7. "cores" \notin restored' => hw'.cores = last'.cores
  BY <1>2, <1>3, <1>4, <1>5, <1>6 DEF Cached, WritesCores
<1>8. "cpu" \notin restored' => hw'.cpu = last'.cpu
  BY <1>2, <1>3, <1>4, <1>5 DEF Cached
<1>9. "gpu" \notin restored' /\ last'.gpu = GpuMin => hw'.gpu = GpuMin
  <2>1. pc = "governed"
    BY DEF Apply
  <2>2. asked.gpu = GpuMin => ~asked.gpuOn
    BY <2>1 DEF Cool, Sound
  <2>3. ~asked.gpuOn => GpuClock(asked.gpuOn) = GpuMin
    BY DEF GpuClock
  <2> QED  BY <1>2, <1>3, <1>4, <1>5, <2>2, <2>3 DEF Cached, WritesGpu
<1>10. rt'.concurrency_level = asked.cores /\ rt'.commanded = last'.cpu
  BY <1>2
<1> QED  BY <1>2, <1>4, <1>6, <1>7, <1>8, <1>9, <1>10 DEF Cached

LEMMA CachedStep ==
  ASSUME Typed, Cached, Cool, [Next]_vars
  PROVE  Cached'
<1> USE DEF schedulerVars, controlVars, workerVars
<1>1. CASE Decide
  <2>1. /\ rt'.concurrency_level = rt.concurrency_level /\ rt'.commanded = rt.commanded
        /\ UNCHANGED <<last, hw, restored, generation_>> /\ pc' = "governed"
    BY <1>1, DecideEffect DEF Decide, Govern
  <2> QED  BY <2>1 DEF Cached, Told
<1>2. CASE Apply
  BY <1>2, ApplyKeepsCached
<1>3. CASE Publish
  <2>1. Told /\ UNCHANGED <<last, hw, rt, restored>>
    BY <1>3 DEF Publish, Told
  <2> QED  BY <2>1 DEF Cached
<1>4. CASE Recover
  <2>1. restored' = Settings /\ UNCHANGED <<last, rt, pc, generation_>>
    BY <1>4 DEF Recover, Reset
  <2> QED  BY <2>1 DEF Cached, Told, Settings
<1>5. CASE Rest
  BY <1>5 DEF Rest, DwellEnds, Cached, Told
<1>6. CASE Worker
  BY <1>6, WorkerEffect DEF Cached, Told
<1>7. CASE UNCHANGED vars
  BY <1>7 DEF vars, Cached, Told
<1> QED  BY <1>1, <1>2, <1>3, <1>4, <1>5, <1>6, <1>7, Steps

LEMMA CoolStep ==
  ASSUME Typed, Cool, [Next]_vars
  PROVE  Cool'
<1> USE DEF schedulerVars, controlVars, workerVars
<1>1. CASE Decide
  BY <1>1, DecideEffect DEF Decide, Cool
<1>2. CASE Apply
  <2>1. /\ pc = "governed" /\ pc' = "applied" /\ UNCHANGED <<mode, reading>>
    BY <1>2 DEF Apply
  <2>2. /\ last' = Remembered(mode, asked)
        /\ rt' = [concurrency_level |-> asked.cores, enable_gpu |-> asked.gpuOn,
                  gpu_workload_split |-> rt.gpu_workload_split, commanded |-> last'.cpu]
    BY <1>2, ApplyEffect
  <2>3. /\ rt'.enable_gpu = asked.gpuOn /\ rt'.gpu_workload_split = rt.gpu_workload_split
        /\ last'.gpu = asked.gpu
        /\ last'.cpu = IF WritesCpu(mode, asked) THEN asked.cpu ELSE last.cpu
    BY <2>2 DEF Remembered
  <2>4. /\ asked.cpu \in CpuMin .. CpuMax /\ asked.cpu <= Gene(mode, reading.cap)
        /\ mode = "BALANCED" => WithinHeat(asked.cpu, reading.temp)
        /\ asked.gpu = GpuMin <=> ~asked.gpuOn
    BY <2>1 DEF Cool, Sound, Demands
  <2>5. reading'.temp > cfg_.warning =>
          ~rt'.enable_gpu /\ rt'.gpu_workload_split = 0 /\ last'.gpu = GpuMin
    BY <2>1, <2>3, <2>4 DEF Cool
  <2>6. last'.cpu <= asked.cpu + (IF mode = "BALANCED" THEN Deadband ELSE 0)
    <3>1. last.cpu \in -1 .. CpuMax /\ CpuMax \in Int /\ CpuMin \in Int /\ Deadband \in Int
          /\ Deadband >= 0
      BY Limits, SMT DEF Typed, Memory
    <3>2. CASE mode = "BALANCED"
      BY <2>3, <2>4, <3>1, <3>2 DEF WritesCpu, Distance
    <3>3. CASE mode # "BALANCED"
      BY <2>3, <2>4, <3>1, <3>3 DEF WritesCpu
    <3> QED  BY <3>2, <3>3
  <2>7. \E n \in CpuMin .. CpuMax :
          /\ n <= Gene(mode', reading'.cap)
          /\ mode' = "BALANCED" => WithinHeat(n, reading'.temp)
          /\ last'.cpu <= n + (IF mode' = "BALANCED" THEN Deadband ELSE 0)
    BY <2>1, <2>4, <2>6
  <2> QED  BY <2>1, <2>5, <2>7 DEF Cool
<1>3. CASE Publish
  <2>1. /\ Told /\ pc # "governed" /\ pc' # "governed"
        /\ UNCHANGED <<last, rt, mode, reading>>
    BY <1>3 DEF Publish, Told
  <2> QED  BY <2>1 DEF Cool
<1>4. CASE Recover
  BY <1>4 DEF Recover, Reset, Cool, Told
<1>5. CASE Rest
  BY <1>5 DEF Rest, DwellEnds, Cool, Told
<1>6. CASE Worker
  BY <1>6, WorkerEffect DEF Cool, Told
<1>7. CASE UNCHANGED vars
  BY <1>7 DEF vars, Cool, Told
<1> QED  BY <1>1, <1>2, <1>3, <1>4, <1>5, <1>6, <1>7, Steps

-----------------------------------------------------------------------------
(* The theorems *)

\* The four parts of the invariant hold in every reachable state.
THEOREM Invariance == Spec => []IInv
<1>1. IInv /\ [Next]_vars => IInv'
  BY TypedStep, OrderedStep, LaggingStep, CachedStep, CoolStep DEF IInv
<1> QED  BY InitInv, <1>1, PTL DEF Spec

\* Every variable stays in its type: no setting leaves the limits of the hardware.
THEOREM TypeCorrect == Spec => []TypeOK
<1>1. IInv => TypeOK
  <2> SUFFICES ASSUME IInv PROVE TypeOK
    OBVIOUS
  <2>1. SchedulerTypeOK
    BY DEF IInv, Typed, SchedulerTypeOK, Memory, Hardware, Controls
  <2>2. lag \in 0 .. AdaptEvery + 1
    BY ActuationAssumption DEF IInv, Lagging
  <2> QED  BY <2>1, <2>2 DEF IInv, Typed, Ordered, Numbers, Lagging, TypeOK, Demands, Readings
<1> QED  BY Invariance, <1>1, PTL

\* Whatever sequence of genomes, temperatures and frame rates is applied, the
\* caches never claim cores or a CPU ceiling that the hardware does not have.
THEOREM SaysWhatRuns == Spec => []RunsWhatItSays
<1>1. IInv => RunsWhatItSays
  <2> SUFFICES ASSUME IInv, Applied PROVE RunsWhatItSays
    BY DEF RunsWhatItSays
  <2>1. Told
    BY DEF IInv, Ordered, Numbers, Applied, Told
  <2> QED  BY <2>1 DEF IInv, Cached, RunsWhatItSays
<1> QED  BY Invariance, <1>1, PTL

\* Under every thermal profile a reading above `warning` leaves the GPU off.
THEOREM HotGpuOff == Spec => []HotGpuIsOff
<1>1. IInv => HotGpuIsOff
  <2> SUFFICES ASSUME IInv, Applied, reading.temp > cfg_.warning PROVE
        /\ ~rt.enable_gpu /\ rt.gpu_workload_split = 0
        /\ "gpu" \notin restored => hw.gpu = GpuMin
    BY DEF HotGpuIsOff
  <2>1. Told /\ pc # "governed"
    BY DEF IInv, Ordered, Numbers, Applied, Told
  <2>2. ~rt.enable_gpu /\ rt.gpu_workload_split = 0 /\ last.gpu = GpuMin
    BY <2>1 DEF IInv, Cool
  <2> QED  BY <2>2 DEF IInv, Cached
<1> QED  BY Invariance, <1>1, PTL

\* The CPU's ceiling is at most the evolved one, and in BALANCED mode at most what
\* heat allows, but for the deadband.
THEOREM CeilingsHeld == Spec => []CeilingsHold
<1>1. IInv => CeilingsHold
  <2> SUFFICES ASSUME IInv, Applied, "cpu" \notin restored PROVE CeilingsHold
    BY DEF CeilingsHold
  <2>1. Told /\ pc # "governed"
    BY DEF IInv, Ordered, Numbers, Applied, Told
  <2>2. hw.cpu = last.cpu /\ hw.cpu \in CpuMin .. CpuMax
    BY <2>1 DEF IInv, Cached, Typed, Hardware
  <2>3. PICK n \in CpuMin .. CpuMax :
          /\ n <= Gene(mode, reading.cap)
          /\ mode = "BALANCED" => WithinHeat(n, reading.temp)
          /\ last.cpu <= n + (IF mode = "BALANCED" THEN Deadband ELSE 0)
    BY <2>1 DEF IInv, Cool
  <2>4. n \in Int /\ hw.cpu \in Int /\ Deadband \in Int /\ reading.cap \in Int
        /\ Gene(mode, reading.cap) \in Int
    BY <2>2, Limits, SMT DEF Gene, IInv, Typed, Readings
  <2>5. CASE mode # "BALANCED"
    <3>1. hw.cpu <= Gene(mode, reading.cap)
      BY <2>2, <2>3, <2>4, <2>5
    <3> QED  BY <2>5, <3>1 DEF CeilingsHold, Gene
  <2>6. CASE mode = "BALANCED"
    <3>1. /\ hw.cpu <= Gene(mode, reading.cap) + Deadband
          /\ hw.cpu <= n + Deadband
      BY <2>2, <2>3, <2>4, <2>6
    <3>2. /\ reading.temp > 75 => hw.cpu <= 1183200 + Deadband
          /\ reading.temp > 80 => hw.cpu <= 591600 + Deadband
      BY <2>3, <2>4, <2>6, <3>1, SMT DEF WithinHeat
    <3> QED  BY <2>6, <3>1, <3>2 DEF CeilingsHold, Gene
  <2> QED  BY <2>5, <2>6
<1> QED  BY Invariance, <1>1, PTL

\* No response is ever timed from an apply older than its action, however the two
\* threads interleave.
THEOREM ResponsesMeasured == Spec => []ResponseMeasuredFromItsAction
<1>1. IInv => ResponseMeasuredFromItsAction
  BY DEF IInv, Ordered, ResponseMeasuredFromItsAction
<1> QED  BY Invariance, <1>1, PTL

\* For every AdaptEvery, so for the ten frames of the code, the GPU is given up
\* after at most AdaptEvery frames.
THEOREM GpuGivenUp == Spec => []GpuSettingCatchesUp
<1>1. IInv => GpuSettingCatchesUp
  BY ActuationAssumption DEF IInv, Lagging, GpuSettingCatchesUp
<1> QED  BY Invariance, <1>1, PTL
=============================================================================
