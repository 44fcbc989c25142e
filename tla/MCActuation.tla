---------------------------- MODULE MCActuation ------------------------------
(* Actuation with the ORIGINAL thermal profile and a genome of each mode. *)
EXTENDS Actuation

MCProfile == [caution |-> 75, warning |-> 85, critical |-> 95, emergency |-> 105, shutdown |-> 108]

Genome(m, gpu, split, cap, budget) ==
  [mode |-> m, prefer_gpu |-> gpu, split |-> split, cap |-> cap, budget |-> budget]
MCGenomes ==
  {Genome("MAX_PERFORMANCE", TRUE, 10, CpuMax, 60),
   Genome("LOW_POWER", FALSE, 0, 102000, 30),
   Genome("BALANCED", TRUE, 10, 1190400, 50)}
MCFpsErrors == {-6, 3}
=============================================================================
