------------------------- MODULE ContinualLearning --------------------------
(***************************************************************************)
(* What the mission promises about learning, with no threads: one learner  *)
(* that is never restarted, goes from one workload context to the next, and*)
(* in each learns from frames of that workload only, each frame at most    *)
(* once and in the order of their numbers.                                 *)
(***************************************************************************)
EXTENDS Naturals

CONSTANTS Frames, Contexts

VARIABLES
  context, epoch,          \* the current context and how many there were before
  generation, lastFrame,   \* how often it learned, and the frame it learned from last
  source                   \* in which context and epoch a frame was produced

vars == <<context, epoch, generation, lastFrame, source>>

Init ==
  /\ context \in Contexts
  /\ epoch = 0 /\ generation = 0 /\ lastFrame = 0
  /\ source = [f \in Frames |-> {}]

\* A frame is produced once, in the current epoch or already in the next.
Produce(f) ==
  /\ source[f] = {}
  /\ \E c \in Contexts, e \in {epoch, epoch + 1} : source' = [source EXCEPT ![f] = {<<c, e>>}]
  /\ UNCHANGED <<context, epoch, generation, lastFrame>>

Learn(f) ==
  /\ f > lastFrame
  /\ source[f] = {<<context, epoch>>}
  /\ generation' = generation + 1
  /\ lastFrame' = f
  /\ UNCHANGED <<context, epoch, source>>

\* A new context takes nothing away from what was learned.
Switch(c) ==
  /\ context' = c
  /\ epoch' = epoch + 1
  /\ UNCHANGED <<generation, lastFrame, source>>

Next ==
  \/ \E f \in Frames : Learn(f) \/ Produce(f)
  \/ \E c \in Contexts : Switch(c)

Spec == Init /\ [][Next]_vars
=============================================================================
