-------------------------- MODULE PipelineLifecycle --------------------------
(***************************************************************************)
(* Start and stop of the pipeline: startAll and stopAll of ConfigManager,   *)
(* the start and stop of each module with the thread it owns, and the two   *)
(* programs that call them, the mission and the benchmark.  The power       *)
(* monitor, which is optional, is left to its own module.                   *)
(***************************************************************************)
EXTENDS CaptureBuffers

CONSTANTS
  Drivers,        \* the programs considered: "mission", "benchmark"
  OutCap          \* capacity of alg2Disp

ASSUME LifecycleAssumption ==
  Drivers \subseteq {"mission", "benchmark"} /\ OutCap \in Nat \ {0}

VARIABLES
  phase, todo,    \* the main thread, and the modules it has still to handle
  joining,        \* it waits for the thread of the first of them
  object,         \* display_, algo_, camera_, soc_, and the selector's thread object
  flag,           \* running_ of display, worker and selector, monitoringActive_
  thread,         \* their threads
  pipelineReady, shutdown_flag,
  windowOpen,     \* SdlDisplayConcrete::running_
  outLen          \* the length of alg2Disp

mainVars == <<phase, todo, joining, object, pipelineReady, shutdown_flag>>
vars == <<captureVars, mainVars, flag, thread, windowOpen, outLen>>

\* The order in which buildPipeline creates the modules: consumers first.
StartOrder == <<"display", "algorithm", "camera", "soc", "selector">>
Modules    == {"display", "algorithm", "camera", "soc", "selector"}
Threaded   == Modules \ {"camera"}     \* the capture thread is in CaptureBuffers

\* seeded: the modules stop in the order in which they started
StopOrderForward == StartOrder
\* The display, then the rest in reverse order.
StopOrder == <<"display", "selector", "soc", "camera", "algorithm">>

ThreadSteps == {"none", "exited", "run", "pop", "work", "push", "read", "ready", "warmup"}

TypeOK ==
  /\ CaptureTypeOK
  /\ phase \in {"starting", "running", "stopping", "leaving", "ended",
               "unwinding", "unwound"}
  /\ todo \in Seq(Modules) /\ joining \in BOOLEAN
  /\ object \in [Modules -> {"none", "exists", "destroyed"}]
  /\ flag \in [Threaded -> BOOLEAN] /\ thread \in [Threaded -> ThreadSteps]
  /\ pipelineReady \in BOOLEAN /\ shutdown_flag \in BOOLEAN
  /\ windowOpen \in BOOLEAN /\ outLen \in 0 .. OutCap

Init ==
  /\ CaptureInit
  /\ phase = "starting" /\ todo = StartOrder /\ joining = FALSE
  /\ object = [m \in Modules |-> "none"]
  /\ flag = [m \in Threaded |-> FALSE] /\ thread = [m \in Threaded |-> "none"]
  /\ pipelineReady = FALSE /\ shutdown_flag = FALSE
  /\ windowOpen = TRUE /\ outLen = 0

Ended(m) == IF m = "camera" THEN CaptureEnded ELSE thread[m] \in {"none", "exited"}

(***************************************************************************)
(* startAll.                                                               *)
(***************************************************************************)
FirstStep(m) ==
  CASE m = "display" -> "run" [] m = "algorithm" -> "pop"
    [] m = "soc" -> "read"    [] m = "selector" -> "ready"

StartThread(m) ==
  /\ flag' = [flag EXCEPT ![m] = TRUE]
  /\ thread' = [thread EXCEPT ![m] = FirstStep(m)]
  /\ UNCHANGED captureVars

\* Module by module; after the last one the selector is let go.
StartModule ==
  /\ phase = "starting" /\ todo # <<>>
  /\ LET m == Head(todo) IN
       /\ object' = [object EXCEPT ![m] = "exists"]
       /\ IF m = "camera" THEN OpenCamera /\ UNCHANGED <<flag, thread>>
                          ELSE StartThread(m)
  /\ todo' = Tail(todo)
  /\ UNCHANGED <<phase, joining, pipelineReady, shutdown_flag, windowOpen, outLen>>

Started ==
  /\ phase = "starting" /\ todo = <<>>
  /\ pipelineReady' = TRUE
  /\ phase' = "running"
  /\ UNCHANGED <<captureVars, todo, joining, object, shutdown_flag,
                 flag, thread, windowOpen, outLen>>

\* A module that throws: display, camera and SoC monitor after their object was
\* made.  The mission then stops what runs; the benchmark lets the exception
\* unwind the manager and with it the modules, in the order of creation.
StartFails ==
  /\ phase = "starting" /\ todo # <<>> /\ Head(todo) # "selector"
  /\ object' = IF Head(todo) = "algorithm" THEN object
                                           ELSE [object EXCEPT ![Head(todo)] = "exists"]
  /\ \/ /\ "mission" \in Drivers
        /\ shutdown_flag' = TRUE
        /\ phase' = "stopping" /\ todo' = StopOrder
     \/ /\ "benchmark" \in Drivers
        /\ phase' = "unwinding" /\ todo' = StartOrder
        /\ UNCHANGED shutdown_flag
  /\ UNCHANGED <<captureVars, joining, pipelineReady, flag, thread, windowOpen, outLen>>

\* seeded: the flag is left to the modules
StopUnannounced ==
  /\ phase = "running"
  /\ phase' = "stopping" /\ todo' = StopOrder
  /\ UNCHANGED <<captureVars, joining, object, pipelineReady, shutdown_flag,
                 flag, thread, windowOpen, outLen>>

\* The run is over, was interrupted, or has delivered no frames in time: the
\* driver raises the flag and calls stopAll.
StopPipeline ==
  /\ phase = "running"
  /\ shutdown_flag' = TRUE
  /\ phase' = "stopping" /\ todo' = StopOrder
  /\ UNCHANGED <<captureVars, joining, object, pipelineReady,
                 flag, thread, windowOpen, outLen>>

(***************************************************************************)
(* stopAll, or the destructors of the modules when they unwind.            *)
(***************************************************************************)
Stops == phase \in {"stopping", "unwinding"} /\ todo # <<>>

\* The destructors of DisplayModule and EvolutionarySelector do not stop their
\* threads; those of the worker, the camera and the SoC monitor do.
AsksToStop(m) == phase = "stopping" \/ m \in {"algorithm", "camera", "soc"}

RequestStop ==
  /\ Stops /\ ~joining /\ AsksToStop(Head(todo))
  /\ IF Head(todo) = "camera" THEN RequestCaptureStop /\ UNCHANGED flag
     ELSE flag' = [flag EXCEPT ![Head(todo)] = FALSE] /\ UNCHANGED captureVars
  /\ joining' = TRUE
  /\ UNCHANGED <<phase, todo, object, pipelineReady, shutdown_flag,
                 thread, windowOpen, outLen>>

\* seeded: the thread is told, and left to itself
NotWaitedFor(m) == joining
WaitedFor(m)    == joining /\ Ended(m)

\* The object goes, and with it what it holds: the display's last frame, the
\* camera's mappings.
DestroyObject ==
  /\ Stops
  /\ LET m == Head(todo) IN
       /\ IF AsksToStop(m) THEN WaitedFor(m) ELSE ~joining
       /\ object' = [object EXCEPT ![m] = IF @ = "exists" THEN "destroyed" ELSE @]
       /\ CASE m = "display" -> ShowNothing
            [] m = "camera"  -> CloseDevice
            [] OTHER         -> UNCHANGED captureVars
  /\ joining' = FALSE
  /\ todo' = Tail(todo)
  /\ UNCHANGED <<phase, pipelineReady, shutdown_flag, flag, thread, windowOpen, outLen>>

\* The manager and the queues are gone; the ThreadManager joins what is left.
Leave ==
  /\ phase \in {"stopping", "unwinding"} /\ todo = <<>>
  /\ phase' = IF phase = "stopping" THEN "leaving" ELSE "unwound"
  /\ UNCHANGED <<captureVars, todo, joining, object, pipelineReady, shutdown_flag,
                 flag, thread, windowOpen, outLen>>

JoinAll ==
  /\ phase \in {"leaving", "unwound"}
  /\ \A m \in Modules \ {"soc", "selector"} : Ended(m)
  /\ phase' = "ended"
  /\ UNCHANGED <<captureVars, todo, joining, object, pipelineReady, shutdown_flag,
                 flag, thread, windowOpen, outLen>>

Main == StartModule \/ StartFails \/ Started \/ RequestStop \/ DestroyObject \/ Leave \/ JoinAll

(***************************************************************************)
(* The threads.                                                            *)
(***************************************************************************)
Goto(m, step) == thread' = [thread EXCEPT ![m] = step]
Exit(m)       == Goto(m, "exited") /\ UNCHANGED captureVars

Capture ==
  CaptureThread /\ UNCHANGED <<mainVars, flag, thread, windowOpen, outLen>>

RenderGoesOn == flag["display"] /\ windowOpen /\ ~shutdown_flag

\* One tick takes all that is in both queues.
Renders ==
  /\ thread["display"] = "run"
  /\ \/ /\ RenderGoesOn /\ (cam2Disp # <<>> \/ outLen > 0)
        /\ ShowNewest /\ outLen' = 0
        /\ UNCHANGED thread
     \/ /\ ~RenderGoesOn
        /\ Exit("display")
        /\ UNCHANGED outLen
  /\ UNCHANGED <<mainVars, flag, windowOpen>>

WindowCloses ==
  /\ thread["display"] = "run" /\ windowOpen
  /\ windowOpen' = FALSE
  /\ UNCHANGED <<captureVars, mainVars, flag, thread, outLen>>

\* pop_for looks at running_ again after at most a poll period.
WorkerPops ==
  /\ thread["algorithm"] = "pop"
  /\ \/ ~flag["algorithm"] /\ Exit("algorithm")
     \/ flag["algorithm"] /\ cam2Alg # <<>> /\ TakeNewest /\ Goto("algorithm", "work")
  /\ UNCHANGED <<mainVars, flag, windowOpen, outLen>>

\* The output is a copy; the input is held until the loop comes round.
WorkerWorks ==
  /\ thread["algorithm"] = "work"
  /\ \/ Goto("algorithm", "push") /\ UNCHANGED captureVars
     \/ Goto("algorithm", "pop") /\ LetGo
  /\ UNCHANGED <<mainVars, flag, windowOpen, outLen>>

OutputHasSpace == outLen < OutCap

WorkerPushes ==
  /\ thread["algorithm"] = "push" /\ OutputHasSpace
  /\ outLen' = outLen + 1
  /\ LetGo /\ Goto("algorithm", "pop")
  /\ UNCHANGED <<mainVars, flag, windowOpen>>

\* fgets returns with the next line; then monitoringActive_ is tested.
SoCEnds ==
  /\ thread["soc"] = "read" /\ ~flag["soc"]
  /\ Exit("soc")
  /\ UNCHANGED <<mainVars, flag, windowOpen, outLen>>

\* seeded: the pipeline is not waited for
AnyTime == TRUE
Ready   == pipelineReady

SelectorWaits ==
  /\ thread["selector"] = "ready"
  /\ \/ Ready /\ Goto("selector", "warmup")
     \/ ~Ready /\ shutdown_flag /\ Goto("selector", "exited")
  /\ UNCHANGED <<captureVars, mainVars, flag, windowOpen, outLen>>

\* The loop sets running_ again, over a stop that came during the warm-up.
SelectorEngages ==
  /\ thread["selector"] = "warmup"
  /\ flag' = [flag EXCEPT !["selector"] = TRUE]
  /\ Goto("selector", "run")
  /\ UNCHANGED <<captureVars, mainVars, windowOpen, outLen>>

SelectorLeaves ==
  /\ thread["selector"] = "run"
  /\ ~flag["selector"] \/ shutdown_flag
  /\ Exit("selector")
  /\ UNCHANGED <<mainVars, flag, windowOpen, outLen>>

Worker   == WorkerPops \/ WorkerWorks \/ WorkerPushes
Selector == SelectorWaits \/ SelectorEngages \/ SelectorLeaves

Next ==
  \/ Main \/ StopPipeline \/ WindowCloses
  \/ Capture \/ Renders \/ Worker \/ SoCEnds \/ Selector

Spec == Init /\ [][Next]_vars

\* Every thread is scheduled and tegrastats goes on printing lines; the driver
\* may run for ever and nobody has to close the window.
FairSpec ==
  /\ Spec
  /\ WF_vars(Main) /\ WF_vars(Capture) /\ WF_vars(Renders)
  /\ WF_vars(Worker) /\ WF_vars(SoCEnds) /\ WF_vars(Selector)
-----------------------------------------------------------------------------
(***************************************************************************)
(* Properties.                                                             *)
(***************************************************************************)

\* Where stopAll is called no thread outlives the object it works on, wherever
\* startAll failed and however far the thread had come.
ThreadHasObject ==
  phase \notin {"unwinding", "unwound"} =>
    \A m \in Modules : ~Ended(m) => object[m] = "exists"

\* The selector evolves only while the modules it measures and steers exist: it
\* waits for the last of them to start and is stopped before any but the display.
ControlsWholePipeline ==
  thread["selector"] = "run" =>
    \A m \in Modules \ {"display"} : object[m] = "exists"

\* With the window open, the driver gets buffers back and capture goes on.
StarvationEnds ==
  Starved /\ phase = "running"
    ~> \/ ~Starved \/ phase # "running" \/ ~windowOpen
       \/ \E b \in Buffers : buf[b] = "lost"

\* stopAll returns, after every start that failed and from every point of the
\* selector's warm-up, unless the worker is stuck behind a display that is gone.
StopAllReturns ==
  []<>(thread["algorithm"] # "push" \/ OutputHasSpace) =>
    (phase = "stopping" ~> phase = "ended")
=============================================================================
