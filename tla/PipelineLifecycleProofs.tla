----------------------- MODULE PipelineLifecycleProofs -----------------------
(***************************************************************************)
(* Proofs about PipelineLifecycle and the CaptureBuffers in it, for any     *)
(* number of buffers, limits of the queues, kinds of camera and programs.   *)
(***************************************************************************)
EXTENDS PipelineLifecycle, SequenceTheorems, TLAPS

-----------------------------------------------------------------------------
(* Sequences *)

LEMMA Appended ==
  ASSUME NEW S, NEW q \in Seq(S), NEW e \in S
  PROVE  ToSet(Append(q, e)) = ToSet(q) \cup {e}
BY AppendProperties, LenProperties DEF ToSet

LEMMA LastIn ==
  ASSUME NEW S, NEW q \in Seq(S), q # <<>>
  PROVE  Last(q) \in S /\ Last(q) \in ToSet(q)
<1>1. Len(q) \in 1 .. Len(q)
  BY EmptySeq, LenProperties
<1> QED  BY <1>1, LenProperties DEF ToSet, Last

LEMMA NoneIn == ToSet(<<>>) = {}
BY DEF ToSet

\* What is left to do shrinks by its head.
LEMMA HeadGoes ==
  ASSUME NEW S, NEW q \in Seq(S), q # <<>>
  PROVE  /\ Head(q) \in S /\ Tail(q) \in Seq(S)
         /\ ToSet(q) = ToSet(Tail(q)) \cup {Head(q)}
<1>1. /\ Head(q) \in S /\ Tail(q) \in Seq(S) /\ Len(Tail(q)) = Len(q) - 1
      /\ \A i \in 1 .. Len(Tail(q)) : Tail(q)[i] = q[i + 1]
  BY HeadTailProperties
<1>2. Len(q) \in Nat \ {0} /\ DOMAIN q = 1 .. Len(q) /\ DOMAIN Tail(q) = 1 .. Len(Tail(q))
  BY <1>1, EmptySeq, LenProperties
<1>3. Head(q) = q[1]
  OBVIOUS
<1>4. ASSUME NEW i \in DOMAIN q PROVE q[i] \in ToSet(Tail(q)) \cup {Head(q)}
  <2>1. CASE i = 1
    BY <1>3, <2>1
  <2>2. CASE i # 1
    <3>1. i - 1 \in DOMAIN Tail(q) /\ Tail(q)[i - 1] = q[i]
      BY <1>1, <1>2, <1>4, <2>2
    <3> QED  BY <3>1 DEF ToSet
  <2> QED  BY <2>1, <2>2
<1>5. ASSUME NEW i \in DOMAIN Tail(q) PROVE Tail(q)[i] \in ToSet(q)
  <2>1. i + 1 \in DOMAIN q /\ Tail(q)[i] = q[i + 1]
    BY <1>1, <1>2, <1>5
  <2> QED  BY <2>1 DEF ToSet
<1>6. Head(q) \in ToSet(q)
  BY <1>2, <1>3 DEF ToSet
<1>7. ToSet(q) = ToSet(Tail(q)) \cup {Head(q)}
  <2>1. ToSet(q) \subseteq ToSet(Tail(q)) \cup {Head(q)}
    BY ONLY <1>4 DEF ToSet
  <2>2. ToSet(Tail(q)) \subseteq ToSet(q)
    BY ONLY <1>5 DEF ToSet
  <2> QED  BY <1>6, <2>1, <2>2
<1> QED  BY <1>1, <1>7

StartTails ==
  {StartOrder, <<"algorithm", "camera", "soc", "selector">>,
   <<"camera", "soc", "selector">>, <<"soc", "selector">>, <<"selector">>, <<>>}
StopTails ==
  {StopOrder, <<"selector", "soc", "camera", "algorithm">>,
   <<"soc", "camera", "algorithm">>, <<"camera", "algorithm">>, <<"algorithm">>, <<>>}

\* The selector starts last, and nothing starts twice.
LEMMA StartsInOrder ==
  ASSUME NEW s \in StartTails, s # <<>>
  PROVE  /\ Tail(s) \in StartTails
         /\ Head(s) \notin ToSet(Tail(s))
         /\ "selector" \in ToSet(s)
<1> USE DEF StartTails, StartOrder, ToSet
<1>1. CASE s = StartOrder BY <1>1
<1>2. CASE s = <<"algorithm", "camera", "soc", "selector">> BY <1>2
<1>3. CASE s = <<"camera", "soc", "selector">> BY <1>3
<1>4. CASE s = <<"soc", "selector">> BY <1>4
<1>5. CASE s = <<"selector">> BY <1>5
<1> QED  BY <1>1, <1>2, <1>3, <1>4, <1>5

\* Only the display stops before the selector.
LEMMA StopsInOrder ==
  ASSUME NEW s \in StopTails, s # <<>>
  PROVE  /\ Tail(s) \in StopTails
         /\ "selector" \in ToSet(s) => Head(s) \in {"display", "selector"}
<1> USE DEF StopTails, StopOrder, ToSet
<1>1. CASE s = StopOrder BY <1>1
<1>2. CASE s = <<"selector", "soc", "camera", "algorithm">> BY <1>2
<1>3. CASE s = <<"soc", "camera", "algorithm">> BY <1>3
<1>4. CASE s = <<"camera", "algorithm">> BY <1>4
<1>5. CASE s = <<"algorithm">> BY <1>5
<1> QED  BY <1>1, <1>2, <1>3, <1>4, <1>5

-----------------------------------------------------------------------------
(* The frames *)

\* The capture thread has a frame between its dequeue and its second push, and
\* before it was started nobody has one.
Holding == cpc \in {"pushAlg", "pushDisp"} => frame \in Frames
Untouched == frame = NoFrame /\ cam2Alg = <<>> /\ cam2Disp = <<>> /\ inHand = NoFrame /\ shown = NoFrame
Fresh == cpc = "none" => Untouched

CaptureInv == CaptureTypeOK /\ Holding /\ Fresh /\ NeverRefilled

LEMMA NoFrameIsNone == NoFrame \notin Frames /\ NoFrame \notin Buffers /\ Copy \notin Buffers
BY CaptureAssumption DEF NoFrame, Frames, Buffers, Copy

LEMMA Requeued ==
  ASSUME buf \in [Buffers -> BufferStates], NEW freed, freed \subseteq Buffers, Requeue(freed)
  PROVE  /\ buf' \in [Buffers -> BufferStates]
         /\ \A b \in Buffers : buf'[b] = "queued" => b \in freed \/ buf[b] = "queued"
BY DEF Requeue, BufferStates

\* A step that adds no reference, and requeues what it leaves without one.
LEMMA RecycleIsSafe ==
  ASSUME buf \in [Buffers -> BufferStates], NeverRefilled, Recycle,
         Referenced' \subseteq Referenced
  PROVE  buf' \in [Buffers -> BufferStates] /\ NeverRefilled'
<1> DEFINE freed == {b \in Buffers : buf[b] = "inUse" /\ b \notin Referenced'}
<1>1. freed \subseteq Buffers /\ Requeue(freed)
  BY DEF Recycle
<1>2. freed \cap Referenced' = {}
  OBVIOUS
<1> HIDE DEF freed
<1>3. /\ buf' \in [Buffers -> BufferStates]
      /\ \A b \in Buffers : buf'[b] = "queued" => b \in freed \/ buf[b] = "queued"
  BY <1>1, Requeued
<1>4. Referenced' \subseteq Buffers
  BY DEF Referenced, Buffers
<1> QED  BY <1>2, <1>3, <1>4 DEF NeverRefilled

\* Steps that leave the references alone.
LEMMA QuietSteps ==
  ASSUME CaptureInv, Selects \/ RequestCaptureStop \/ CloseDevice \/ UNCHANGED captureVars
  PROVE  CaptureInv'
<1> USE DEF CaptureInv, CaptureTypeOK, Holding, Fresh, Untouched, NeverRefilled, Referenced,
        LoopElsewhere, NextRound
<1>1. CASE Selects
  BY <1>1 DEF Selects
<1>2. CASE RequestCaptureStop
  BY <1>2 DEF RequestCaptureStop
<1>3. CASE CloseDevice
  BY <1>3 DEF CloseDevice, BufferStates
<1>4. CASE UNCHANGED captureVars
  BY <1>4 DEF captureVars
<1> QED  BY <1>1, <1>2, <1>3, <1>4

\* The buffers are mapped and queued only before the first frame.
LEMMA OpeningIsSafe ==
  ASSUME CaptureInv, cpc = "none", OpenCamera
  PROVE  CaptureInv'
<1>1. Untouched /\ Untouched'
  BY DEF CaptureInv, Fresh, Untouched, OpenCamera
<1>2. Referenced' = {}
  BY <1>1, NoFrameIsNone, NoneIn DEF Untouched, Referenced
<1>3. buf' \in [Buffers -> BufferStates]
  BY DEF OpenCamera, MapBuffers, BufferStates
<1>4. CaptureTypeOK' /\ Holding' /\ Fresh'
  BY <1>1, <1>3 DEF CaptureInv, CaptureTypeOK, Holding, Fresh, OpenCamera
<1> QED  BY <1>2, <1>4 DEF CaptureInv, NeverRefilled

\* A frame is made from a buffer the driver had.
LEMMA DequeueIsSafe ==
  ASSUME CaptureInv, DropsFrame \/ Dequeues
  PROVE  CaptureInv'
<1> USE DEF CaptureInv, CaptureTypeOK, Holding, Fresh, Untouched, LoopElsewhere, NextRound
<1>1. CASE DropsFrame
  <2>1. PICK b \in Buffers : buf[b] = "queued" /\ Requeue({b})
    BY <1>1 DEF DropsFrame
  <2>2. /\ buf' \in [Buffers -> BufferStates]
        /\ \A c \in Buffers : buf'[c] = "queued" => buf[c] = "queued"
    BY <2>1, Requeued
  <2>3. Referenced' = Referenced
    BY <1>1 DEF DropsFrame, Referenced
  <2>4. NeverRefilled'
    BY <2>2, <2>3 DEF NeverRefilled, Referenced
  <2> QED  BY <1>1, <2>2, <2>4 DEF DropsFrame
<1>2. CASE Dequeues
  <2>1. PICK b \in Buffers :
          /\ buf[b] = "queued"
          /\ \/ frame' = b /\ buf' = [buf EXCEPT ![b] = "inUse"]
             \/ frame' = Copy /\ Requeue({b})
    BY <1>2 DEF Dequeues, HandOut
  <2>2. /\ buf' \in [Buffers -> BufferStates]
        /\ \A c \in Buffers : buf'[c] = "queued" => buf[c] = "queued"
    BY <2>1, Requeued DEF BufferStates
  <2>3. frame' \in Frames
    BY <2>1 DEF Frames
  <2>4. Referenced' \subseteq Referenced \cup {frame'}
    BY <1>2 DEF Dequeues, Referenced
  <2>5. frame' \in Buffers => buf'[frame'] # "queued"
    BY <2>1, NoFrameIsNone
  <2>6. NeverRefilled'
    BY <2>2, <2>4, <2>5 DEF NeverRefilled, Referenced
  <2> QED  BY <1>2, <2>2, <2>3, <2>6 DEF Dequeues
<1> QED  BY <1>1, <1>2

LEMMA OfferedQueue ==
  ASSUME NEW q \in Seq(Frames), Len(q) <= QueueLimit, frame \in Frames
  PROVE  /\ Offered(q) \in Seq(Frames) /\ Len(Offered(q)) <= QueueLimit
         /\ ToSet(Offered(q)) \subseteq ToSet(q) \cup {frame}
<1>1. CASE Len(q) < QueueLimit
  BY <1>1, Appended, AppendProperties, LenProperties, CaptureAssumption DEF Offered
<1>2. CASE ~(Len(q) < QueueLimit)
  BY <1>2 DEF Offered
<1> QED  BY <1>1, <1>2

LEMMA PushIsSafe ==
  ASSUME CaptureInv, PushesToAlgorithm \/ PushesToDisplay
  PROVE  CaptureInv'
<1> USE DEF CaptureInv, CaptureTypeOK, Holding, Fresh, Untouched, NextRound
<1>1. CASE PushesToAlgorithm
  <2>1. /\ cam2Alg' \in Seq(Frames) /\ Len(cam2Alg') <= QueueLimit
        /\ ToSet(cam2Alg') \subseteq ToSet(cam2Alg) \cup {frame}
    BY <1>1, OfferedQueue DEF PushesToAlgorithm
  <2>2. Referenced' \subseteq Referenced
    BY <1>1, <2>1 DEF PushesToAlgorithm, Referenced
  <2>3. NeverRefilled'
    BY <1>1, <2>2 DEF NeverRefilled, PushesToAlgorithm
  <2> QED  BY <1>1, <2>1, <2>3 DEF PushesToAlgorithm
<1>2. CASE PushesToDisplay
  <2>1. /\ cam2Disp' \in Seq(Frames) /\ Len(cam2Disp') <= QueueLimit
        /\ ToSet(cam2Disp') \subseteq ToSet(cam2Disp) \cup {frame}
    BY <1>2, OfferedQueue DEF PushesToDisplay
  <2>2. Referenced' \subseteq Referenced
    BY <1>2, <2>1, NoFrameIsNone DEF PushesToDisplay, Referenced
  <2>3. buf' \in [Buffers -> BufferStates] /\ NeverRefilled'
    BY <1>2, <2>2, RecycleIsSafe DEF PushesToDisplay
  <2> QED  BY <1>2, <2>1, <2>3 DEF PushesToDisplay
<1> QED  BY <1>1, <1>2

\* Consumers pass references on, or drop them.
LEMMA ConsumerIsSafe ==
  ASSUME CaptureInv,
         (TakeNewest /\ cam2Alg # <<>>) \/ LetGo \/ ShowNewest \/ ShowNothing
  PROVE  CaptureInv'
<1> USE DEF CaptureInv, CaptureTypeOK, Holding, Fresh, Untouched
<1>1. Recycle
  BY DEF TakeNewest, LetGo, ShowNewest, ShowNothing
<1>2. <<>> \in Seq(Frames) /\ Len(<<>>) = 0 /\ 0 <= QueueLimit
  BY CaptureAssumption
<1>3. CASE TakeNewest /\ cam2Alg # <<>>
  <2>1. Last(cam2Alg) \in Frames /\ Last(cam2Alg) \in ToSet(cam2Alg)
    BY <1>3, LastIn
  <2>2. Referenced' \subseteq Referenced
    BY <1>3, <2>1, NoneIn DEF TakeNewest, Referenced
  <2>3. buf' \in [Buffers -> BufferStates] /\ NeverRefilled'
    BY <1>1, <2>2, RecycleIsSafe
  <2> QED  BY <1>2, <1>3, <2>1, <2>3 DEF TakeNewest
<1>4. CASE LetGo
  <2>1. Referenced' \subseteq Referenced
    BY <1>4, NoFrameIsNone DEF LetGo, Referenced
  <2>2. buf' \in [Buffers -> BufferStates] /\ NeverRefilled'
    BY <1>1, <2>1, RecycleIsSafe
  <2> QED  BY <1>4, <2>2 DEF LetGo
<1>5. CASE ShowNewest
  <2>1. cam2Disp # <<>> => Last(cam2Disp) \in Frames /\ Last(cam2Disp) \in ToSet(cam2Disp)
    BY LastIn
  <2>2. Referenced' \subseteq Referenced
    BY <1>5, <2>1, NoneIn DEF ShowNewest, Referenced, consumed
  <2>3. buf' \in [Buffers -> BufferStates] /\ NeverRefilled'
    BY <1>1, <2>2, RecycleIsSafe
  <2> QED  BY <1>2, <1>5, <2>1, <2>3 DEF ShowNewest, consumed
<1>6. CASE ShowNothing
  <2>1. Referenced' \subseteq Referenced
    BY <1>6, NoFrameIsNone DEF ShowNothing, Referenced, consumed
  <2>2. buf' \in [Buffers -> BufferStates] /\ NeverRefilled'
    BY <1>1, <2>1, RecycleIsSafe
  <2> QED  BY <1>6, <2>2 DEF ShowNothing, consumed
<1> QED  BY <1>3, <1>4, <1>5, <1>6

LEMMA CaptureThreadIsSafe == CaptureInv /\ CaptureThread => CaptureInv'
BY QuietSteps, DequeueIsSafe, PushIsSafe DEF CaptureThread

-----------------------------------------------------------------------------
(* Start and stop *)

ThreadsTyped == flag \in [Threaded -> BOOLEAN] /\ thread \in [Threaded -> ThreadSteps]
MainTyped ==
  /\ phase \in {"starting", "running", "stopping", "leaving", "ended", "unwinding", "unwound"}
  /\ todo \in Seq(Modules) /\ joining \in BOOLEAN
  /\ object \in [Modules -> {"none", "exists", "destroyed"}]
  /\ pipelineReady \in BOOLEAN /\ shutdown_flag \in BOOLEAN
  /\ windowOpen \in BOOLEAN /\ outLen \in 0 .. OutCap

LEMMA TypeParts == TypeOK <=> CaptureTypeOK /\ MainTyped /\ ThreadsTyped
BY DEF TypeOK, MainTyped, ThreadsTyped

Left == ToSet(todo)

\* The modules start and stop in order.
Ordered ==
  /\ phase \in {"starting", "unwinding"} => todo \in StartTails
  /\ phase = "stopping" => todo \in StopTails

\* What startAll has still to start is not there; the rest is.
Starting ==
  phase = "starting" =>
    /\ ~joining /\ ~pipelineReady /\ ~shutdown_flag
    /\ \A m \in Modules \ Left : object[m] = "exists"
    /\ \A m \in Left : Ended(m)
    /\ "camera" \in Left => cpc = "none"

\* What stopAll has handled has ended.
Stopping == phase \in {"stopping", "leaving"} => \A m \in Modules \ Left : Ended(m)

\* An exception during the start finds the selector not yet started, and the
\* destructors end the threads of those modules that join theirs.
Unwinding ==
  phase \in {"unwinding", "unwound"} =>
    /\ ~pipelineReady /\ Ended("selector")
    /\ \A m \in {"algorithm", "camera", "soc"} \ Left : Ended(m)

Emptied == phase \in {"leaving", "unwound"} => todo = <<>>

\* The selector gets past its wait only in a pipeline that is complete, and that
\* stays complete, but for the display, until the selector has ended.
Selecting ==
  /\ thread["selector"] \in {"warmup", "run"} => pipelineReady
  /\ pipelineReady /\ ~Ended("selector") =>
       \A m \in Modules \ {"display"} : object[m] = "exists"

LifecycleInv ==
  /\ MainTyped /\ ThreadsTyped /\ CaptureInv
  /\ Ordered /\ Starting /\ Stopping /\ Unwinding /\ Emptied /\ Selecting /\ ThreadHasObject

LEMMA InitLifecycle == Init => LifecycleInv
<1> SUFFICES ASSUME Init PROVE LifecycleInv
  OBVIOUS
<1>1. ToSet(StartOrder) = Modules /\ StartOrder \in Seq(Modules)
  BY DEF ToSet, StartOrder, Modules
<1>2. MainTyped /\ ThreadsTyped
  <2>1. MainTyped
    <3>1. 0 \in 0 .. OutCap
      BY LifecycleAssumption
    <3>2. object \in [Modules -> {"none", "exists", "destroyed"}]
      BY DEF Init
    <3>3. todo \in Seq(Modules)
      BY <1>1 DEF Init
    <3> QED  BY <3>1, <3>2, <3>3 DEF Init, MainTyped
  <2>2. ThreadsTyped
    BY DEF Init, ThreadsTyped, ThreadSteps
  <2> QED  BY <2>1, <2>2
<1>3. Referenced = {} /\ CaptureTypeOK
  <2>1. CaptureInit
    BY DEF Init
  <2>2. Referenced = {}
    BY <2>1, NoFrameIsNone, NoneIn DEF CaptureInit, Referenced
  <2>3. <<>> \in Seq(Frames) /\ Len(<<>>) = 0 /\ 0 <= QueueLimit
    BY CaptureAssumption
  <2>4. CaptureTypeOK
    BY <2>1, <2>3 DEF CaptureInit, CaptureTypeOK, BufferStates
  <2> QED  BY <2>2, <2>4
<1>4. CaptureInv
  BY <1>3 DEF CaptureInv, Init, CaptureInit, Holding, Fresh, Untouched, NeverRefilled
<1>5. \A m \in Modules : Ended(m)
  BY DEF Init, CaptureInit, Ended, CaptureEnded, Threaded
<1>6. Ordered /\ Starting /\ Stopping /\ Unwinding /\ Emptied /\ Selecting /\ ThreadHasObject
  BY <1>1, <1>5 DEF Init, CaptureInit, Ordered, StartTails, Starting, Stopping, Unwinding, Emptied,
     Selecting, ThreadHasObject, Left, Modules, Threaded
<1> QED  BY <1>2, <1>4, <1>6 DEF LifecycleInv

\* Steps of the threads: they leave the main thread alone, and revive nothing.
ThreadFacts ==
  /\ UNCHANGED mainVars /\ ThreadsTyped' /\ MainTyped' /\ CaptureInv'
  /\ \A m \in Modules : Ended(m) => Ended(m)'
  /\ cpc = "none" => cpc' = "none"
  /\ thread'["selector"] \in {"warmup", "run"} =>
       thread["selector"] \in {"warmup", "run"} \/ pipelineReady

LEMMA ThreadStepIsSafe == LifecycleInv /\ ThreadFacts => LifecycleInv'
<1> SUFFICES ASSUME LifecycleInv, ThreadFacts PROVE LifecycleInv'
  OBVIOUS
<1> USE DEF ThreadFacts
<1>1. /\ phase' = phase /\ todo' = todo /\ joining' = joining /\ object' = object
      /\ pipelineReady' = pipelineReady /\ shutdown_flag' = shutdown_flag
      /\ Left' = Left
  BY DEF mainVars, Left
<1>2. Left \subseteq Modules
  BY DEF LifecycleInv, MainTyped, Left, ToSet
<1>3. Ordered' /\ Emptied'
  BY <1>1 DEF LifecycleInv, Ordered, Emptied
<1>4. Starting'
  BY <1>1, <1>2 DEF LifecycleInv, Starting
<1>5. Stopping'
  BY <1>1 DEF LifecycleInv, Stopping
<1>6. Unwinding'
  BY <1>1 DEF LifecycleInv, Unwinding, Modules
<1>7. Selecting'
  BY <1>1 DEF LifecycleInv, Selecting, Modules
<1>8. ThreadHasObject'
  BY <1>1 DEF LifecycleInv, ThreadHasObject
<1> QED  BY <1>3, <1>4, <1>5, <1>6, <1>7, <1>8 DEF LifecycleInv

\* The thread m goes on, and takes no other with it.
LEMMA GoesOn ==
  ASSUME ThreadsTyped, NEW m \in Threaded, NEW step \in ThreadSteps \ {"none"}, Goto(m, step)
  PROVE  /\ thread' \in [Threaded -> ThreadSteps]
         /\ thread'[m] = step
         /\ \A n \in Threaded \ {m} : thread'[n] = thread[n]
BY DEF ThreadsTyped, Goto

\* A thread that was live and goes on is no danger.
LEMMA ThreadMoves ==
  ASSUME ThreadsTyped, NEW m \in Threaded, ~Ended(m),
         thread' \in [Threaded -> ThreadSteps],
         \A n \in Threaded \ {m} : thread'[n] = thread[n],
         cpc' = cpc
  PROVE  \A n \in Modules : Ended(n) => Ended(n)'
BY DEF Ended, CaptureEnded, Threaded

LEMMA ConsumersLeaveCapture ==
  ASSUME TakeNewest \/ LetGo \/ ShowNewest \/ ShowNothing \/ UNCHANGED captureVars
  PROVE  cpc' = cpc
BY DEF TakeNewest, LetGo, ShowNewest, ShowNothing, captureVars

LEMMA CaptureStep == LifecycleInv /\ Capture => ThreadFacts
<1> SUFFICES ASSUME LifecycleInv, Capture PROVE ThreadFacts
  OBVIOUS
<1>1. CaptureThread /\ UNCHANGED <<mainVars, flag, thread, windowOpen, outLen>>
  BY DEF Capture
<1>2. CaptureInv'
  BY <1>1, CaptureThreadIsSafe DEF LifecycleInv
<1>3. cpc \notin {"none", "exited"}
  BY <1>1 DEF CaptureThread, Selects, DropsFrame, Dequeues, PushesToAlgorithm, PushesToDisplay
<1>4. ThreadsTyped' /\ MainTyped'
  BY <1>1 DEF LifecycleInv, ThreadsTyped, MainTyped, mainVars
<1>5. \A m \in Modules : Ended(m) => Ended(m)'
  BY <1>1, <1>3 DEF Ended, CaptureEnded
<1> QED  BY <1>1, <1>2, <1>3, <1>4, <1>5 DEF ThreadFacts

LEMMA DisplayStep == LifecycleInv /\ (Renders \/ WindowCloses) => ThreadFacts
<1> SUFFICES ASSUME LifecycleInv, Renders \/ WindowCloses PROVE ThreadFacts
  OBVIOUS
<1>0. /\ "display" \in Threaded /\ "selector" \in Threaded
      /\ "exited" \in ThreadSteps \ {"none"} /\ 0 \in 0 .. OutCap
  BY LifecycleAssumption DEF Threaded, Modules, ThreadSteps
<1>1. UNCHANGED mainVars /\ flag' = flag /\ (ShowNewest \/ UNCHANGED captureVars)
  BY DEF Renders, WindowCloses, Exit, mainVars
<1>2. CaptureInv' /\ cpc' = cpc
  BY <1>1, ConsumerIsSafe, QuietSteps, ConsumersLeaveCapture DEF LifecycleInv
<1>3. /\ thread["display"] = "run"
      /\ thread' = thread \/ Goto("display", "exited")
  BY DEF Renders, WindowCloses, Exit
<1>4. /\ thread' \in [Threaded -> ThreadSteps]
      /\ \A n \in Threaded \ {"display"} : thread'[n] = thread[n]
  BY <1>0, <1>3, GoesOn DEF LifecycleInv, ThreadsTyped
<1>5. ThreadsTyped'
  BY <1>1, <1>4 DEF LifecycleInv, ThreadsTyped
<1>6. MainTyped'
  <2>1. windowOpen' \in BOOLEAN /\ outLen' \in 0 .. OutCap
    BY <1>0 DEF Renders, WindowCloses, LifecycleInv, MainTyped
  <2> QED  BY <1>1, <2>1 DEF LifecycleInv, MainTyped, mainVars
<1>7. \A m \in Modules : Ended(m) => Ended(m)'
  BY <1>0, <1>2, <1>3, <1>4, ThreadMoves DEF LifecycleInv, Ended
<1> QED  BY <1>0, <1>1, <1>2, <1>4, <1>5, <1>6, <1>7 DEF ThreadFacts

LEMMA WorkerStep == LifecycleInv /\ Worker => ThreadFacts
<1> SUFFICES ASSUME LifecycleInv, Worker PROVE ThreadFacts
  OBVIOUS
<1>0. /\ "algorithm" \in Threaded /\ "selector" \in Threaded
      /\ {"pop", "work", "push", "exited"} \subseteq ThreadSteps \ {"none"}
  BY DEF Threaded, Modules, ThreadSteps
<1>1. /\ UNCHANGED mainVars /\ flag' = flag /\ windowOpen' = windowOpen
      /\ (TakeNewest /\ cam2Alg # <<>>) \/ LetGo \/ UNCHANGED captureVars
  BY DEF Worker, WorkerPops, WorkerWorks, WorkerPushes, Exit, mainVars
<1>2. CaptureInv' /\ cpc' = cpc
  BY <1>1, ConsumerIsSafe, QuietSteps, ConsumersLeaveCapture DEF LifecycleInv
<1>3. /\ thread["algorithm"] \in {"pop", "work", "push"}
      /\ \E step \in {"pop", "work", "push", "exited"} : Goto("algorithm", step)
  BY DEF Worker, WorkerPops, WorkerWorks, WorkerPushes, Exit
<1>4. /\ thread' \in [Threaded -> ThreadSteps]
      /\ \A n \in Threaded \ {"algorithm"} : thread'[n] = thread[n]
  BY <1>0, <1>3, GoesOn DEF LifecycleInv
<1>5. ThreadsTyped'
  BY <1>1, <1>4 DEF LifecycleInv, ThreadsTyped
<1>6. MainTyped'
  <2>1. outLen' \in 0 .. OutCap
    BY LifecycleAssumption
       DEF Worker, WorkerPops, WorkerWorks, WorkerPushes, OutputHasSpace, LifecycleInv, MainTyped
  <2> QED  BY <1>1, <2>1 DEF LifecycleInv, MainTyped, mainVars
<1>7. \A m \in Modules : Ended(m) => Ended(m)'
  <2>1. ~Ended("algorithm")
    BY <1>3 DEF Ended
  <2> QED  BY <1>0, <1>2, <1>4, <2>1, ThreadMoves DEF LifecycleInv
<1> QED  BY <1>0, <1>1, <1>2, <1>4, <1>5, <1>6, <1>7 DEF ThreadFacts

LEMMA SoCStep == LifecycleInv /\ SoCEnds => ThreadFacts
<1> SUFFICES ASSUME LifecycleInv, SoCEnds PROVE ThreadFacts
  OBVIOUS
<1>0. /\ "soc" \in Threaded /\ "selector" \in Threaded
      /\ "exited" \in ThreadSteps \ {"none"}
  BY DEF Threaded, Modules, ThreadSteps
<1>1. /\ thread["soc"] = "read" /\ Goto("soc", "exited")
      /\ UNCHANGED captureVars /\ UNCHANGED <<mainVars, flag, windowOpen, outLen>>
  BY DEF SoCEnds, Exit
<1>2. CaptureInv' /\ cpc' = cpc
  BY <1>1, QuietSteps, ConsumersLeaveCapture DEF LifecycleInv
<1>4. /\ thread' \in [Threaded -> ThreadSteps]
      /\ \A n \in Threaded \ {"soc"} : thread'[n] = thread[n]
  BY <1>0, <1>1, GoesOn DEF LifecycleInv
<1>5. ThreadsTyped' /\ MainTyped'
  BY <1>1, <1>4 DEF LifecycleInv, ThreadsTyped, MainTyped, mainVars
<1>7. \A m \in Modules : Ended(m) => Ended(m)'
  <2>1. ~Ended("soc")
    BY <1>1 DEF Ended
  <2> QED  BY <1>0, <1>2, <1>4, <2>1, ThreadMoves DEF LifecycleInv
<1> QED  BY <1>0, <1>1, <1>2, <1>4, <1>5, <1>7 DEF ThreadFacts

LEMMA SelectorStep == LifecycleInv /\ Selector => ThreadFacts
<1> SUFFICES ASSUME LifecycleInv, Selector PROVE ThreadFacts
  OBVIOUS
<1>0. /\ "selector" \in Threaded
      /\ {"ready", "warmup", "run", "exited"} \subseteq ThreadSteps \ {"none"}
  BY DEF Threaded, Modules, ThreadSteps
<1>1. UNCHANGED captureVars /\ UNCHANGED <<mainVars, windowOpen, outLen>>
  BY DEF Selector, SelectorWaits, SelectorEngages, SelectorLeaves, Exit
<1>2. CaptureInv' /\ cpc' = cpc
  BY <1>1, QuietSteps, ConsumersLeaveCapture DEF LifecycleInv
<1>3. /\ thread["selector"] \in {"ready", "warmup", "run"}
      /\ \/ Goto("selector", "exited")
         \/ pipelineReady /\ Goto("selector", "warmup")
         \/ thread["selector"] = "warmup" /\ Goto("selector", "run")
      /\ flag' = flag \/ flag' = [flag EXCEPT !["selector"] = TRUE]
  BY DEF Selector, SelectorWaits, SelectorEngages, SelectorLeaves, Exit, Ready
<1>4. /\ thread' \in [Threaded -> ThreadSteps]
      /\ \A n \in Threaded \ {"selector"} : thread'[n] = thread[n]
      /\ thread'["selector"] \in {"warmup", "run"} =>
            thread["selector"] \in {"warmup", "run"} \/ pipelineReady
  BY <1>0, <1>3, GoesOn DEF LifecycleInv
<1>5. flag' \in [Threaded -> BOOLEAN]
  BY <1>3 DEF LifecycleInv, ThreadsTyped
<1>6. ThreadsTyped' /\ MainTyped'
  BY <1>1, <1>4, <1>5 DEF LifecycleInv, ThreadsTyped, MainTyped, mainVars
<1>7. \A m \in Modules : Ended(m) => Ended(m)'
  <2>1. ~Ended("selector")
    BY <1>3 DEF Ended
  <2> QED  BY <1>0, <1>2, <1>4, <2>1, ThreadMoves DEF LifecycleInv
<1> QED  BY <1>1, <1>2, <1>4, <1>6, <1>7 DEF ThreadFacts

LEMMA Stutter == LifecycleInv /\ UNCHANGED vars => ThreadFacts
<1> SUFFICES ASSUME LifecycleInv, UNCHANGED vars PROVE ThreadFacts
  OBVIOUS
<1>1. UNCHANGED captureVars /\ UNCHANGED mainVars /\ thread' = thread
      /\ flag' = flag /\ windowOpen' = windowOpen /\ outLen' = outLen
  BY DEF vars
<1>2. CaptureInv' /\ cpc' = cpc
  BY <1>1, QuietSteps, ConsumersLeaveCapture DEF LifecycleInv
<1>3. ThreadsTyped' /\ MainTyped'
  BY <1>1 DEF LifecycleInv, ThreadsTyped, MainTyped, mainVars
<1>4. \A m \in Modules : Ended(m) => Ended(m)'
  BY <1>1, <1>2 DEF Ended, CaptureEnded
<1> QED  BY <1>1, <1>2, <1>3, <1>4 DEF ThreadFacts

\* Steps of the main thread that leave threads and objects alone.
LEMMA MainOnly ==
  ASSUME LifecycleInv, Started \/ StopPipeline \/ Leave \/ JoinAll
  PROVE  LifecycleInv'
<1>1. /\ UNCHANGED captureVars /\ object' = object /\ flag' = flag /\ thread' = thread
      /\ windowOpen' = windowOpen /\ outLen' = outLen /\ joining' = joining
  BY DEF Started, StopPipeline, Leave, JoinAll
<1>2. CaptureInv' /\ cpc' = cpc /\ ThreadsTyped'
  BY <1>1, QuietSteps, ConsumersLeaveCapture DEF LifecycleInv, ThreadsTyped
<1>3. \A m \in Modules : Ended(m)' <=> Ended(m)
  BY <1>1, <1>2 DEF Ended, CaptureEnded
<1>4. CASE Started
  <2>1. /\ phase = "starting" /\ todo = <<>> /\ phase' = "running" /\ todo' = todo
        /\ pipelineReady' = TRUE /\ shutdown_flag' = shutdown_flag
    BY <1>4 DEF Started
  <2>2. Left = {} /\ Left' = {}
    BY <2>1, NoneIn DEF Left
  <2>3. \A m \in Modules : object'[m] = "exists"
    BY <1>1, <2>1, <2>2 DEF LifecycleInv, Starting
  <2>4. MainTyped'
    BY <1>1, <2>1 DEF LifecycleInv, MainTyped
  <2>5. Ordered' /\ Starting' /\ Stopping' /\ Unwinding' /\ Emptied'
    BY <2>1 DEF Ordered, Starting, Stopping, Unwinding, Emptied
  <2>6. Selecting' /\ ThreadHasObject'
    BY <1>1, <2>1, <2>3 DEF Selecting, ThreadHasObject
  <2> QED  BY <1>2, <2>4, <2>5, <2>6 DEF LifecycleInv
<1>5. CASE StopPipeline
  <2>1. /\ phase = "running" /\ phase' = "stopping" /\ todo' = StopOrder
        /\ pipelineReady' = pipelineReady /\ shutdown_flag' = TRUE
    BY <1>5 DEF StopPipeline
  <2>2. todo' \in Seq(Modules) /\ Left' = Modules
    BY <2>1 DEF Left, ToSet, StopOrder, Modules
  <2>3. MainTyped'
    BY <1>1, <2>1, <2>2 DEF LifecycleInv, MainTyped
  <2>4. Ordered' /\ Starting' /\ Stopping' /\ Unwinding' /\ Emptied'
    BY <2>1, <2>2 DEF Ordered, StopTails, Starting, Stopping, Unwinding, Emptied
  <2>5. Selecting' /\ ThreadHasObject'
    BY <1>1, <1>3, <2>1 DEF LifecycleInv, Selecting, ThreadHasObject, Modules
  <2> QED  BY <1>2, <2>3, <2>4, <2>5 DEF LifecycleInv
<1>6. CASE Leave
  <2>1. /\ phase \in {"stopping", "unwinding"} /\ todo = <<>> /\ todo' = todo
        /\ phase' = IF phase = "stopping" THEN "leaving" ELSE "unwound"
        /\ pipelineReady' = pipelineReady /\ shutdown_flag' = shutdown_flag
    BY <1>6 DEF Leave
  <2>2. Left' = Left
    BY <2>1 DEF Left
  <2>3. MainTyped'
    BY <1>1, <2>1 DEF LifecycleInv, MainTyped
  <2>4. Ordered' /\ Starting' /\ Emptied'
    BY <2>1 DEF Ordered, Starting, Emptied
  <2>5. Stopping' /\ Unwinding'
    BY <1>3, <2>1, <2>2 DEF LifecycleInv, Stopping, Unwinding, Modules
  <2>6. Selecting' /\ ThreadHasObject'
    BY <1>1, <1>3, <2>1 DEF LifecycleInv, Selecting, ThreadHasObject, Modules
  <2> QED  BY <1>2, <2>3, <2>4, <2>5, <2>6 DEF LifecycleInv
<1>7. CASE JoinAll
  <2>1. /\ phase \in {"leaving", "unwound"} /\ phase' = "ended" /\ todo' = todo
        /\ \A m \in Modules \ {"soc", "selector"} : Ended(m)
        /\ pipelineReady' = pipelineReady /\ shutdown_flag' = shutdown_flag
    BY <1>7 DEF JoinAll
  <2>2. Left = {}
    BY <2>1, NoneIn DEF LifecycleInv, Emptied, Left
  <2>3. Ended("soc") /\ Ended("selector")
    BY <2>1, <2>2 DEF LifecycleInv, Stopping, Unwinding, Modules
  <2>4. MainTyped'
    BY <1>1, <2>1 DEF LifecycleInv, MainTyped
  <2>5. Ordered' /\ Starting' /\ Stopping' /\ Unwinding' /\ Emptied'
    BY <2>1 DEF Ordered, Starting, Stopping, Unwinding, Emptied
  <2>6. Selecting' /\ ThreadHasObject'
    BY <1>1, <1>3, <2>1, <2>3 DEF LifecycleInv, Selecting, ThreadHasObject, Modules
  <2> QED  BY <1>2, <2>4, <2>5, <2>6 DEF LifecycleInv
<1> QED  BY <1>4, <1>5, <1>6, <1>7

LEMMA StartModuleIsSafe == LifecycleInv /\ StartModule => LifecycleInv'
<1> SUFFICES ASSUME LifecycleInv, StartModule PROVE LifecycleInv'
  OBVIOUS
<1> DEFINE m == Head(todo)
<1>1. /\ phase = "starting" /\ todo # <<>> /\ phase' = phase /\ todo' = Tail(todo)
      /\ joining' = joining /\ pipelineReady' = pipelineReady /\ shutdown_flag' = shutdown_flag
      /\ windowOpen' = windowOpen /\ outLen' = outLen
      /\ object' = [object EXCEPT ![m] = "exists"]
      /\ IF m = "camera" THEN OpenCamera /\ UNCHANGED <<flag, thread>> ELSE StartThread(m)
  BY DEF StartModule
<1>2. /\ m \in Modules /\ m \in Left /\ Left = Left' \cup {m} /\ m \notin Left'
      /\ todo' \in Seq(Modules) /\ todo' \in StartTails /\ "selector" \in Left
      /\ Left \subseteq Modules
  <2>1. todo \in StartTails /\ todo \in Seq(Modules)
    BY <1>1 DEF LifecycleInv, Ordered, MainTyped
  <2>2. Left' = ToSet(Tail(todo))
    BY <1>1 DEF Left
  <2>3. Left \subseteq Modules
    BY <2>1 DEF Left, ToSet
  <2>4. /\ m \in Modules /\ Tail(todo) \in Seq(Modules) /\ Left = ToSet(Tail(todo)) \cup {m}
    BY ONLY <1>1, <2>1, HeadGoes DEF Left
  <2>5. Tail(todo) \in StartTails /\ m \notin ToSet(Tail(todo)) /\ "selector" \in Left
    BY ONLY <1>1, <2>1, StartsInOrder DEF Left
  <2> QED  BY <1>1, <2>2, <2>3, <2>4, <2>5
<1>3. /\ ~joining /\ ~pipelineReady /\ ~shutdown_flag
      /\ \A n \in Modules \ Left : object[n] = "exists"
      /\ \A n \in Left : Ended(n)
      /\ "camera" \in Left => cpc = "none"
  BY <1>1 DEF LifecycleInv, Starting
<1>4. object' \in [Modules -> {"none", "exists", "destroyed"}] /\ object'[m] = "exists"
      /\ \A n \in Modules \ {m} : object'[n] = object[n]
  BY <1>1, <1>2 DEF LifecycleInv, MainTyped
<1>5. /\ CaptureInv' /\ ThreadsTyped'
      /\ \A n \in Modules \ {m} : Ended(n)' <=> Ended(n)
      /\ m # "camera" => cpc' = cpc
  <2>1. CASE m = "camera"
    <3>1. OpenCamera /\ flag' = flag /\ thread' = thread
      BY <1>1, <2>1
    <3>2. CaptureInv'
      BY <1>2, <1>3, <2>1, <3>1, OpeningIsSafe DEF LifecycleInv
    <3>3. ThreadsTyped'
      BY <3>1 DEF LifecycleInv, ThreadsTyped
    <3> QED  BY <2>1, <3>1, <3>2, <3>3 DEF Ended
  <2>2. CASE m # "camera"
    <3>1. /\ m \in Threaded /\ UNCHANGED captureVars
          /\ flag' = [flag EXCEPT ![m] = TRUE] /\ thread' = [thread EXCEPT ![m] = FirstStep(m)]
      BY <1>1, <1>2, <2>2 DEF StartThread, Threaded
    <3>2. FirstStep(m) \in ThreadSteps
      BY <3>1 DEF FirstStep, ThreadSteps, Threaded, Modules
    <3>3. ThreadsTyped' /\ \A n \in Threaded \ {m} : thread'[n] = thread[n]
      BY <3>1, <3>2 DEF LifecycleInv, ThreadsTyped
    <3>4. CaptureInv' /\ cpc' = cpc
      BY <3>1, QuietSteps, ConsumersLeaveCapture DEF LifecycleInv
    <3>5. \A n \in Modules \ {m} : Ended(n)' <=> Ended(n)
      BY <3>3, <3>4 DEF Ended, CaptureEnded, Threaded
    <3> QED  BY <3>3, <3>4, <3>5
  <2> QED  BY <2>1, <2>2
<1> HIDE DEF m
<1>6. MainTyped'
  BY <1>1, <1>2, <1>4 DEF LifecycleInv, MainTyped
<1>7. Ordered' /\ Stopping' /\ Unwinding' /\ Emptied'
  BY <1>1, <1>2 DEF Ordered, Stopping, Unwinding, Emptied
<1>8. Starting'
  BY <1>1, <1>2, <1>3, <1>4, <1>5 DEF Starting
<1>9. ThreadHasObject'
  BY <1>1, <1>4, <1>5 DEF LifecycleInv, ThreadHasObject
<1>10. Selecting'
  <2>1. thread'["selector"] \notin {"warmup", "run"}
    <3>1. CASE m = "selector"
      BY <1>1, <3>1 DEF LifecycleInv, ThreadsTyped, StartThread, FirstStep, Threaded, Modules
    <3>2. CASE m # "selector"
      BY <1>2, <1>3, <1>5, <3>2 DEF Ended, Modules
    <3> QED  BY <3>1, <3>2
  <2> QED  BY <1>1, <1>3, <2>1 DEF Selecting
<1> QED  BY <1>5, <1>6, <1>7, <1>8, <1>9, <1>10 DEF LifecycleInv

LEMMA StartFailsIsSafe == LifecycleInv /\ StartFails => LifecycleInv'
<1> SUFFICES ASSUME LifecycleInv, StartFails PROVE LifecycleInv'
  OBVIOUS
<1>1. /\ phase = "starting" /\ todo # <<>>
      /\ UNCHANGED captureVars /\ flag' = flag /\ thread' = thread
      /\ windowOpen' = windowOpen /\ outLen' = outLen /\ joining' = joining
      /\ pipelineReady' = pipelineReady
      /\ object' = object \/ object' = [object EXCEPT ![Head(todo)] = "exists"]
      /\ \/ phase' = "stopping" /\ todo' = StopOrder /\ shutdown_flag' = TRUE
         \/ phase' = "unwinding" /\ todo' = StartOrder /\ shutdown_flag' = shutdown_flag
  BY DEF StartFails
<1>2. CaptureInv' /\ cpc' = cpc /\ ThreadsTyped'
  BY <1>1, QuietSteps, ConsumersLeaveCapture DEF LifecycleInv, ThreadsTyped
<1>3. \A n \in Modules : Ended(n)' <=> Ended(n)
  BY <1>1, <1>2 DEF Ended, CaptureEnded
<1>4. /\ StopOrder \in Seq(Modules) /\ ToSet(StopOrder) = Modules
      /\ StartOrder \in Seq(Modules) /\ ToSet(StartOrder) = Modules
  BY DEF ToSet, StopOrder, StartOrder, Modules
<1>5. todo' \in Seq(Modules) /\ Left' = Modules
  BY <1>1, <1>4 DEF Left
<1>6. todo \in StartTails /\ todo \in Seq(Modules) /\ "selector" \in Left
  BY <1>1, StartsInOrder DEF LifecycleInv, Ordered, MainTyped, Left
<1>7. Head(todo) \in Modules
  BY <1>1, <1>6, HeadGoes
<1>8. object' \in [Modules -> {"none", "exists", "destroyed"}]
      /\ \A n \in Modules : object[n] = "exists" => object'[n] = "exists"
  BY <1>1, <1>7 DEF LifecycleInv, MainTyped
<1>9. Ended("selector") /\ ~pipelineReady
  BY <1>1, <1>6 DEF LifecycleInv, Starting
<1>10. MainTyped'
  BY <1>1, <1>5, <1>8 DEF LifecycleInv, MainTyped
<1>11. Ordered' /\ Starting' /\ Stopping' /\ Emptied'
  BY <1>1, <1>5 DEF Ordered, StopTails, StartTails, Starting, Stopping, Emptied
<1>12. Unwinding' /\ Selecting'
  BY <1>1, <1>3, <1>5, <1>9 DEF LifecycleInv, Unwinding, Selecting, Modules
<1>13. ThreadHasObject'
  BY <1>1, <1>3, <1>8 DEF LifecycleInv, ThreadHasObject
<1> QED  BY <1>2, <1>10, <1>11, <1>12, <1>13 DEF LifecycleInv

LEMMA RequestStopIsSafe == LifecycleInv /\ RequestStop => LifecycleInv'
<1> SUFFICES ASSUME LifecycleInv, RequestStop PROVE LifecycleInv'
  OBVIOUS
<1> DEFINE m == Head(todo)
<1>1. /\ phase \in {"stopping", "unwinding"} /\ todo # <<>>
      /\ phase' = phase /\ todo' = todo /\ object' = object /\ thread' = thread
      /\ pipelineReady' = pipelineReady /\ shutdown_flag' = shutdown_flag
      /\ windowOpen' = windowOpen /\ outLen' = outLen /\ joining' = TRUE
      /\ IF m = "camera" THEN RequestCaptureStop /\ UNCHANGED flag
         ELSE flag' = [flag EXCEPT ![m] = FALSE] /\ UNCHANGED captureVars
  BY DEF RequestStop, Stops
<1>2. CaptureInv' /\ cpc' = cpc
  BY <1>1, QuietSteps, ConsumersLeaveCapture DEF LifecycleInv, RequestCaptureStop
<1>3. ThreadsTyped'
  BY <1>1 DEF LifecycleInv, ThreadsTyped
<1>4. \A n \in Modules : Ended(n)' <=> Ended(n)
  BY <1>1, <1>2 DEF Ended, CaptureEnded
<1>5. Left' = Left
  BY <1>1 DEF Left
<1> HIDE DEF m
<1>6. MainTyped'
  BY <1>1 DEF LifecycleInv, MainTyped
<1>7. Ordered' /\ Starting' /\ Stopping' /\ Unwinding' /\ Emptied'
  BY <1>1, <1>4, <1>5 DEF LifecycleInv, Ordered, Starting, Stopping, Unwinding, Emptied, Modules
<1>8. Selecting' /\ ThreadHasObject'
  BY <1>1, <1>4 DEF LifecycleInv, Selecting, ThreadHasObject, Modules
<1> QED  BY <1>2, <1>3, <1>6, <1>7, <1>8 DEF LifecycleInv

LEMMA DestroyIsSafe == LifecycleInv /\ DestroyObject => LifecycleInv'
<1> SUFFICES ASSUME LifecycleInv, DestroyObject PROVE LifecycleInv'
  OBVIOUS
<1> DEFINE m == Head(todo)
<1>1. /\ phase \in {"stopping", "unwinding"} /\ todo # <<>>
      /\ phase' = phase /\ todo' = Tail(todo) /\ joining' = FALSE
      /\ flag' = flag /\ thread' = thread
      /\ pipelineReady' = pipelineReady /\ shutdown_flag' = shutdown_flag
      /\ windowOpen' = windowOpen /\ outLen' = outLen
      /\ AsksToStop(m) => Ended(m)
      /\ object' = [object EXCEPT ![m] = IF @ = "exists" THEN "destroyed" ELSE @]
      /\ ShowNothing \/ CloseDevice \/ UNCHANGED captureVars
  BY DEF DestroyObject, Stops, WaitedFor
<1>2. CaptureInv' /\ cpc' = cpc
  BY <1>1, QuietSteps, ConsumerIsSafe, ConsumersLeaveCapture DEF LifecycleInv, CloseDevice
<1>3. ThreadsTyped'
  BY <1>1 DEF LifecycleInv, ThreadsTyped
<1>4. \A n \in Modules : Ended(n)' <=> Ended(n)
  BY <1>1, <1>2 DEF Ended, CaptureEnded
<1>5. /\ m \in Modules /\ todo' \in Seq(Modules) /\ Left = Left' \cup {m}
      /\ phase = "stopping" => todo' \in StopTails
      /\ phase = "unwinding" => todo' \in StartTails
      /\ phase = "stopping" /\ "selector" \in Left => m \in {"display", "selector"}
  <2>1. todo \in Seq(Modules)
    BY DEF LifecycleInv, MainTyped
  <2>2. Left' = ToSet(Tail(todo))
    BY <1>1 DEF Left
  <2>3. /\ phase = "stopping" => todo \in StopTails
        /\ phase = "unwinding" => todo \in StartTails
    BY DEF LifecycleInv, Ordered
  <2> QED  BY <1>1, <2>1, <2>2, <2>3, HeadGoes, StartsInOrder, StopsInOrder DEF Left
<1>6. phase = "stopping" \/ m \in {"algorithm", "camera", "soc"} => Ended(m)
  BY <1>1 DEF AsksToStop
<1>7. object' \in [Modules -> {"none", "exists", "destroyed"}]
      /\ \A n \in Modules \ {m} : object'[n] = object[n]
  BY <1>1, <1>5 DEF LifecycleInv, MainTyped
<1> HIDE DEF m
<1>8. MainTyped'
  BY <1>1, <1>5, <1>7 DEF LifecycleInv, MainTyped
<1>9. Ordered' /\ Starting' /\ Emptied'
  BY <1>1, <1>5 DEF Ordered, Starting, Emptied
<1>10. Stopping'
  BY <1>1, <1>4, <1>5, <1>6 DEF LifecycleInv, Stopping
<1>11. Unwinding'
  BY <1>1, <1>4, <1>5, <1>6 DEF LifecycleInv, Unwinding, Modules
<1>12. ThreadHasObject'
  BY <1>1, <1>4, <1>6, <1>7 DEF LifecycleInv, ThreadHasObject
<1>13. Selecting'
  <2>1. CASE phase = "unwinding"
    BY <1>1, <2>1 DEF LifecycleInv, Selecting, Unwinding
  <2>2. CASE phase = "stopping" /\ ~Ended("selector")
    <3>1. m = "display"
      BY <1>5, <1>6, <2>2 DEF LifecycleInv, Stopping, Modules
    <3> QED  BY <1>1, <1>4, <1>7, <3>1 DEF LifecycleInv, Selecting, Modules
  <2>3. CASE phase = "stopping" /\ Ended("selector")
    BY <1>1, <1>4, <2>3 DEF LifecycleInv, Selecting, Modules
  <2> QED  BY <1>1, <2>1, <2>2, <2>3
<1> QED  BY <1>2, <1>3, <1>8, <1>9, <1>10, <1>11, <1>12, <1>13 DEF LifecycleInv

-----------------------------------------------------------------------------
(* The theorems *)

\* The invariant behind the theorems holds in every state.
THEOREM LifecycleInvariant == Spec => []LifecycleInv
<1>1. LifecycleInv /\ [Next]_vars => LifecycleInv'
  BY CaptureStep, DisplayStep, WorkerStep, SoCStep, SelectorStep, Stutter, ThreadStepIsSafe,
     MainOnly, StartModuleIsSafe, StartFailsIsSafe, RequestStopIsSafe, DestroyIsSafe
     DEF Next, Main
<1> QED  BY InitLifecycle, <1>1, PTL DEF Spec

\* The state is well typed; in particular neither queue of the camera outgrows
\* its limit, however the capture thread, the worker and the display interleave.
THEOREM TypeCorrect == Spec => []TypeOK
<1>1. LifecycleInv => TypeOK
  BY TypeParts DEF LifecycleInv, CaptureInv
<1> QED  BY LifecycleInvariant, <1>1, PTL

\* No buffer is given back to the driver while a frame refers to it, for any
\* number of buffers and whichever thread drops the last reference.
THEOREM BuffersAreSafe == Spec => []NeverRefilled
<1>1. LifecycleInv => NeverRefilled
  BY DEF LifecycleInv, CaptureInv
<1> QED  BY LifecycleInvariant, <1>1, PTL

\* Wherever startAll fails and whenever stopAll is called, no thread outlives
\* the object it works on.
THEOREM NoThreadOutlivesItsObject == Spec => []ThreadHasObject
<1>1. LifecycleInv => ThreadHasObject
  BY DEF LifecycleInv
<1> QED  BY LifecycleInvariant, <1>1, PTL

\* The selector evolves only while all modules but the display exist, however
\* long it waits, warms up, or takes to notice that it is to stop.
THEOREM SelectorHasPipeline == Spec => []ControlsWholePipeline
<1>1. LifecycleInv => ControlsWholePipeline
  BY DEF LifecycleInv, Selecting, ControlsWholePipeline, Ended
<1> QED  BY LifecycleInvariant, <1>1, PTL
=============================================================================
