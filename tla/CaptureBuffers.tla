---------------------------- MODULE CaptureBuffers ----------------------------
(***************************************************************************)
(* The camera DataConcrete and the frames it hands out.  With a USB camera  *)
(* a frame is the mapped V4L2 buffer itself: the buffer goes back to the    *)
(* driver when the last reference to the frame dies, in whatever thread     *)
(* that happens.  A CSI frame is a converted copy.                          *)
(*                                                                         *)
(* The consumers are here as far as they hold frames; what makes them run   *)
(* and stop is in PipelineLifecycle, which also gives this module its       *)
(* initial state and its next-state relation.                               *)
(***************************************************************************)
EXTENDS Integers, SequencesExt

CONSTANTS
  NumBuffers,     \* VIDIOC_REQBUFS
  Backends,       \* the kinds of camera that may be found: "usb", "csi"
  QueueLimit      \* maxQueueSize of the capture thread

ASSUME CaptureAssumption ==
  /\ NumBuffers \in Nat \ {0} /\ QueueLimit \in Nat \ {0}
  /\ Backends \subseteq {"usb", "csi"}

VARIABLES
  backend,        \* csiRg10Mode_
  buf,            \* the state of each buffer
  capturing,      \* running_
  wakeup,         \* wakeupFd_ has been written to
  cpc,            \* the capture thread
  frame,          \* the frame the capture thread is about to hand out
  cam2Alg, cam2Disp,
  inHand,         \* the worker's input frame
  shown           \* the display's lastOriginal_

consumed    == <<cam2Alg, inHand>>
captureVars == <<backend, buf, capturing, wakeup, cpc, frame, cam2Alg, cam2Disp, inHand, shown>>

Buffers == 1 .. NumBuffers
Copy    == 0            \* a frame that owns its memory
NoFrame == -1
Frames  == Buffers \cup {Copy}

\* "lost": VIDIOC_QBUF failed, so that neither side has the buffer
BufferStates == {"closed", "queued", "inUse", "lost"}

CaptureTypeOK ==
  /\ backend \in Backends
  /\ buf \in [Buffers -> BufferStates]
  /\ capturing \in BOOLEAN /\ wakeup \in BOOLEAN
  /\ cpc \in {"none", "select", "pushAlg", "pushDisp", "exited"}
  /\ cam2Alg \in Seq(Frames) /\ Len(cam2Alg) <= QueueLimit
  /\ cam2Disp \in Seq(Frames) /\ Len(cam2Disp) <= QueueLimit
  /\ {frame, inHand, shown} \subseteq Frames \cup {NoFrame}

CaptureInit ==
  /\ backend \in Backends
  /\ buf = [b \in Buffers |-> "closed"]
  /\ capturing = FALSE /\ wakeup = FALSE /\ cpc = "none"
  /\ cam2Alg = <<>> /\ cam2Disp = <<>>
  /\ frame = NoFrame /\ inHand = NoFrame /\ shown = NoFrame

CaptureEnded == cpc \in {"none", "exited"}

\* Definitions marked "seeded" are the code with one mistake: no action uses
\* them, a run with one in place of its neighbour must violate a property.

(***************************************************************************)
(* Buffers.                                                                *)
(***************************************************************************)
Referenced ==
  Buffers \cap ({frame, inHand, shown} \cup ToSet(cam2Alg) \cup ToSet(cam2Disp))

\* queueBufferInternal for the buffers in freed: each may fail.
Requeue(freed) ==
  \E failed \in SUBSET freed :
    buf' = [b \in Buffers |-> IF b \in failed THEN "lost"
                              ELSE IF b \in freed THEN "queued" ELSE buf[b]]

\* seeded: a buffer in use is refused
RecycleRefused == Requeue({b \in Buffers : buf[b] = "lost" /\ b \notin Referenced'})
\* BufferDeleter: the step drops the last reference to these buffers.
Recycle == Requeue({b \in Buffers : buf[b] = "inUse" /\ b \notin Referenced'})

\* openDevice and configure: map and queue the buffers.
MapBuffers == buf' = [b \in Buffers |-> "queued"]

\* closeDevice unmaps them, whoever refers to them.
CloseDevice ==
  /\ buf' = [b \in Buffers |-> "closed"]
  /\ UNCHANGED <<backend, capturing, wakeup, cpc, frame, cam2Alg, cam2Disp, inHand, shown>>

(***************************************************************************)
(* start and stop, called by the main thread.                              *)
(***************************************************************************)
\* startCapture may fail (VIDIOC_STREAMON), which CameraModule::start ignores.
OpenCamera ==
  /\ MapBuffers
  /\ \/ capturing' = TRUE /\ cpc' = "select"
     \/ UNCHANGED <<capturing, cpc>>
  /\ UNCHANGED <<backend, wakeup, frame, cam2Alg, cam2Disp, inHand, shown>>

\* The part of stopCapture before the join.
RequestCaptureStop ==
  /\ capturing' = FALSE
  /\ wakeup' = (wakeup \/ capturing)
  /\ UNCHANGED <<backend, buf, cpc, frame, cam2Alg, cam2Disp, inHand, shown>>

(***************************************************************************)
(* The capture thread.                                                     *)
(***************************************************************************)
LoopElsewhere == <<backend, capturing, frame, cam2Alg, cam2Disp, inHand, shown>>

\* The test of running_ at the end of each round.
NextRound == cpc' = IF capturing THEN "select" ELSE "exited"

\* select: woken, timed out, or an error that ends the thread, as an error of
\* VIDIOC_DQBUF does.
Selects ==
  /\ cpc = "select"
  /\ \/ wakeup /\ wakeup' = FALSE /\ cpc' = "exited"
     \/ UNCHANGED wakeup /\ (NextRound \/ cpc' = "exited")
  /\ UNCHANGED <<LoopElsewhere, buf>>

\* A frame without data, or one that cannot be converted.
DropsFrame ==
  /\ cpc = "select" /\ ~wakeup
  /\ \E b \in Buffers : buf[b] = "queued" /\ Requeue({b})
  /\ NextRound
  /\ UNCHANGED <<LoopElsewhere, wakeup>>

\* seeded: the buffer is returned at once, as for a converted frame
HandOutReturned(b) == frame' = b /\ Requeue({b})
HandOut(b)         == frame' = b /\ buf' = [buf EXCEPT ![b] = "inUse"]

Dequeues ==
  /\ cpc = "select" /\ ~wakeup
  /\ \E b \in Buffers :
       /\ buf[b] = "queued"
       /\ \/ backend = "usb" /\ HandOut(b)
          \/ backend = "csi" /\ frame' = Copy /\ Requeue({b})
  /\ cpc' = "pushAlg"
  /\ UNCHANGED <<backend, capturing, wakeup, cam2Alg, cam2Disp, inHand, shown>>

\* seeded: the queue is not looked at
OfferedAlways(q) == Append(q, frame)
\* Frames are dropped before the push could block.
Offered(q) == IF Len(q) < QueueLimit THEN Append(q, frame) ELSE q

PushesToAlgorithm ==
  /\ cpc = "pushAlg"
  /\ cam2Alg' = Offered(cam2Alg)
  /\ cpc' = "pushDisp"
  /\ UNCHANGED <<backend, buf, capturing, wakeup, frame, cam2Disp, inHand, shown>>

PushesToDisplay ==
  /\ cpc = "pushDisp"
  /\ cam2Disp' = Offered(cam2Disp)
  /\ frame' = NoFrame
  /\ NextRound
  /\ UNCHANGED <<backend, capturing, wakeup, cam2Alg, inHand, shown>>
  /\ Recycle

CaptureThread ==
  Selects \/ DropsFrame \/ Dequeues \/ PushesToAlgorithm \/ PushesToDisplay

(***************************************************************************)
(* The consumers.                                                          *)
(***************************************************************************)
\* The worker pops a frame and drains what is behind it.
TakeNewest ==
  /\ inHand' = Last(cam2Alg) /\ cam2Alg' = <<>>
  /\ UNCHANGED <<backend, capturing, wakeup, cpc, frame, cam2Disp, shown>>
  /\ Recycle

LetGo ==
  /\ inHand' = NoFrame
  /\ UNCHANGED <<backend, capturing, wakeup, cpc, frame, cam2Alg, cam2Disp, shown>>
  /\ Recycle

\* drainQueue_ on the original frames.
ShowNewest ==
  /\ shown' = IF cam2Disp = <<>> THEN shown ELSE Last(cam2Disp)
  /\ cam2Disp' = <<>>
  /\ UNCHANGED <<backend, capturing, wakeup, cpc, frame, consumed>>
  /\ Recycle

\* display_.reset()
ShowNothing ==
  /\ shown' = NoFrame
  /\ UNCHANGED <<backend, capturing, wakeup, cpc, frame, cam2Disp, consumed>>
  /\ Recycle
-----------------------------------------------------------------------------
(***************************************************************************)
(* Properties.                                                             *)
(***************************************************************************)

\* A buffer the driver may fill is referred to by no frame: nobody reads an
\* image while the next one is written over it, whichever thread dropped the
\* last reference (BufferDeleter, queueBufferInternal).
NeverRefilled == \A b \in Referenced : buf[b] # "queued"

\* A frame keeps the memory it points to: the mapping outlives every reference
\* to it (the USB back end "keeps zero-copy mmap lifetime management").
FramesStayMapped == \A b \in Referenced : buf[b] # "closed"

\* The driver has no buffer to fill.
Starved == \A b \in Buffers : buf[b] # "queued"
=============================================================================
