---------------------------- MODULE LynsynMonitor ----------------------------
(***************************************************************************)
(* The power monitor LynsynMonitorConcrete: the module's thread opens the  *)
(* probe, starts the sampling thread and stops it; the sampling thread     *)
(* resets a probe whose reads fail.  Both do so under lifecycleMutex_,     *)
(* which stop() also holds while it joins the sampling thread.             *)
(*                                                                         *)
(* The library's calls return when the probe lets them: no transfer has a  *)
(* time-out.  A step that stands for such a call is enabled only when the  *)
(* call returns.                                                           *)
(***************************************************************************)
EXTENDS Naturals

CONSTANTS
  MaxAttempts,    \* MAX_ATTEMPTS
  MaxFails,       \* MAX_CONSECUTIVE_FAILS
  ResetEvery      \* failures from one reset to the next

ASSUME MonitorAssumption ==
  MaxAttempts \in Nat \ {0} /\ MaxFails \in Nat \ {0} /\ ResetEvery \in Nat \ {0}

VARIABLES
  probe,          \* what it does with a transfer
  device,         \* the library's handle
  initialized, running, threadShouldExit,
  attempts,       \* initialize: attempts made
  mpc,            \* the module's thread
  tpc, fails      \* the sampling thread, and consecutiveFails

vars == <<probe, device, initialized, running, threadShouldExit, attempts, mpc, tpc, fails>>

\* It delivers samples; it answers, but reads fail; it is gone, and every
\* transfer fails; or it is there and no transfer ever ends.
ProbeStates == {"delivers", "faulty", "unplugged", "silent"}

\* Open without being ready: lynsyn_init has not succeeded (yet).
DeviceStates == {"closed", "open", "ready"}

\* "init" stands for lynsyn_init after it opened the handle, "arm" and "rearm"
\* for starting the sampling, "verify" for lynsyn_getAvgSample.
ModuleSteps == {"initialize", "init", "verify", "start",
                "monitoring", "stop", "join", "close", "stopped"}
ThreadSteps == {"none", "arm", "wake", "read", "drain",
                "reset", "reopen", "init", "rearm", "exited"}

FlagsTyped ==
  /\ probe \in ProbeStates /\ device \in DeviceStates
  /\ initialized \in BOOLEAN /\ running \in BOOLEAN /\ threadShouldExit \in BOOLEAN

TypeOK ==
  /\ FlagsTyped
  /\ attempts \in 0 .. MaxAttempts
  /\ mpc \in ModuleSteps
  /\ tpc \in ThreadSteps /\ fails \in 0 .. MaxFails

Init ==
  /\ probe \in ProbeStates /\ device = "closed"
  /\ initialized = FALSE /\ running = FALSE /\ threadShouldExit = FALSE
  /\ attempts = 0 /\ mpc = "initialize"
  /\ tpc = "none" /\ fails = 0

\* Definitions marked "seeded" are the code with one mistake: no action uses
\* them, a run with one in place of its neighbour must violate a property.

(***************************************************************************)
(* The probe and the library.                                              *)
(***************************************************************************)
ProbeChanges ==
  /\ probe' \in ProbeStates \ {probe}
  /\ UNCHANGED <<device, initialized, running, threadShouldExit, attempts, mpc, tpc, fails>>

\* A call that sends to the probe returns: sendBytes tries until all is sent,
\* for ever if the probe is gone.
Answers == probe \in {"delivers", "faulty"}

\* lynsyn_getNextSample returns with a sample, returns FALSE, or (neither)
\* waits.
Delivers  == device = "ready" /\ probe = "delivers"
ReadFails == device # "ready" \/ probe \in {"faulty", "unplugged"}

\* lynsyn_preinit finds and claims the probe, or fails; if it cannot claim the
\* interface it leaves the handle open.
Opens     == probe # "unplugged" /\ device' = "open"
OpenFails == device' \in {"closed", "open"}

(***************************************************************************)
(* The module's thread.                                                    *)
(***************************************************************************)
\* The n-th attempt failed.  After the last one the monitor is destroyed, and
\* its destructor calls stop().
AttemptFails(n) ==
  IF n = MaxAttempts
  THEN mpc' = "stop" /\ initialized' = FALSE /\ threadShouldExit' = TRUE
  ELSE mpc' = "initialize" /\ UNCHANGED <<initialized, threadShouldExit>>

\* An attempt: the probe is released, reset, and opened by lynsyn_init.
Initialize ==
  /\ mpc = "initialize"
  /\ attempts' = attempts + 1
  /\ \/ Opens /\ mpc' = "init" /\ UNCHANGED <<initialized, threadShouldExit>>
     \/ OpenFails /\ AttemptFails(attempts')
  /\ UNCHANGED <<probe, running, tpc, fails>>

\* lynsyn_init goes on: it greets the probe and checks the reply.
InitProbe ==
  /\ mpc = "init" /\ Answers
  /\ \/ device' = "ready" /\ initialized' = TRUE /\ mpc' = "verify" /\ UNCHANGED threadShouldExit
     \/ device' = "closed" /\ AttemptFails(attempts)
  /\ UNCHANGED <<probe, running, attempts, tpc, fails>>

\* lynsyn_getAvgSample.  An attempt that fails here leaves the probe open.
Verify ==
  /\ mpc = "verify" /\ Answers
  /\ \/ mpc' = "start" /\ UNCHANGED <<initialized, threadShouldExit>>
     \/ AttemptFails(attempts)
  /\ UNCHANGED <<probe, device, running, attempts, tpc, fails>>

StartMonitoring ==
  /\ mpc = "start" /\ Answers
  /\ threadShouldExit' = FALSE /\ running' = TRUE
  /\ tpc' = "arm" /\ fails' = 0
  /\ mpc' = "monitoring"
  /\ UNCHANGED <<probe, device, initialized, attempts>>

RequestStop ==
  /\ mpc = "monitoring"
  /\ threadShouldExit' = TRUE
  /\ mpc' = "stop"
  /\ UNCHANGED <<probe, device, initialized, running, attempts, tpc, fails>>

\* lifecycleMutex_, as either thread finds it.
HeldByModule == mpc = "join"
HeldByThread == tpc \in {"init", "rearm"}

\* seeded: the sampling thread is not waited for
StopUnjoined ==
  /\ mpc = "stop" /\ ~HeldByThread
  /\ mpc' = "close"
  /\ UNCHANGED <<probe, device, initialized, running, threadShouldExit, attempts, tpc, fails>>

\* The first critical section of stop(); "join" is the wait inside it.
StopLocks ==
  /\ mpc = "stop" /\ ~HeldByThread
  /\ mpc' = IF running THEN "join" ELSE "close"
  /\ UNCHANGED <<probe, device, initialized, running, threadShouldExit, attempts, tpc, fails>>

StopJoined ==
  /\ mpc = "join" /\ tpc = "exited"
  /\ running' = FALSE
  /\ mpc' = "close"
  /\ UNCHANGED <<probe, device, initialized, threadShouldExit, attempts, tpc, fails>>

\* seeded: a monitor that gave up is not closed
CloseUnlessGaveUp ==
  IF initialized /\ fails < MaxFails THEN device' = "closed" /\ initialized' = FALSE
                                     ELSE UNCHANGED <<device, initialized>>
CloseDevice ==
  IF initialized THEN device' = "closed" /\ initialized' = FALSE
                 ELSE UNCHANGED <<device, initialized>>

\* The second critical section of stop().
StopCloses ==
  /\ mpc = "close" /\ ~HeldByThread
  /\ CloseDevice
  /\ mpc' = "stopped"
  /\ UNCHANGED <<probe, running, threadShouldExit, attempts, tpc, fails>>

(***************************************************************************)
(* The sampling thread.                                                    *)
(***************************************************************************)
ThreadElsewhere == <<probe, initialized, threadShouldExit, attempts, mpc>>

ThreadEnds == tpc' = "exited" /\ running' = FALSE

\* Before the first round, and again after a halt.
Arm ==
  /\ tpc = "arm" /\ Answers
  /\ tpc' = "wake"
  /\ UNCHANGED <<ThreadElsewhere, device, running, fails>>

\* The head of a round.
Wake ==
  /\ tpc = "wake"
  /\ IF threadShouldExit THEN ThreadEnds ELSE tpc' = "read" /\ UNCHANGED running
  /\ UNCHANGED <<ThreadElsewhere, device, fails>>

\* The first read of a round brings a sample.  One with the HALTED flag ends the
\* round, and the probe is armed again if periodSampling is set.
Reads ==
  /\ tpc = "read" /\ Delivers
  /\ fails' = 0
  /\ tpc' \in {"drain", "arm", "wake"}
  /\ UNCHANGED <<ThreadElsewhere, device, running>>

\* seeded: only a failing read ends the round
DrainsOn ==
  /\ tpc = "drain" /\ ReadFails
  /\ tpc' = "wake"
  /\ UNCHANGED <<ThreadElsewhere, device, running, fails>>

\* The reads after it, as many as the drain cap allows.
Drains ==
  /\ tpc = "drain"
  /\ \/ Delivers /\ tpc' \in {"wake", "arm"}
     \/ ReadFails /\ tpc' = "wake"
  /\ UNCHANGED <<ThreadElsewhere, device, running, fails>>

TooManyLate(n) == n > MaxFails         \* seeded: one failure too late
TooMany(n)     == n >= MaxFails

\* The end of a round without a sample.
NextRound(n) == IF TooMany(n) THEN ThreadEnds ELSE tpc' = "wake" /\ UNCHANGED running

NoSample ==
  /\ tpc = "read" /\ ReadFails
  /\ fails' = fails + 1
  /\ IF fails' >= ResetEvery /\ fails' % ResetEvery = 0
     THEN tpc' = "reset" /\ UNCHANGED running
     ELSE NextRound(fails')
  /\ UNCHANGED <<ThreadElsewhere, device>>

\* fullResetThreadSafe
Reset ==
  /\ tpc = "reset" /\ ~HeldByModule
  /\ device' = "closed"
  /\ tpc' = "reopen"
  /\ UNCHANGED <<ThreadElsewhere, running, fails>>

\* lifecycleMutex_ is taken again after a pause, for lynsyn_init.
Reopen ==
  /\ tpc = "reopen" /\ ~HeldByModule
  /\ \/ Opens /\ tpc' = "init" /\ UNCHANGED running
     \/ OpenFails /\ NextRound(fails)
  /\ UNCHANGED <<ThreadElsewhere, fails>>

InitAgain ==
  /\ tpc = "init" /\ Answers
  /\ \/ device' = "ready" /\ tpc' = "rearm" /\ UNCHANGED running
     \/ device' = "closed" /\ NextRound(fails)
  /\ UNCHANGED <<ThreadElsewhere, fails>>

\* seeded: a reopened probe counts as a working one
RearmForgives ==
  /\ tpc = "rearm" /\ Answers
  /\ fails' = 0
  /\ NextRound(fails')
  /\ UNCHANGED <<ThreadElsewhere, device>>

Rearm ==
  /\ tpc = "rearm" /\ Answers
  /\ NextRound(fails)
  /\ UNCHANGED <<ThreadElsewhere, device, fails>>

Module == Initialize \/ InitProbe \/ Verify \/ StartMonitoring
          \/ StopLocks \/ StopJoined \/ StopCloses
Thread == Arm \/ Wake \/ Reads \/ Drains \/ NoSample \/ Reset \/ Reopen \/ InitAgain \/ Rearm

Next == ProbeChanges \/ Module \/ RequestStop \/ Thread

Spec == Init /\ [][Next]_vars

\* Both threads are scheduled; whether stop() is called, and when, is free.
FairSpec == Spec /\ WF_vars(Module) /\ WF_vars(Thread)
-----------------------------------------------------------------------------
(***************************************************************************)
(* Properties.                                                             *)
(***************************************************************************)

Live == ThreadSteps \ {"none", "exited"}

\* stop() resets and releases the probe only when the sampling thread, which
\* reads it without a lock, has ended, be it joined or gone by itself.
DeviceUsedByOne == mpc \in {"close", "stopped"} => tpc \notin Live

\* After stop() the probe of a monitor that was started is closed, in whatever
\* state its thread left it: in use, given up, or half way through a reset.
\* One whose initialize() gave up may stay open.
StartedIsClosed == mpc = "stopped" /\ tpc # "none" => device = "closed" /\ ~initialized

\* The probe's reads fail, and it has not been pulled out while the thread was
\* sending to it, which does not return.
Failing ==
  probe = "faulty" \/ (probe = "unplugged" /\ tpc \notin {"arm", "init", "rearm"})

\* A probe that fails for good ends the sampling thread, however often it can
\* be reopened in between.
FailingProbeEndsThread == <>[](mpc = "monitoring" /\ Failing) => <>(tpc = "exited")

\* As long as the probe delivers, stop() returns: no flood of samples keeps the
\* thread from seeing threadShouldExit_.
StopReturnsWhileSampling == [](probe = "delivers") => (mpc = "stop" ~> mpc = "stopped")

\* stop() returns once the probe works (again), also if it was being reset when
\* stop() was called (ILynsynMonitor::stop: "Stop the sampling process and tear
\* down resources").
StopReturns == <>[](probe = "delivers") => (mpc = "stop" ~> mpc = "stopped")
=============================================================================
