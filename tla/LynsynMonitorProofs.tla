------------------------- MODULE LynsynMonitorProofs -------------------------
(***************************************************************************)
(* The power monitor's safety, for any limits on attempts and failures.    *)
(***************************************************************************)
EXTENDS LynsynMonitor, TLAPS

\* A live sampling thread has running_ set, so that stop() joins it, and works
\* on an initialized monitor; a thread that ended leaves initialized_ for stop()
\* to find, whether or not it left the probe open.
ThreadInv ==
  /\ attempts \in 0 .. MaxAttempts /\ fails \in 0 .. MaxFails
  /\ mpc \in ModuleSteps /\ tpc \in ThreadSteps
  /\ mpc = "initialize" => attempts < MaxAttempts
  /\ mpc \in {"initialize", "init", "verify", "start"} => tpc = "none"
  /\ mpc \in {"verify", "start"} => initialized
  /\ tpc \in Live => running /\ mpc \in {"monitoring", "stop", "join"}
  /\ tpc # "none" /\ mpc # "stopped" => initialized
  /\ tpc \in {"arm", "wake", "read", "drain"} => fails < MaxFails
  /\ StartedIsClosed

MonitorInv == FlagsTyped /\ ThreadInv

\* The flags stay Boolean, and probe and handle in a state of theirs.
LEMMA FlagsKept == FlagsTyped /\ [Next]_vars => FlagsTyped'
<1> SUFFICES ASSUME FlagsTyped, [Next]_vars PROVE FlagsTyped'
  OBVIOUS
<1> USE DEF FlagsTyped, DeviceStates, Opens, OpenFails
<1>1. CASE ProbeChanges BY <1>1 DEF ProbeChanges
<1>2. CASE Initialize \/ InitProbe \/ Verify
  BY <1>2 DEF Initialize, InitProbe, Verify, AttemptFails
<1>3. CASE StartMonitoring \/ RequestStop BY <1>3 DEF StartMonitoring, RequestStop
<1>4. CASE StopLocks \/ StopJoined \/ StopCloses
  BY <1>4 DEF StopLocks, StopJoined, StopCloses, CloseDevice
<1>5. CASE Arm \/ Wake \/ Reads \/ Drains \/ NoSample
  BY <1>5 DEF Arm, Wake, Reads, Drains, NoSample, NextRound, ThreadEnds, ThreadElsewhere
<1>6. CASE Reset \/ Reopen \/ InitAgain \/ Rearm
  BY <1>6 DEF Reset, Reopen, InitAgain, Rearm, NextRound, ThreadEnds, ThreadElsewhere
<1>7. CASE UNCHANGED vars BY <1>7 DEF vars
<1> QED BY <1>1, <1>2, <1>3, <1>4, <1>5, <1>6, <1>7 DEF Next, Module, Thread

LEMMA InitMonitorInv == Init => MonitorInv
<1> SUFFICES ASSUME Init PROVE MonitorInv
  OBVIOUS
<1>1. FlagsTyped BY DEF Init, FlagsTyped, DeviceStates
<1>2. ThreadInv
  BY MonitorAssumption DEF Init, ThreadInv, ModuleSteps, ThreadSteps, Live, StartedIsClosed
<1> QED BY <1>1, <1>2 DEF MonitorInv

\* An attempt to initialize, made before there is a sampling thread, ends in the
\* next attempt, in stop(), or with an initialized monitor.
Attempts ==
  /\ tpc = "none" /\ UNCHANGED <<running, tpc, fails>>
  /\ attempts' \in 0 .. MaxAttempts
  /\ \/ mpc' = "initialize" /\ attempts' < MaxAttempts
     \/ mpc' \in {"init", "stop"}
     \/ mpc' \in {"verify", "start"} /\ initialized'

LEMMA AttemptMoves ==
  ASSUME ThreadInv, Initialize \/ InitProbe \/ Verify
  PROVE  Attempts
<1> USE MonitorAssumption DEF ThreadInv, Attempts, AttemptFails
<1>1. CASE Initialize BY <1>1 DEF Initialize
<1>2. CASE InitProbe BY <1>2 DEF InitProbe
<1>3. CASE Verify
  <2>1. /\ tpc = "none" /\ UNCHANGED <<running, tpc, fails>>
        /\ attempts' = attempts /\ attempts \in 0 .. MaxAttempts /\ MaxAttempts \in Nat
    BY <1>3 DEF Verify
  <2>2. CASE mpc' = "start" /\ UNCHANGED <<initialized, threadShouldExit>>
    BY <1>3, <2>1, <2>2 DEF Verify
  <2>3. CASE AttemptFails(attempts)
    BY ONLY <2>1, <2>3 DEF Attempts, AttemptFails
  <2> QED BY <1>3, <2>2, <2>3 DEF Verify
<1> QED BY <1>1, <1>2, <1>3

\* A step of the module's thread, or of the probe, keeps ThreadInv.
LEMMA ModuleKeepsInv ==
  ThreadInv /\ (ProbeChanges \/ Module \/ RequestStop) => ThreadInv'
<1> SUFFICES ASSUME ThreadInv, ProbeChanges \/ Module \/ RequestStop PROVE ThreadInv'
  OBVIOUS
<1> USE MonitorAssumption DEF ThreadInv, ModuleSteps, ThreadSteps, Live, StartedIsClosed
<1>1. CASE ProbeChanges BY <1>1 DEF ProbeChanges
<1>2. CASE Initialize \/ InitProbe \/ Verify
  BY <1>2, AttemptMoves DEF Attempts
<1>3. CASE StartMonitoring BY <1>3 DEF StartMonitoring
<1>4. CASE RequestStop BY <1>4 DEF RequestStop
<1>5. CASE StopLocks BY <1>5 DEF StopLocks
<1>6. CASE StopJoined BY <1>6 DEF StopJoined
<1>7. CASE StopCloses BY <1>7 DEF StopCloses, CloseDevice
<1> QED BY <1>1, <1>2, <1>3, <1>4, <1>5, <1>6, <1>7 DEF Module

\* A failing round either ends the thread or leaves it below the limit.
LEMMA NextRoundCases ==
  ASSUME NEW n \in Nat, NextRound(n)
  PROVE  ThreadEnds \/ (n < MaxFails /\ tpc' = "wake" /\ running' = running)
BY MonitorAssumption DEF NextRound, TooMany

\* What the steps of the sampling thread, NoSample apart, have in common: it
\* goes on, with as many failures or none, or it ends.
GoesOn == tpc \in Live /\ running' = running /\ fails' \in {0, fails}
          /\ \/ tpc' \in {"reset", "reopen", "init", "rearm"}
             \/ tpc' \in {"arm", "wake", "read", "drain"} /\ fails' < MaxFails
Ends   == tpc \in Live /\ fails' = fails /\ ThreadEnds

LEMMA ThreadMoves ==
  ASSUME ThreadInv, Thread, ~NoSample
  PROVE  (GoesOn \/ Ends) /\ UNCHANGED ThreadElsewhere
<1> USE MonitorAssumption DEF ThreadInv, GoesOn, Ends, ThreadSteps, Live
<1>1. CASE Arm BY <1>1 DEF Arm
<1>2. CASE Wake BY <1>2 DEF Wake, ThreadEnds
<1>3. CASE Reads BY <1>3 DEF Reads
<1>4. CASE Drains BY <1>4 DEF Drains
<1>5. CASE Reset BY <1>5 DEF Reset
<1>0. fails \in Nat OBVIOUS
<1>. HIDE DEF GoesOn, Ends
<1>6. NextRound(fails) => ThreadEnds \/ (fails < MaxFails /\ tpc' = "wake" /\ running' = running)
  BY ONLY <1>0, NextRoundCases
<1>7. ASSUME NextRound(fails), tpc \in Live, fails' = fails PROVE GoesOn \/ Ends
  BY <1>6, <1>7 DEF GoesOn, Ends
<1>8. CASE Reopen BY <1>7, <1>8 DEF Reopen, GoesOn
<1>9. CASE InitAgain BY <1>7, <1>9 DEF InitAgain, GoesOn
<1>10. CASE Rearm BY <1>7, <1>10 DEF Rearm
<1> QED BY <1>1, <1>2, <1>3, <1>4, <1>5, <1>8, <1>9, <1>10 DEF Thread

\* And so does a step of the sampling thread.
LEMMA ThreadKeepsInv == ThreadInv /\ Thread => ThreadInv'
<1> SUFFICES ASSUME ThreadInv, Thread PROVE ThreadInv'
  OBVIOUS
<1> USE MonitorAssumption
    DEF ThreadInv, ModuleSteps, ThreadSteps, Live, ThreadElsewhere, ThreadEnds, StartedIsClosed
<1>1. CASE NoSample
  <2>1. /\ tpc = "read" /\ fails' = fails + 1
        /\ UNCHANGED <<ThreadElsewhere, device>>
        /\ (tpc' = "reset" /\ UNCHANGED running) \/ NextRound(fails')
    BY <1>1 DEF NoSample
  <2>2. fails' \in 0 .. MaxFails
    BY <2>1
  <2>3. CASE tpc' = "reset" /\ UNCHANGED running BY <2>1, <2>2, <2>3
  <2>4. CASE ThreadEnds BY <2>1, <2>2, <2>4
  <2>5. CASE fails' < MaxFails /\ tpc' = "wake" /\ running' = running
    BY <2>1, <2>2, <2>5
  <2>6. NextRound(fails') => ThreadEnds \/ (fails' < MaxFails /\ tpc' = "wake" /\ running' = running)
    <3>1. fails' \in Nat BY <2>2
    <3> QED BY ONLY <3>1, NextRoundCases
  <2> QED BY <2>1, <2>3, <2>4, <2>5, <2>6
<1>2. CASE ~NoSample
  <2>1. (GoesOn \/ Ends) /\ UNCHANGED ThreadElsewhere BY <1>2, ThreadMoves
  <2>2. CASE GoesOn BY <2>1, <2>2 DEF GoesOn
  <2>3. CASE Ends BY <2>1, <2>3 DEF Ends
  <2> QED BY <2>1, <2>2, <2>3
<1> QED BY <1>1, <1>2

\* The invariant behind the two theorems holds in every state.
THEOREM MonitorInvariant == Spec => []MonitorInv
<1>1. ThreadInv /\ UNCHANGED vars => ThreadInv'
  BY DEF ThreadInv, StartedIsClosed, vars
<1>2. MonitorInv /\ [Next]_vars => MonitorInv'
  BY <1>1, FlagsKept, ModuleKeepsInv, ThreadKeepsInv DEF MonitorInv, Next
<1> QED BY InitMonitorInv, <1>2, PTL DEF Spec

\* The monitor's state is well typed: in particular consecutiveFails never
\* exceeds the limit at which the sampling thread gives up.
THEOREM TypeCorrect == Spec => []TypeOK
<1>1. MonitorInv => TypeOK BY DEF MonitorInv, ThreadInv, TypeOK
<1> QED BY MonitorInvariant, <1>1, PTL

\* stop() touches the probe only when no sampling thread is left, whether it was
\* joined or had given up by itself.
THEOREM StopIsAlone == Spec => []DeviceUsedByOne
<1>1. MonitorInv => DeviceUsedByOne
  BY DEF MonitorInv, ThreadInv, DeviceUsedByOne, Live
<1> QED BY MonitorInvariant, <1>1, PTL

\* And it leaves a probe closed that was ever sampled, however often the thread
\* reset it, whether the thread was stopped or gave up, and whatever state the
\* library's handle was in.
THEOREM StopIsSafe == Spec => []StartedIsClosed
<1>1. MonitorInv => StartedIsClosed
  BY DEF MonitorInv, ThreadInv
<1> QED BY MonitorInvariant, <1>1, PTL
=============================================================================
