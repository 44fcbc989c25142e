-------------------------- MODULE SharedQueueProofs --------------------------
(***************************************************************************)
(* For every set of threads, every payload set and every capacity: the     *)
(* queue stays well typed, implements the bounded first-in first-out       *)
(* buffer of BoundedFifo, and loses no wake-up.                            *)
(***************************************************************************)
EXTENDS SharedQueue, FiniteSetTheorems, TLAPS

\* Every step of the code keeps the queue's state well typed.
LEMMA TypeStep == TypeOK /\ [Next]_vars => TypeOK'
<1> SUFFICES ASSUME TypeOK, [Next]_vars PROVE TypeOK'
  OBVIOUS
<1> USE DEF TypeOK, Goto, Steps, Pops
<1>1. CASE UNCHANGED vars
  BY <1>1 DEF vars
<1>2. ASSUME NEW t \in Threads, Progress(t) PROVE TypeOK'
  <2>1. CASE PushWait(t) BY <2>1 DEF PushWait
  <2>2. CASE PushRejected(t) BY <2>2 DEF PushRejected
  <2>3. CASE PushAccepted(t) BY <2>3 DEF PushAccepted
  <2>4. CASE PopWait(t) BY <2>4 DEF PopWait
  <2>5. CASE PopTimeout(t) BY <2>5 DEF PopTimeout
  <2>6. CASE PopTakes(t) BY <2>6 DEF PopTakes, Remove, AfterTake
  <2>7. CASE PopFails(t) BY <2>7 DEF PopFails
  <2>8. CASE NotifyNotEmpty(t) BY <2>8 DEF NotifyNotEmpty
  <2>9. CASE NotifyNotFull(t) BY <2>9 DEF NotifyNotFull
  <2>10. CASE DrainNotifies(t) BY <2>10 DEF DrainNotifies
  <2>11. CASE StopNotifiesNotEmpty(t) BY <2>11 DEF StopNotifiesNotEmpty
  <2>12. CASE StopNotifiesNotFull(t) BY <2>12 DEF StopNotifiesNotFull
  <2> QED BY <1>2, <2>1, <2>2, <2>3, <2>4, <2>5, <2>6, <2>7, <2>8, <2>9,
             <2>10, <2>11, <2>12 DEF Progress
<1>3. ASSUME NEW t \in Threads, Call(t) PROVE TypeOK'
  <2>1. ASSUME NEW x \in Items, CallPush(t, x) PROVE TypeOK'
    BY <2>1 DEF CallPush
  <2>2. ASSUME NEW kind \in {"pop", "pop_for"}, CallPop(t, kind) PROVE TypeOK'
    BY <2>2 DEF CallPop
  <2>3. CASE TryPop(t) BY <2>3 DEF TryPop, Remove, AfterTake
  <2>4. CASE Drain(t) BY <2>4 DEF Drain
  <2>5. CASE Stop(t) BY <2>5 DEF Stop
  <2> QED BY <1>3, <2>1, <2>2, <2>3, <2>4, <2>5 DEF Call
<1>4. ASSUME NEW t \in Threads, SpuriousWake(t) PROVE TypeOK'
  BY <1>4 DEF SpuriousWake
<1> QED BY <1>1, <1>2, <1>3, <1>4 DEF Next

\* The state of the queue is always well typed.
THEOREM TypeCorrect == Spec => []TypeOK
<1>1. Init => TypeOK
  <2> SUFFICES ASSUME Init PROVE TypeOK
    OBVIOUS
  <2>0. queue \in Seq(Items)
    BY DEF Init
  <2>1. stop \in BOOLEAN /\ rejectedPushes \in Nat
    BY DEF Init
  <2>2. op \in [Threads -> Steps] /\ item \in [Threads -> Items]
    BY DEF Init, Steps, Pops
  <2>3. waitNotFull \subseteq Threads /\ waitNotEmpty \subseteq Threads
    BY DEF Init
  <2> QED BY <2>0, <2>1, <2>2, <2>3 DEF TypeOK
<1> QED BY <1>1, TypeStep, PTL DEF Spec

\* One step of the code is one step of the abstract queue, or none.
LEMMA FifoStep == TypeOK /\ [Next]_vars => [Fifo!Next]_Fifo!fifoVars
<1> SUFFICES ASSUME TypeOK, [Next]_vars PROVE [Fifo!Next]_Fifo!fifoVars
  OBVIOUS
<1>1. CASE UNCHANGED vars
  BY <1>1 DEF vars, Fifo!fifoVars
<1>2. ASSUME NEW t \in Threads, PushAccepted(t) PROVE Fifo!Put(t)
  BY <1>2 DEF PushAccepted, HasSpace, Fifo!Put, Fifo!HasSpace
<1>3. ASSUME NEW t \in Threads, Remove(t) PROVE Fifo!Take(t)
  BY <1>3 DEF Remove, Fifo!Take
<1>4. ASSUME NEW t \in Threads, Progress(t) PROVE [Fifo!Next]_Fifo!fifoVars
  <2>1. CASE PushAccepted(t) BY <2>1, <1>2 DEF Fifo!Next
  <2>2. CASE PopTakes(t) BY <2>2, <1>3 DEF PopTakes, Fifo!Next
  <2>3. CASE PushRejected(t) BY <2>3 DEF PushRejected, Fifo!fifoVars
  <2>4. CASE ~(PushAccepted(t) \/ PopTakes(t) \/ PushRejected(t))
    BY <1>4, <2>4 DEF Progress, PushWait, PopWait, PopTimeout, PopFails,
       NotifyNotEmpty, NotifyNotFull, DrainNotifies, StopNotifiesNotEmpty,
       StopNotifiesNotFull, Fifo!fifoVars
  <2> QED BY <2>1, <2>2, <2>3, <2>4
<1>5. ASSUME NEW t \in Threads, Call(t) PROVE [Fifo!Next]_Fifo!fifoVars
  <2>1. ASSUME NEW x \in Items, CallPush(t, x) PROVE Fifo!Offer(t, x)
    BY <2>1 DEF CallPush, Fifo!Offer
  <2>2. ASSUME NEW kind \in {"pop", "pop_for"}, CallPop(t, kind)
        PROVE UNCHANGED Fifo!fifoVars
    BY <2>2 DEF CallPop, Fifo!fifoVars
  <2>3. CASE TryPop(t) BY <2>3, <1>3 DEF TryPop, Fifo!Next
  <2>4. CASE Drain(t) BY <2>4 DEF Drain, Fifo!Clear, Fifo!Next
  <2>5. CASE Stop(t) BY <2>5 DEF Stop, Fifo!Close, Fifo!Next
  <2> QED BY <1>5, <2>1, <2>2, <2>3, <2>4, <2>5 DEF Call, Fifo!Next
<1>6. ASSUME NEW t \in Threads, SpuriousWake(t) PROVE UNCHANGED Fifo!fifoVars
  BY <1>6 DEF SpuriousWake, Fifo!fifoVars
<1> QED BY <1>1, <1>4, <1>5, <1>6 DEF Next

\* SharedQueue implements BoundedFifo: no item is lost, duplicated or
\* reordered, none is accepted after stop, and the capacity is respected.
THEOREM ImplementsFifo == Spec => RefinesFifo
<1>1. Init => Fifo!Init
  BY DEF Init, Fifo!Init
<1> QED BY <1>1, TypeCorrect, FifoStep, PTL DEF Spec, RefinesFifo, Fifo!Spec

-----------------------------------------------------------------------------
(***************************************************************************)
(* No wake-up is lost.  A sleeping producer may wait only while the free    *)
(* places are outnumbered by the threads that will still see to them: those *)
(* about to notify, and the producers that are awake in push.  The same     *)
(* holds of the items and the consumers.                                    *)
(***************************************************************************)
Active   == {t \in Threads : op[t] # "idle"}
Stoppers == {"stopNotEmpty", "stopNotFull"}

SeeToPlaces ==
  {t \in Threads : op[t] = "notifyNotFull" \/ (op[t] = "push" /\ t \notin waitNotFull)}
SeeToItems ==
  {t \in Threads : op[t] = "notifyNotEmpty" \/ (op[t] \in Pops /\ t \notin waitNotEmpty)}

\* Finitely many threads are in a call, and sleepers sleep in the right call.
Sleepers ==
  /\ IsFiniteSet(Active)
  /\ \A t \in waitNotFull : op[t] = "push"
  /\ \A t \in waitNotEmpty : op[t] \in {"pop", "pop_for"}

PlacesSeenTo ==
  waitNotFull # {} =>
    /\ maxSize > 0
    /\ stop => \E t \in Threads : op[t] \in Stoppers
    /\ \/ stop
       \/ \E t \in Threads : op[t] = "drained"
       \/ maxSize - Len(queue) <= Cardinality(SeeToPlaces)

ItemsSeenTo ==
  waitNotEmpty # {} =>
    /\ stop => \E t \in Threads : op[t] = "stopNotEmpty"
    /\ stop \/ Len(queue) <= Cardinality(SeeToItems)

\* Who has still to notify everybody has so after the step.
NotifiersStay ==
  \A u \in Threads :
    /\ op[u] \in Stoppers => op'[u] \in Stoppers
    /\ op[u] = "drained" => op'[u] = "drained"

Step(t) == Progress(t) \/ Call(t) \/ SpuriousWake(t)

LEMMA ActiveParts ==
  ASSUME IsFiniteSet(Active)
  PROVE  /\ IsFiniteSet(SeeToPlaces) /\ Cardinality(SeeToPlaces) \in Nat
         /\ IsFiniteSet(SeeToItems) /\ Cardinality(SeeToItems) \in Nat
<1>1. SeeToPlaces \subseteq Active /\ SeeToItems \subseteq Active
  BY DEF SeeToPlaces, SeeToItems, Active, Pops
<1> QED  BY <1>1, FS_Subset, FS_CardinalityType

\* A step of a thread is a step of that thread.
LEMMA OthersStay ==
  ASSUME TypeOK, NEW t \in Threads, Step(t)
  PROVE  \A u \in Threads \ {t} : op'[u] = op[u]
<1> USE DEF TypeOK, Goto
<1>1. CASE Progress(t)
  BY <1>1 DEF Progress, PushWait, PushRejected, PushAccepted, PopWait, PopTimeout,
     PopTakes, Remove, PopFails, NotifyNotEmpty, NotifyNotFull, DrainNotifies,
     StopNotifiesNotEmpty, StopNotifiesNotFull
<1>2. CASE Call(t)
  BY <1>2 DEF Call, CallPush, CallPop, TryPop, Remove, Drain, Stop
<1>3. CASE SpuriousWake(t)
  BY <1>3 DEF SpuriousWake
<1> QED  BY <1>1, <1>2, <1>3 DEF Step

LEMMA SleepersStep ==
  ASSUME TypeOK, Sleepers, NEW t \in Threads, Step(t)
  PROVE  Sleepers'
<1>1. IsFiniteSet(Active')
  <2>1. Active' \subseteq Active \cup {t}
    BY OthersStay DEF Active
  <2> QED  BY <2>1, FS_AddElement, FS_Subset DEF Sleepers
<1>2. \A u \in waitNotFull' : op'[u] = "push"
  <2> USE DEF TypeOK, Sleepers, Goto
  <2>1. CASE Progress(t)
    BY <2>1 DEF Progress, PushWait, PushRejected, PushAccepted, PopWait, PopTimeout,
       PopTakes, Remove, PopFails, NotifyNotEmpty, NotifyNotFull, DrainNotifies,
       StopNotifiesNotEmpty, StopNotifiesNotFull, Awake, Pops
  <2>2. CASE Call(t)
    BY <2>2 DEF Call, CallPush, CallPop, TryPop, Remove, Drain, Stop
  <2>3. CASE SpuriousWake(t)
    BY <2>3 DEF SpuriousWake
  <2> QED  BY <2>1, <2>2, <2>3 DEF Step
<1>3. \A u \in waitNotEmpty' : op'[u] \in {"pop", "pop_for"}
  <2> USE DEF TypeOK, Sleepers, Goto
  <2>1. CASE Progress(t)
    BY <2>1 DEF Progress, PushWait, PushRejected, PushAccepted, PopWait, PopTimeout,
       PopTakes, Remove, PopFails, NotifyNotEmpty, NotifyNotFull, DrainNotifies,
       StopNotifiesNotEmpty, StopNotifiesNotFull, Awake, Pops
  <2>2. CASE Call(t)
    BY <2>2 DEF Call, CallPush, CallPop, TryPop, Remove, Drain, Stop
  <2>3. CASE SpuriousWake(t)
    BY <2>3 DEF SpuriousWake
  <2> QED  BY <2>1, <2>2, <2>3 DEF Step
<1> QED  BY <1>1, <1>2, <1>3 DEF Sleepers

\* The count survives a step that does not open more places than it adds threads
\* to see to them, wakes nobody's notifier and puts nobody to sleep.
LEMMA PlacesKept ==
  ASSUME PlacesSeenTo, UNCHANGED stop, waitNotFull' \subseteq waitNotFull,
         NotifiersStay,
         Len(queue) \in Nat, Len(queue)' \in Nat,
         Cardinality(SeeToPlaces) \in Nat, Cardinality(SeeToPlaces)' \in Nat,
         maxSize > 0 =>
           Len(queue) + Cardinality(SeeToPlaces) <= Len(queue)' + Cardinality(SeeToPlaces)'
  PROVE  PlacesSeenTo'
<1> SUFFICES ASSUME waitNotFull' # {}
             PROVE  /\ maxSize > 0
                    /\ stop' => \E t \in Threads : op'[t] \in Stoppers
                    /\ \/ stop'
                       \/ \E t \in Threads : op'[t] = "drained"
                       \/ maxSize - Len(queue)' <= Cardinality(SeeToPlaces)'
  BY DEF PlacesSeenTo
<1>1. /\ maxSize > 0
      /\ stop => \E t \in Threads : op[t] \in Stoppers
      /\ \/ stop
         \/ \E t \in Threads : op[t] = "drained"
         \/ maxSize - Len(queue) <= Cardinality(SeeToPlaces)
  BY DEF PlacesSeenTo
<1>2. (stop => stop') /\ (stop' => stop)
  OBVIOUS
<1>3. stop' => \E t \in Threads : op'[t] \in Stoppers
  <2> SUFFICES ASSUME stop' PROVE \E t \in Threads : op'[t] \in Stoppers
    OBVIOUS
  <2>1. stop
    BY <1>2
  <2>2. PICK t \in Threads : op[t] \in Stoppers
    BY <1>1, <2>1
  <2> QED  BY <2>2 DEF NotifiersStay
<1>4. CASE stop
  BY <1>1, <1>2, <1>3, <1>4
<1>5. CASE \E t \in Threads : op[t] = "drained"
  <2>1. PICK t \in Threads : op[t] = "drained"
    BY <1>5
  <2>2. op'[t] = "drained"
    BY <2>1 DEF NotifiersStay
  <2> QED  BY <1>1, <1>3, <2>2
<1>6. CASE maxSize - Len(queue) <= Cardinality(SeeToPlaces)
  <2>1. maxSize - Len(queue)' <= Cardinality(SeeToPlaces)'
    BY <1>1, <1>6, QueueAssumption
  <2> QED  BY <1>1, <1>3, <2>1
<1> QED  BY <1>1, <1>4, <1>5, <1>6

LEMMA PlacesStep ==
  ASSUME TypeOK, Sleepers, PlacesSeenTo, NEW t \in Threads, Step(t)
  PROVE  PlacesSeenTo'
<1> DEFINE S == SeeToPlaces
           Keeps == /\ UNCHANGED stop /\ waitNotFull' \subseteq waitNotFull
                    /\ op[t] \notin Stoppers \cup {"drained"}
<1>1. Sleepers'
  BY SleepersStep
<1>2. /\ IsFiniteSet(S) /\ Cardinality(S) \in Nat
      /\ IsFiniteSet(S') /\ Cardinality(S') \in Nat
  <2>1. IsFiniteSet(Active) /\ IsFiniteSet(Active')
    BY <1>1 DEF Sleepers
  <2>2. S \subseteq Active
    BY DEF SeeToPlaces, Active
  <2>3. S' \subseteq Active'
    BY DEF SeeToPlaces, Active
  <2> QED  BY <2>1, <2>2, <2>3, FS_Subset, FS_CardinalityType
<1>3. /\ \A u \in Threads \ {t} : op'[u] = op[u]
      /\ op \in [Threads -> Steps] /\ queue \in Seq(Items) /\ Len(queue) \in Nat
  BY OthersStay DEF TypeOK
<1>4. ASSUME Keeps, queue' = queue, SeeToPlaces \subseteq SeeToPlaces'
      PROVE PlacesSeenTo'
  <2>1. Cardinality(S) <= Cardinality(S')
    BY <1>2, <1>4, FS_Subset
  <2>2. Len(queue)' = Len(queue)
    BY <1>4
  <2>3. NotifiersStay
    BY <1>3, <1>4 DEF NotifiersStay
  <2> HIDE DEF S
  <2>4. Len(queue) + Cardinality(S) <= Len(queue)' + Cardinality(S')
    BY <1>2, <1>3, <2>1, <2>2
  <2> QED  BY <1>2, <1>3, <1>4, <2>2, <2>3, <2>4, PlacesKept DEF S
<1>5. CASE PushWait(t)
  <2>1. ~stop /\ maxSize > 0 /\ Len(queue) >= maxSize /\ UNCHANGED <<stop, queue>>
    BY <1>3, <1>5, QueueAssumption DEF PushWait, PushReady, HasSpace
  <2> HIDE DEF S
  <2>2. maxSize - Len(queue)' <= Cardinality(S')
    BY <1>2, <1>3, <2>1, QueueAssumption
  <2> QED  BY <2>1, <2>2 DEF PlacesSeenTo, S
<1>6. CASE PushRejected(t)
  <2>1. stop /\ op[t] = "push" /\ UNCHANGED <<stop, waitNotFull>>
    BY <1>6 DEF PushRejected
  <2>2. waitNotFull' # {} => maxSize > 0 /\ \E u \in Threads : op'[u] \in Stoppers
    BY <1>3, <2>1 DEF PlacesSeenTo, Stoppers
  <2> QED  BY <2>1, <2>2 DEF PlacesSeenTo
<1>7. CASE PushAccepted(t)
  <2>1. /\ op[t] = "push" /\ t \notin waitNotFull /\ queue' = Append(queue, item[t])
        /\ op' = [op EXCEPT ![t] = "notifyNotEmpty"] /\ UNCHANGED <<stop, waitNotFull>>
    BY <1>7 DEF PushAccepted, Awake, Goto
  <2>2. S' = S \ {t} /\ t \in S
    BY <1>3, <2>1 DEF SeeToPlaces
  <2>3. Cardinality(S') = Cardinality(S) - 1
    BY <1>2, <2>2, FS_RemoveElement
  <2>4. Len(queue)' = Len(queue) + 1
    BY <2>1 DEF TypeOK
  <2>5. Keeps
    BY <2>1 DEF Stoppers
  <2>6. NotifiersStay
    BY <1>3, <2>5 DEF NotifiersStay
  <2> HIDE DEF S
  <2>7. Len(queue) + Cardinality(S) <= Len(queue)' + Cardinality(S')
    BY <1>2, <1>3, <2>3, <2>4
  <2>8. Len(queue)' \in Nat
    BY <1>3, <2>4
  <2> QED  BY <1>2, <1>3, <2>5, <2>6, <2>7, <2>8, PlacesKept DEF S
<1>8. CASE op[t] \in Pops \cup {"idle"} /\ Remove(t)
  <2>1. /\ queue # <<>> /\ queue' = Tail(queue) /\ UNCHANGED <<stop, waitNotFull>>
        /\ op' = [op EXCEPT ![t] = AfterTake]
    BY <1>8 DEF Remove, Goto
  <2>2. maxSize > 0 => S' = S \cup {t} /\ t \notin S
    BY <1>3, <1>8, <2>1 DEF SeeToPlaces, AfterTake, Pops
  <2>3. maxSize > 0 => Cardinality(S') = Cardinality(S) + 1
    BY <1>2, <2>2, FS_AddElement
  <2>4. Len(queue)' = Len(queue) - 1 /\ Len(queue)' \in Nat
    BY <2>1 DEF TypeOK
  <2>5. Keeps
    BY <1>8, <2>1 DEF Stoppers, Pops
  <2>6. NotifiersStay
    BY <1>3, <2>5 DEF NotifiersStay
  <2> HIDE DEF S
  <2>7. maxSize > 0 => Len(queue) + Cardinality(S) <= Len(queue)' + Cardinality(S')
    BY <1>2, <1>3, <2>3, <2>4
  <2> QED  BY <1>2, <1>3, <2>4, <2>5, <2>6, <2>7, PlacesKept DEF S
<1>9. CASE NotifyNotFull(t)
  <2>1. /\ op[t] = "notifyNotFull" /\ op' = [op EXCEPT ![t] = "idle"]
        /\ UNCHANGED <<queue, stop>>
    BY <1>9 DEF NotifyNotFull, Goto
  <2>2. CASE waitNotFull' = {}
    BY <2>2 DEF PlacesSeenTo
  <2>3. ASSUME NEW w \in waitNotFull, waitNotFull' = waitNotFull \ {w}
        PROVE  PlacesSeenTo'
    <3>1. op[w] = "push" /\ w \in Threads /\ w # t
      BY <2>1, <2>3 DEF Sleepers, TypeOK
    <3>2. S' = (S \ {t}) \cup {w} /\ t \in S /\ w \notin S
      BY <1>3, <2>1, <2>3, <3>1 DEF SeeToPlaces, Sleepers
    <3>3. Cardinality(S') = Cardinality(S)
      <4>1. IsFiniteSet(S \ {t}) /\ Cardinality(S \ {t}) = Cardinality(S) - 1
        BY <1>2, <3>2, FS_RemoveElement
      <4>2. Cardinality((S \ {t}) \cup {w}) = Cardinality(S \ {t}) + 1
        BY <3>2, <4>1, FS_AddElement
      <4> HIDE DEF S
      <4> QED  BY <1>2, <3>2, <4>1, <4>2
    <3>4. Keeps
      BY <2>1, <2>3 DEF Stoppers
    <3>5. NotifiersStay
      BY <1>3, <3>4 DEF NotifiersStay
    <3>6. Len(queue)' = Len(queue)
      BY <2>1
    <3> HIDE DEF S
    <3>7. Len(queue) + Cardinality(S) <= Len(queue)' + Cardinality(S')
      BY <1>2, <1>3, <3>3, <3>6
    <3> QED  BY <1>2, <1>3, <3>4, <3>5, <3>6, <3>7, PlacesKept DEF S
  <2> QED  BY <1>9, <2>2, <2>3 DEF NotifyNotFull
<1>10. CASE DrainNotifies(t) \/ StopNotifiesNotFull(t)
  BY <1>10 DEF DrainNotifies, StopNotifiesNotFull, PlacesSeenTo
<1>11. CASE StopNotifiesNotEmpty(t)
  <2>1. /\ op[t] = "stopNotEmpty" /\ op' = [op EXCEPT ![t] = "stopNotFull"]
        /\ UNCHANGED <<queue, stop, waitNotFull>>
    BY <1>11 DEF StopNotifiesNotEmpty, Goto
  <2>2. S' = S
    BY <1>3, <2>1 DEF SeeToPlaces
  <2>3. NotifiersStay
    BY <1>3, <2>1 DEF Stoppers, NotifiersStay
  <2>4. Len(queue)' = Len(queue) /\ Cardinality(S') = Cardinality(S)
    BY <2>1, <2>2
  <2> HIDE DEF S
  <2>5. Len(queue) + Cardinality(S) <= Len(queue)' + Cardinality(S')
    BY <1>2, <1>3, <2>4
  <2> QED  BY <1>2, <1>3, <2>1, <2>3, <2>4, <2>5, PlacesKept DEF S
<1>12. CASE Drain(t)
  <2>1. /\ op[t] = "idle" /\ op' = [op EXCEPT ![t] = IF maxSize > 0 THEN "drained" ELSE "idle"]
        /\ UNCHANGED <<stop, waitNotFull>>
    BY <1>12 DEF Drain, Goto
  <2>2. maxSize > 0 => op'[t] = "drained"
    BY <1>3, <2>1
  <2>3. \A u \in Threads : op[u] \in Stoppers => op'[u] \in Stoppers
    BY <1>3, <2>1 DEF Stoppers
  <2> QED  BY <2>1, <2>2, <2>3 DEF PlacesSeenTo
<1>13. CASE Stop(t)
  <2>1. stop' /\ op'[t] \in Stoppers /\ UNCHANGED waitNotFull
    BY <1>3, <1>13 DEF Stop, Goto, Stoppers
  <2> QED  BY <2>1 DEF PlacesSeenTo
<1>14. CASE PopWait(t) \/ PopTimeout(t) \/ PopFails(t) \/ NotifyNotEmpty(t)
  <2>1. /\ Keeps /\ queue' = queue /\ waitNotFull' = waitNotFull
        /\ op[t] \notin {"notifyNotFull", "push"}
    BY <1>14 DEF PopWait, PopTimeout, PopFails, NotifyNotEmpty, Stoppers, Pops
  <2>2. SeeToPlaces \subseteq SeeToPlaces'
    BY <1>3, <2>1 DEF SeeToPlaces
  <2> QED  BY <1>4, <2>1, <2>2
<1>15. CASE \/ \E x \in Items : CallPush(t, x)
            \/ \E kind \in {"pop", "pop_for"} : CallPop(t, kind)
  <2>1. /\ Keeps /\ queue' = queue /\ waitNotFull' = waitNotFull /\ op[t] = "idle"
    BY <1>15 DEF CallPush, CallPop, Stoppers
  <2>2. SeeToPlaces \subseteq SeeToPlaces'
    BY <1>3, <2>1 DEF SeeToPlaces
  <2> QED  BY <1>4, <2>1, <2>2
<1>16. CASE SpuriousWake(t)
  <2>1. /\ Keeps /\ queue' = queue /\ waitNotFull' \subseteq waitNotFull /\ op' = op
    BY <1>16 DEF SpuriousWake, Stoppers, Sleepers
  <2>2. SeeToPlaces \subseteq SeeToPlaces'
    BY <2>1 DEF SeeToPlaces
  <2> QED  BY <1>4, <2>1, <2>2
<1>17. CASE Progress(t)
  <2>1. PopTakes(t) => op[t] \in Pops \cup {"idle"} /\ Remove(t)
    BY DEF PopTakes
  <2> QED  BY <1>5, <1>6, <1>7, <1>8, <1>9, <1>10, <1>11, <1>14, <1>17, <2>1 DEF Progress
<1>18. CASE Call(t)
  <2>1. TryPop(t) => op[t] \in Pops \cup {"idle"} /\ Remove(t)
    BY DEF TryPop
  <2> QED  BY <1>8, <1>12, <1>13, <1>15, <1>18, <2>1 DEF Call
<1> QED  BY <1>16, <1>17, <1>18 DEF Step

\* The items, likewise.
LEMMA ItemsKept ==
  ASSUME ItemsSeenTo, stop \in BOOLEAN, UNCHANGED stop, waitNotEmpty' \subseteq waitNotEmpty,
         \A u \in Threads : op[u] = "stopNotEmpty" => op'[u] = "stopNotEmpty",
         Len(queue) \in Nat, Len(queue)' \in Nat,
         Cardinality(SeeToItems) \in Nat, Cardinality(SeeToItems)' \in Nat,
         Len(queue)' + Cardinality(SeeToItems) <= Len(queue) + Cardinality(SeeToItems)'
  PROVE  ItemsSeenTo'
<1> SUFFICES ASSUME waitNotEmpty' # {}
             PROVE  /\ stop' => \E t \in Threads : op'[t] = "stopNotEmpty"
                    /\ stop' \/ Len(queue)' <= Cardinality(SeeToItems)'
  BY DEF ItemsSeenTo
<1>1. /\ stop => \E t \in Threads : op[t] = "stopNotEmpty"
      /\ stop \/ Len(queue) <= Cardinality(SeeToItems)
  BY DEF ItemsSeenTo
<1>2. (stop => stop') /\ (stop' => stop)
  OBVIOUS
<1>3. CASE stop
  <2>1. PICK t \in Threads : op[t] = "stopNotEmpty"
    BY <1>1, <1>3
  <2>2. op'[t] = "stopNotEmpty"
    BY <2>1
  <2> QED  BY <1>2, <1>3, <2>2
<1>4. CASE ~stop
  <2>1. Len(queue)' <= Cardinality(SeeToItems)'
    BY <1>1, <1>4
  <2> QED  BY <1>2, <1>4, <2>1
<1> QED  BY <1>3, <1>4

LEMMA ItemsStep ==
  ASSUME TypeOK, Sleepers, ItemsSeenTo, NEW t \in Threads, Step(t)
  PROVE  ItemsSeenTo'
<1> DEFINE S == SeeToItems
           Keeps == UNCHANGED stop /\ op[t] # "stopNotEmpty"
<1>1. Sleepers'
  BY SleepersStep
<1>2. /\ IsFiniteSet(S) /\ Cardinality(S) \in Nat
      /\ IsFiniteSet(S') /\ Cardinality(S') \in Nat
  <2>1. IsFiniteSet(Active) /\ IsFiniteSet(Active')
    BY <1>1 DEF Sleepers
  <2>2. S \subseteq Active
    BY DEF SeeToItems, Active, Pops
  <2>3. S' \subseteq Active'
    BY DEF SeeToItems, Active, Pops
  <2> QED  BY <2>1, <2>2, <2>3, FS_Subset, FS_CardinalityType
<1>3. /\ \A u \in Threads \ {t} : op'[u] = op[u]
      /\ op \in [Threads -> Steps] /\ queue \in Seq(Items) /\ Len(queue) \in Nat
      /\ stop \in BOOLEAN
  BY OthersStay DEF TypeOK
<1>4. Keeps => \A u \in Threads : op[u] = "stopNotEmpty" => op'[u] = "stopNotEmpty"
  BY <1>3
\* A step that leaves the queue alone and takes no one from those who see to items.
<1>5. ASSUME Keeps, queue' = queue, waitNotEmpty' \subseteq waitNotEmpty, S \subseteq S'
      PROVE  ItemsSeenTo'
  <2>1. Cardinality(S) <= Cardinality(S')
    BY <1>2, <1>5, FS_Subset
  <2>2. Len(queue)' = Len(queue)
    BY <1>5
  <2> HIDE DEF S
  <2>3. Len(queue)' + Cardinality(S) <= Len(queue) + Cardinality(S')
    BY <1>2, <1>3, <2>1, <2>2
  <2> QED  BY <1>2, <1>3, <1>4, <1>5, <2>2, <2>3, ItemsKept DEF S
\* A step after which the queue is empty.
<1>6. ASSUME Keeps, queue' = <<>>, stop => waitNotEmpty' \subseteq waitNotEmpty
      PROVE  ItemsSeenTo'
  <2>1. Len(queue)' = 0
    BY <1>6
  <2> HIDE DEF S
  <2>2. Len(queue)' <= Cardinality(S')
    BY <1>2, <2>1
  <2>3. ASSUME stop, waitNotEmpty' # {}
        PROVE  \E u \in Threads : op'[u] = "stopNotEmpty"
    <3>1. PICK u \in Threads : op[u] = "stopNotEmpty"
      BY <1>6, <2>3 DEF ItemsSeenTo
    <3> QED  BY <1>4, <1>6, <3>1
  <2>4. (stop => stop') /\ (stop' => stop)
    BY <1>6
  <2> QED  BY <2>2, <2>3, <2>4 DEF ItemsSeenTo, S
<1>7. CASE PushAccepted(t)
  <2>1. /\ op[t] = "push" /\ queue' = Append(queue, item[t])
        /\ op' = [op EXCEPT ![t] = "notifyNotEmpty"] /\ UNCHANGED <<stop, waitNotEmpty>>
    BY <1>7 DEF PushAccepted, Goto
  <2>2. S' = S \cup {t} /\ t \notin S
    BY <1>3, <2>1 DEF SeeToItems, Pops
  <2>3. Cardinality(S') = Cardinality(S) + 1
    BY <1>2, <2>2, FS_AddElement
  <2>4. Len(queue)' = Len(queue) + 1 /\ Len(queue)' \in Nat
    BY <1>3, <2>1 DEF TypeOK
  <2> HIDE DEF S
  <2>5. Len(queue)' + Cardinality(S) <= Len(queue) + Cardinality(S')
    BY <1>2, <1>3, <2>3, <2>4
  <2>6. \A u \in Threads : op[u] = "stopNotEmpty" => op'[u] = "stopNotEmpty"
    BY <1>4, <2>1
  <2> QED  BY <1>2, <1>3, <2>1, <2>4, <2>5, <2>6, ItemsKept DEF S
<1>8. CASE op[t] \in Pops \cup {"idle"} /\ Remove(t)
  <2>1. /\ queue # <<>> /\ queue' = Tail(queue) /\ UNCHANGED <<stop, waitNotEmpty>>
        /\ op' = [op EXCEPT ![t] = AfterTake]
    BY <1>8 DEF Remove, Goto
  <2>2. S' = S \ {t}
    BY <1>3, <1>8, <2>1 DEF SeeToItems, AfterTake, Pops
  <2>3. Cardinality(S') >= Cardinality(S) - 1
    <3>1. Cardinality(S') = IF t \in S THEN Cardinality(S) - 1 ELSE Cardinality(S)
      BY <1>2, <2>2, FS_RemoveElement
    <3> HIDE DEF S
    <3> QED  BY <1>2, <3>1
  <2>4. Len(queue)' = Len(queue) - 1 /\ Len(queue)' \in Nat
    BY <2>1 DEF TypeOK
  <2> HIDE DEF S
  <2>5. Len(queue)' + Cardinality(S) <= Len(queue) + Cardinality(S')
    BY <1>2, <1>3, <2>3, <2>4
  <2>6. \A u \in Threads : op[u] = "stopNotEmpty" => op'[u] = "stopNotEmpty"
    BY <1>4, <1>8, <2>1 DEF Pops
  <2> QED  BY <1>2, <1>3, <2>1, <2>4, <2>5, <2>6, ItemsKept DEF S
<1>9. CASE NotifyNotEmpty(t)
  <2>1. /\ op[t] = "notifyNotEmpty" /\ op' = [op EXCEPT ![t] = "idle"]
        /\ UNCHANGED <<queue, stop>>
    BY <1>9 DEF NotifyNotEmpty, Goto
  <2>2. CASE waitNotEmpty' = {}
    BY <2>2 DEF ItemsSeenTo
  <2>3. ASSUME NEW w \in waitNotEmpty, waitNotEmpty' = waitNotEmpty \ {w}
        PROVE  ItemsSeenTo'
    <3>1. op[w] \in Pops /\ w \in Threads /\ w # t
      BY <2>1, <2>3 DEF Sleepers, TypeOK, Pops
    <3>2. S' = (S \ {t}) \cup {w} /\ t \in S /\ w \notin S
      BY <1>3, <2>1, <2>3, <3>1 DEF SeeToItems, Pops
    <3>3. Cardinality(S') = Cardinality(S)
      <4>1. IsFiniteSet(S \ {t}) /\ Cardinality(S \ {t}) = Cardinality(S) - 1
        BY <1>2, <3>2, FS_RemoveElement
      <4>2. Cardinality((S \ {t}) \cup {w}) = Cardinality(S \ {t}) + 1
        BY <3>2, <4>1, FS_AddElement
      <4> HIDE DEF S
      <4> QED  BY <1>2, <3>2, <4>1, <4>2
    <3>4. Len(queue)' = Len(queue)
      BY <2>1
    <3> HIDE DEF S
    <3>5. Len(queue)' + Cardinality(S) <= Len(queue) + Cardinality(S')
      BY <1>2, <1>3, <3>3, <3>4
    <3>6. \A u \in Threads : op[u] = "stopNotEmpty" => op'[u] = "stopNotEmpty"
      BY <1>4, <2>1
    <3> QED  BY <1>2, <1>3, <2>1, <2>3, <3>4, <3>5, <3>6, ItemsKept DEF S
  <2> QED  BY <1>9, <2>2, <2>3 DEF NotifyNotEmpty
<1>10. CASE PopWait(t)
  <2>1. Keeps /\ ~stop /\ queue' = queue /\ queue = <<>>
    BY <1>10 DEF PopWait, PopReady
  <2> QED  BY <1>6, <2>1
<1>11. CASE PopFails(t) \/ Drain(t)
  <2>1. Keeps /\ queue' = <<>> /\ UNCHANGED waitNotEmpty
    BY <1>11 DEF PopFails, Drain, Pops
  <2> QED  BY <1>6, <2>1
<1>12. CASE PopTimeout(t) \/ SpuriousWake(t)
  <2>1. /\ Keeps /\ queue' = queue /\ waitNotEmpty' \subseteq waitNotEmpty
        /\ op' = op \/ (op[t] = "pop_for" /\ op' = [op EXCEPT ![t] = "pop_for_expired"])
    BY <1>12 DEF PopTimeout, SpuriousWake, Goto, Sleepers
  <2>2. S \subseteq S'
    BY <1>3, <2>1 DEF SeeToItems, Pops
  <2> QED  BY <1>5, <2>1, <2>2
<1>13. CASE Stop(t)
  <2>1. stop' /\ op'[t] = "stopNotEmpty"
    BY <1>3, <1>13 DEF Stop, Goto
  <2> QED  BY <2>1 DEF ItemsSeenTo
<1>14. CASE StopNotifiesNotEmpty(t)
  BY <1>14 DEF StopNotifiesNotEmpty, ItemsSeenTo
<1>15. CASE \/ PushWait(t) \/ PushRejected(t) \/ NotifyNotFull(t) \/ DrainNotifies(t)
            \/ StopNotifiesNotFull(t)
            \/ \E x \in Items : CallPush(t, x)
            \/ \E kind \in {"pop", "pop_for"} : CallPop(t, kind)
  <2>1. /\ Keeps /\ queue' = queue /\ waitNotEmpty' = waitNotEmpty
        /\ op[t] \notin Pops \cup {"notifyNotEmpty"}
    BY <1>15 DEF PushWait, PushRejected, NotifyNotFull, DrainNotifies, StopNotifiesNotFull,
       CallPush, CallPop, Pops
  <2>2. S \subseteq S'
    BY <1>3, <2>1 DEF SeeToItems
  <2> QED  BY <1>5, <2>1, <2>2
<1>16. CASE Progress(t)
  <2>1. PopTakes(t) => op[t] \in Pops \cup {"idle"} /\ Remove(t)
    BY DEF PopTakes
  <2> QED  BY <1>7, <1>8, <1>9, <1>10, <1>11, <1>12, <1>14, <1>15, <1>16, <2>1 DEF Progress
<1>17. CASE Call(t)
  <2>1. TryPop(t) => op[t] \in Pops \cup {"idle"} /\ Remove(t)
    BY DEF TryPop
  <2> QED  BY <1>8, <1>11, <1>13, <1>15, <1>17, <2>1 DEF Call
<1> QED  BY <1>12, <1>16, <1>17 DEF Step

\* The counts hold in every reachable state.
LEMMA SeenTo == Spec => [](TypeOK /\ Sleepers /\ PlacesSeenTo /\ ItemsSeenTo)
<1> DEFINE Inv == Sleepers /\ PlacesSeenTo /\ ItemsSeenTo
<1>1. Init => Inv
  <2> SUFFICES ASSUME Init PROVE Inv
    OBVIOUS
  <2>1. Active = {}
    BY DEF Init, Active
  <2> QED  BY <2>1, FS_EmptySet DEF Init, Sleepers, PlacesSeenTo, ItemsSeenTo
<1>2. TypeOK /\ Inv /\ [Next]_vars => Inv'
  <2> SUFFICES ASSUME TypeOK, Inv, [Next]_vars PROVE Inv'
    OBVIOUS
  <2>1. CASE UNCHANGED vars
    BY <2>1 DEF vars, Sleepers, PlacesSeenTo, ItemsSeenTo, Active, SeeToPlaces, SeeToItems
  <2>2. ASSUME NEW t \in Threads, Step(t) PROVE Inv'
    BY <2>2, SleepersStep, PlacesStep, ItemsStep
  <2> QED  BY <2>1, <2>2 DEF Next, Step
<1> QED  BY <1>1, <1>2, TypeCorrect, PTL DEF Spec

\* A finite set with as many members as there is something to do is not empty.
LEMMA SomeoneSeesTo ==
  ASSUME NEW S, NEW n \in Int, n > 0, n <= Cardinality(S)
  PROVE  S # {}
  BY FS_EmptySet

\* However many producers sleep, on however large a queue, none sleeps through the
\* last notification.
THEOREM ProducersAreWoken == Spec => []NoLostWakeupNotFull
<1>1. TypeOK /\ Sleepers /\ PlacesSeenTo => NoLostWakeupNotFull
  <2> SUFFICES ASSUME TypeOK, Sleepers, PlacesSeenTo, waitNotFull # {}, PushReady
               PROVE  \/ Notifying({"notifyNotFull", "drained", "stopNotEmpty", "stopNotFull"}) # {}
                      \/ \E t \in Threads : op[t] = "push" /\ Awake(t)
    BY DEF NoLostWakeupNotFull
  <2>1. CASE stop \/ \E t \in Threads : op[t] = "drained"
    BY <2>1 DEF PlacesSeenTo, Notifying, Stoppers
  <2>2. CASE ~stop /\ maxSize - Len(queue) <= Cardinality(SeeToPlaces)
    <3>1. maxSize - Len(queue) \in Int /\ maxSize - Len(queue) > 0
      BY <2>2, QueueAssumption DEF TypeOK, PushReady, HasSpace, PlacesSeenTo
    <3>2. SeeToPlaces # {}
      BY <2>2, <3>1, SomeoneSeesTo
    <3>3. PICK t \in Threads : op[t] = "notifyNotFull" \/ (op[t] = "push" /\ t \notin waitNotFull)
      BY <3>2 DEF SeeToPlaces
    <3> QED  BY <3>3 DEF Notifying, Awake, Sleepers
  <2> QED  BY <2>1, <2>2 DEF PlacesSeenTo
<1> QED  BY <1>1, SeenTo, PTL

\* No consumer sleeps through the last notification either.
THEOREM ConsumersAreWoken == Spec => []NoLostWakeupNotEmpty
<1>1. TypeOK /\ Sleepers /\ ItemsSeenTo => NoLostWakeupNotEmpty
  <2> SUFFICES ASSUME TypeOK, Sleepers, ItemsSeenTo, waitNotEmpty # {}, PopReady
               PROVE  \/ Notifying({"notifyNotEmpty", "stopNotEmpty"}) # {}
                      \/ \E t \in Threads : op[t] \in Pops /\ Awake(t)
    BY DEF NoLostWakeupNotEmpty
  <2>1. CASE stop
    BY <2>1 DEF ItemsSeenTo, Notifying
  <2>2. CASE ~stop
    <3>1. Len(queue) \in Int /\ Len(queue) > 0
      BY <2>2 DEF TypeOK, PopReady
    <3>2. SeeToItems # {}
      BY <2>2, <3>1, SomeoneSeesTo DEF ItemsSeenTo
    <3>3. PICK t \in Threads : op[t] = "notifyNotEmpty" \/ (op[t] \in Pops /\ t \notin waitNotEmpty)
      BY <3>2 DEF SeeToItems
    <3> QED  BY <3>3 DEF Notifying, Awake, Sleepers, Pops
  <2> QED  BY <2>1, <2>2
<1> QED  BY <1>1, SeenTo, PTL
=============================================================================
