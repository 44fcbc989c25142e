----------------------------- MODULE SharedQueue -----------------------------
(***************************************************************************)
(* SharedQueue<T> (Stage_01/SharedStructures/SharedQueue.h): the bounded   *)
(* queue between camera, algorithm and display.  One action is one         *)
(* critical section of mutex_; the notify calls, which the code makes      *)
(* after unlocking, are steps of their own.  Threads sleeping in           *)
(* condNotFull_ and condNotEmpty_ are the two wait sets.                   *)
(***************************************************************************)
EXTENDS Naturals, Sequences

CONSTANTS
  Threads,          \* callers of the queue
  Items,            \* payloads
  maxSize,          \* capacity, 0 means unbounded
  MaxRejected       \* bound: pushes refused before producers give up

ASSUME QueueAssumption ==
  /\ maxSize \in Nat
  /\ MaxRejected \in Nat

VARIABLES
  queue,            \* queue_
  stop,             \* stop_
  rejectedPushes,   \* rejectedPushes_
  op,               \* op[t]: the call thread t is in, and how far
  item,             \* item[t]: argument of its push, or result of its pop
  waitNotFull,      \* threads asleep in condNotFull_
  waitNotEmpty      \* threads asleep in condNotEmpty_

vars == <<queue, stop, rejectedPushes, op, item, waitNotFull, waitNotEmpty>>

Pops  == {"pop", "pop_for", "pop_for_expired"}
Steps == Pops \cup {"idle", "push", "notifyNotEmpty", "notifyNotFull",
                    "drained", "stopNotEmpty", "stopNotFull"}

TypeOK ==
  /\ queue \in Seq(Items)
  /\ stop \in BOOLEAN
  /\ rejectedPushes \in Nat
  /\ op \in [Threads -> Steps]
  /\ item \in [Threads -> Items]
  /\ waitNotFull \subseteq Threads
  /\ waitNotEmpty \subseteq Threads

Init ==
  /\ queue = <<>>
  /\ stop = FALSE
  /\ rejectedPushes = 0
  /\ op = [t \in Threads |-> "idle"]
  /\ item \in [Threads -> Items]
  /\ waitNotFull = {}
  /\ waitNotEmpty = {}

Goto(t, s) == op' = [op EXCEPT ![t] = s]

\* Definitions marked "seeded" are the code with one mistake: no action uses
\* them, a run with one in place of its neighbour must violate a property.
OneTooMany == maxSize = 0 \/ Len(queue) <= maxSize   \* seeded: off by one
HasSpace == maxSize = 0 \/ Len(queue) < maxSize
PushReady == stop \/ HasSpace
PopReady  == stop \/ queue # <<>>

Awake(t) == t \notin waitNotFull /\ t \notin waitNotEmpty

(***************************************************************************)
(* push: wait until stopped or not full; refuse when stopped.              *)
(***************************************************************************)
CallPush(t, x) ==
  /\ op[t] = "idle"
  /\ stop => rejectedPushes < MaxRejected
  /\ Goto(t, "push")
  /\ item' = [item EXCEPT ![t] = x]
  /\ UNCHANGED <<queue, stop, rejectedPushes, waitNotFull, waitNotEmpty>>

PushWait(t) ==
  /\ op[t] = "push" /\ Awake(t)
  /\ ~PushReady
  /\ waitNotFull' = waitNotFull \cup {t}
  /\ UNCHANGED <<queue, stop, rejectedPushes, op, item, waitNotEmpty>>

\* seeded: the statistics counter runs backwards
PushUncounted(t) ==
  /\ op[t] = "push" /\ Awake(t)
  /\ stop
  /\ rejectedPushes' = rejectedPushes - 1
  /\ Goto(t, "idle")
  /\ UNCHANGED <<queue, stop, item, waitNotFull, waitNotEmpty>>

PushRejected(t) ==
  /\ op[t] = "push" /\ Awake(t)
  /\ stop
  /\ rejectedPushes' = rejectedPushes + 1
  /\ Goto(t, "idle")
  /\ UNCHANGED <<queue, stop, item, waitNotFull, waitNotEmpty>>

PushAccepted(t) ==
  /\ op[t] = "push" /\ Awake(t)
  /\ ~stop /\ HasSpace
  /\ queue' = Append(queue, item[t])
  /\ Goto(t, "notifyNotEmpty")
  /\ UNCHANGED <<stop, rejectedPushes, item, waitNotFull, waitNotEmpty>>

(***************************************************************************)
(* pop, pop_for and try_pop.  A pop_for whose time runs out evaluates the  *)
(* predicate once more before it gives up, as wait_for with a predicate    *)
(* does.                                                                   *)
(***************************************************************************)
CallPop(t, kind) ==
  /\ op[t] = "idle"
  /\ Goto(t, kind)
  /\ UNCHANGED <<queue, stop, rejectedPushes, item, waitNotFull, waitNotEmpty>>

PopWait(t) ==
  /\ op[t] \in {"pop", "pop_for"} /\ Awake(t)
  /\ ~PopReady
  /\ waitNotEmpty' = waitNotEmpty \cup {t}
  /\ UNCHANGED <<queue, stop, rejectedPushes, op, item, waitNotFull>>

\* The deadline is absolute: it passes whether t sleeps or was just woken.
PopTimeout(t) ==
  /\ op[t] = "pop_for"
  /\ waitNotEmpty' = waitNotEmpty \ {t}
  /\ Goto(t, "pop_for_expired")
  /\ UNCHANGED <<queue, stop, rejectedPushes, item, waitNotFull>>

SilentTake == "idle"                    \* seeded: a pop notifies nobody
AfterTake == IF maxSize > 0 THEN "notifyNotFull" ELSE "idle"

Remove(t) ==
  /\ queue # <<>>
  /\ item' = [item EXCEPT ![t] = Head(queue)]
  /\ queue' = Tail(queue)
  /\ Goto(t, AfterTake)
  /\ UNCHANGED <<stop, rejectedPushes, waitNotFull, waitNotEmpty>>

PopTakes(t) == op[t] \in Pops /\ Awake(t) /\ Remove(t)

\* seeded: only stop ends a pop_for on an empty queue
PopFailsStopped(t) ==
  /\ op[t] \in Pops /\ Awake(t)
  /\ queue = <<>> /\ stop
  /\ Goto(t, "idle")
  /\ UNCHANGED <<queue, stop, rejectedPushes, item, waitNotFull, waitNotEmpty>>

PopFails(t) ==
  /\ op[t] \in Pops /\ Awake(t)
  /\ queue = <<>>
  /\ stop \/ op[t] = "pop_for_expired"
  /\ Goto(t, "idle")
  /\ UNCHANGED <<queue, stop, rejectedPushes, item, waitNotFull, waitNotEmpty>>

TryPop(t) == op[t] = "idle" /\ Remove(t)

(***************************************************************************)
(* drain empties the queue, stop closes it for good and keeps the items.   *)
(***************************************************************************)
Drain(t) ==
  /\ op[t] = "idle"
  /\ queue # <<>>
  /\ queue' = <<>>
  /\ Goto(t, IF maxSize > 0 THEN "drained" ELSE "idle")
  /\ UNCHANGED <<stop, rejectedPushes, item, waitNotFull, waitNotEmpty>>

Stop(t) ==
  /\ op[t] = "idle"
  /\ stop' = TRUE
  /\ Goto(t, "stopNotEmpty")
  /\ UNCHANGED <<queue, rejectedPushes, item, waitNotFull, waitNotEmpty>>

(***************************************************************************)
(* Wake-ups.  notify_one wakes one sleeper if there is one.                *)
(***************************************************************************)
NotifyNotEmpty(t) ==
  /\ op[t] = "notifyNotEmpty"
  /\ Goto(t, "idle")
  /\ \/ waitNotEmpty = {} /\ waitNotEmpty' = {}
     \/ \E w \in waitNotEmpty : waitNotEmpty' = waitNotEmpty \ {w}
  /\ UNCHANGED <<queue, stop, rejectedPushes, item, waitNotFull>>

NotifyNotFull(t) ==
  /\ op[t] = "notifyNotFull"
  /\ Goto(t, "idle")
  /\ \/ waitNotFull = {} /\ waitNotFull' = {}
     \/ \E w \in waitNotFull : waitNotFull' = waitNotFull \ {w}
  /\ UNCHANGED <<queue, stop, rejectedPushes, item, waitNotEmpty>>

DrainNotifies(t) ==
  /\ op[t] = "drained"
  /\ Goto(t, "idle")
  /\ waitNotFull' = {}
  /\ UNCHANGED <<queue, stop, rejectedPushes, item, waitNotEmpty>>

\* seeded: notify_one instead of notify_all
StopNotifiesOne(t) ==
  /\ op[t] = "stopNotEmpty"
  /\ Goto(t, "stopNotFull")
  /\ \/ waitNotEmpty = {} /\ waitNotEmpty' = {}
     \/ \E w \in waitNotEmpty : waitNotEmpty' = waitNotEmpty \ {w}
  /\ UNCHANGED <<queue, stop, rejectedPushes, item, waitNotFull>>

StopNotifiesNotEmpty(t) ==
  /\ op[t] = "stopNotEmpty"
  /\ Goto(t, "stopNotFull")
  /\ waitNotEmpty' = {}
  /\ UNCHANGED <<queue, stop, rejectedPushes, item, waitNotFull>>

\* seeded: stop forgets the producers
StopForgetsProducers(t) ==
  /\ op[t] = "stopNotFull"
  /\ Goto(t, "idle")
  /\ UNCHANGED <<queue, stop, rejectedPushes, item, waitNotFull, waitNotEmpty>>

StopNotifiesNotFull(t) ==
  /\ op[t] = "stopNotFull"
  /\ Goto(t, "idle")
  /\ waitNotFull' = {}
  /\ UNCHANGED <<queue, stop, rejectedPushes, item, waitNotEmpty>>

\* The C++ standard lets a sleeper wake without a notification.
SpuriousWake(t) ==
  /\ t \in waitNotFull \cup waitNotEmpty
  /\ waitNotFull' = waitNotFull \ {t}
  /\ waitNotEmpty' = waitNotEmpty \ {t}
  /\ UNCHANGED <<queue, stop, rejectedPushes, op, item>>

\* Steps a thread takes once it is in a call: the operating system runs it.
Progress(t) ==
  \/ PushWait(t) \/ PushRejected(t) \/ PushAccepted(t)
  \/ PopWait(t) \/ PopTimeout(t) \/ PopTakes(t) \/ PopFails(t)
  \/ NotifyNotEmpty(t) \/ NotifyNotFull(t) \/ DrainNotifies(t)
  \/ StopNotifiesNotEmpty(t) \/ StopNotifiesNotFull(t)

Call(t) ==
  \/ \E x \in Items : CallPush(t, x)
  \/ \E kind \in {"pop", "pop_for"} : CallPop(t, kind)
  \/ TryPop(t) \/ Drain(t) \/ Stop(t)

Next == \E t \in Threads : Progress(t) \/ Call(t) \/ SpuriousWake(t)

Spec == Init /\ [][Next]_vars

FairSpec ==
  /\ Spec
  /\ \A t \in Threads : WF_vars(Progress(t)) /\ WF_vars(PopTimeout(t))
-----------------------------------------------------------------------------
(***************************************************************************)
(* Properties.                                                             *)
(***************************************************************************)

\* Every call is a call of the abstract bounded queue: items come out in the
\* order they went in, each at most once, a push is accepted only while the
\* queue has room and is not stopped, and stop is never undone.
Fifo == INSTANCE BoundedFifo WITH stopped <- stop, held <- item
RefinesFifo == Fifo!Spec

Notifying(s) == {t \in Threads : op[t] \in s}

\* No wake-up is lost: while a producer sleeps although it could go on, some
\* thread is about to notify condNotFull_ or an awake producer is about to
\* look again (push, pop, pop_for, try_pop, drain and stop notify after the
\* unlock, so the state changes before the sleeper is told).
NoLostWakeupNotFull ==
  waitNotFull # {} /\ PushReady =>
    \/ Notifying({"notifyNotFull", "drained", "stopNotEmpty", "stopNotFull"}) # {}
    \/ \E t \in Threads : op[t] = "push" /\ Awake(t)

\* The same for the consumers that sleep in condNotEmpty_.
NoLostWakeupNotEmpty ==
  waitNotEmpty # {} /\ PopReady =>
    \/ Notifying({"notifyNotEmpty", "stopNotEmpty"}) # {}
    \/ \E t \in Threads : op[t] \in Pops /\ Awake(t)

\* stop() releases every caller: whoever is in push or pop when the queue is
\* stopped returns.
StopReleasesCallers ==
  \A t \in Threads :
    (stop /\ op[t] \in Pops \cup {"push"}) ~> (op[t] = "idle")

\* pop_for always returns, whatever the producers do: the bounded wait that
\* lets a worker be stopped without stopping the queue.
PopForReturns ==
  \A t \in Threads : (op[t] = "pop_for") ~> (op[t] = "idle")
=============================================================================
