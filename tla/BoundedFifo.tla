----------------------------- MODULE BoundedFifo -----------------------------
(***************************************************************************)
(* What a SharedQueue promises its callers, with no lock and no condition  *)
(* variable: a first-in first-out buffer of at most maxSize items (0 means *)
(* unbounded) that can be emptied in one step and closed for good.         *)
(* held[t] is the value in the hands of thread t: the argument of its push *)
(* or the value its last pop gave it.                                      *)
(***************************************************************************)
EXTENDS Naturals, Sequences

CONSTANTS Threads, Items, maxSize

VARIABLES queue, stopped, held
fifoVars == <<queue, stopped, held>>

HasSpace == maxSize = 0 \/ Len(queue) < maxSize

Init ==
  /\ queue = <<>>
  /\ stopped = FALSE
  /\ held \in [Threads -> Items]

Offer(t, x) ==
  /\ held' = [held EXCEPT ![t] = x]
  /\ UNCHANGED <<queue, stopped>>

Put(t) ==
  /\ ~stopped
  /\ HasSpace
  /\ queue' = Append(queue, held[t])
  /\ UNCHANGED <<stopped, held>>

Take(t) ==
  /\ queue # <<>>
  /\ held' = [held EXCEPT ![t] = Head(queue)]
  /\ queue' = Tail(queue)
  /\ UNCHANGED stopped

Clear ==
  /\ queue' = <<>>
  /\ UNCHANGED <<stopped, held>>

Close ==
  /\ stopped' = TRUE
  /\ UNCHANGED <<queue, held>>

Next ==
  \/ \E t \in Threads : Put(t) \/ Take(t) \/ \E x \in Items : Offer(t, x)
  \/ Clear
  \/ Close

Spec == Init /\ [][Next]_fifoVars
=============================================================================
