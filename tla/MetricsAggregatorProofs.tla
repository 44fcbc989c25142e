---------------------- MODULE MetricsAggregatorProofs ----------------------
(***************************************************************************)
(* For any number of frames and any history limit: the history follows the *)
(* file, and the shutdown leaves no row in a buffer.                       *)
(***************************************************************************)
EXTENDS MetricsAggregator, Integers, SequenceTheorems, TLAPS

(***************************************************************************)
(* What is stored, and who may be at it.                                   *)
(***************************************************************************)
Typed ==
  /\ batchBuffer \in Seq(Frames) /\ csv \in Seq(Frames) /\ history \in Seq(Frames)
  /\ local \in [Flushers -> Seq(Frames)] /\ fpc \in [Flushers -> FlushSteps]
  /\ shown \in Frames
  /\ merged \in Frames \cup {None} /\ pushed \in Frames \cup {None}

\* The main thread flushes twice: with the flush thread beside it, and alone,
\* after the display has gone.
Phases ==
  /\ mpc \in {"running", "joinDisplay", "joinCamera", "joinWorker", "stop", "joinFlush", "done"}
       => fpc["main"] = "idle"
  /\ mpc \notin {"running", "joinDisplay"} => dpc = "exited"
  /\ mpc \in {"finalFlush", "done"} => fpc["flush"] = "exited"
  /\ mpc = "finalFlush" /\ fpc["main"] # "take" => batchBuffer = <<>>
  /\ mpc = "done" => batchBuffer = <<>>

HandsEmpty == \A t \in Flushers : fpc[t] \notin {"write", "commit"} => local[t] = <<>>

\* Rows of the file that have been committed.
InHand(t) == IF fpc[t] = "commit" THEN Len(local[t]) ELSE 0
Committed == Len(csv) - InHand("flush") - InHand("main")

Counted ==
  /\ Committed >= 0
  /\ Len(history) = IF Committed > MaxHistory THEN MaxHistory ELSE Committed

InFile(s) == \A i \in 1 .. Len(s) : \E j \in 1 .. Len(csv) : s[i] = csv[j]
FromFile ==
  /\ InFile(history)
  /\ \A t \in Flushers : fpc[t] = "commit" => InFile(local[t])

OneFlusher == mpc \in {"running", "joinDisplay", "joinCamera"}

\* While one thread flushes: what it is about to commit is the end of the file,
\* and the history the end of what precedes it.
Following ==
  OneFlusher =>
    /\ \A i \in 1 .. Len(history) : history[i] = csv[Committed - Len(history) + i]
    /\ fpc["flush"] = "commit" =>
         \A i \in 1 .. Len(local["flush"]) : local["flush"][i] = csv[Committed + i]

StoreInv == Typed /\ Phases /\ HandsEmpty /\ Counted /\ FromFile /\ Following

store == <<batchBuffer, local, csv, history>>

\* Steps that leave what is stored, the flushers and the main thread alone.
Aside ==
  \/ BeginFrame \/ Worker \/ DisplayRenders \/ DisplayMerges \/ DisplayExits
  \/ UNCHANGED vars

LEMMA AsideFacts ==
  ASSUME Typed, Aside
  PROVE  /\ UNCHANGED <<store, fpc, mpc>> /\ Typed'
         /\ dpc = "exited" => dpc' = "exited"
<1> USE DEF store, stored, threads, Typed
<1>1. CASE BeginFrame \/ UNCHANGED vars
  BY <1>1 DEF BeginFrame, vars
<1>2. CASE Worker
  BY <1>2 DEF Worker, MergeAlgorithm, WorkerPushes, WorkerExits
<1>3. CASE DisplayRenders
  BY <1>3 DEF DisplayRenders
<1>4. CASE DisplayMerges \/ DisplayExits
  BY <1>4 DEF DisplayMerges, DisplayExits
<1> QED BY <1>1, <1>2, <1>3, <1>4 DEF Aside

\* Steps of the main and flush threads that only move them on.
Moves ==
  \/ FlushWakes \/ FlushExits \/ Prune \/ StopAll
  \/ DisplayJoined \/ StopCapture \/ CaptureStopped \/ WorkerJoined
  \/ StopFlush \/ FlushJoined \/ Exported

LEMMA MovesFacts ==
  ASSUME Typed, Phases, Moves
  PROVE  /\ UNCHANGED store /\ Typed' /\ Phases'
         /\ \A t \in Flushers : fpc'[t] = fpc[t] \/ {fpc[t], fpc'[t]} \cap {"write", "commit"} = {}
         /\ OneFlusher' => OneFlusher
<1> USE DEF store, stored, Typed, Phases, OneFlusher, FlushPcOnly, GoesTo, MainGoesTo, CallsFlush,
    Proceeds, Flushers, FlushSteps
<1>1. CASE FlushWakes BY <1>1 DEF FlushWakes
<1>2. CASE FlushExits BY <1>2 DEF FlushExits
<1>3. CASE Prune BY <1>3 DEF Prune
<1>4. CASE StopAll BY <1>4 DEF StopAll
<1>5. CASE DisplayJoined BY <1>5 DEF DisplayJoined
<1>6. CASE StopCapture BY <1>6 DEF StopCapture
<1>7. CASE CaptureStopped BY <1>7 DEF CaptureStopped
<1>8. CASE WorkerJoined BY <1>8 DEF WorkerJoined
<1>9. CASE StopFlush BY <1>9 DEF StopFlush
<1>10. CASE FlushJoined BY <1>10 DEF FlushJoined
<1>11. CASE Exported BY <1>11 DEF Exported
<1> QED BY <1>1, <1>2, <1>3, <1>4, <1>5, <1>6, <1>7, <1>8, <1>9, <1>10, <1>11 DEF Moves

\* If nothing is stored or taken, all that is said of it stays.
LEMMA StoreKept ==
  ASSUME Typed, HandsEmpty, Counted, FromFile, Following, UNCHANGED store,
         \A t \in Flushers : fpc'[t] = fpc[t] \/ {fpc[t], fpc'[t]} \cap {"write", "commit"} = {},
         OneFlusher' => OneFlusher
  PROVE  HandsEmpty' /\ Counted' /\ FromFile' /\ Following'
<1>1. \A t \in Flushers : (fpc'[t] = "commit") = (fpc[t] = "commit")
  OBVIOUS
<1>2. "flush" \in Flushers /\ "main" \in Flushers
  BY DEF Flushers
<1>3. UNCHANGED <<batchBuffer, local, csv, history>>
  BY DEF store
<1>4. Committed' = Committed
  BY <1>1, <1>2, <1>3 DEF Committed, InHand
<1>5. HandsEmpty'
  BY <1>3 DEF HandsEmpty
<1>6. Counted'
  BY <1>3, <1>4 DEF Counted
<1>7. FromFile'
  BY <1>1, <1>3 DEF FromFile, InFile
<1>8. Following'
  BY <1>1, <1>2, <1>3, <1>4 DEF Following
<1> QED BY <1>5, <1>6, <1>7, <1>8

LEMMA AsideStep == ASSUME StoreInv, Aside PROVE StoreInv'
<1>1. /\ UNCHANGED <<store, fpc, mpc>> /\ Typed'
      /\ dpc = "exited" => dpc' = "exited"
  BY AsideFacts DEF StoreInv
<1>2. Phases'
  BY <1>1 DEF StoreInv, Phases, store
<1>3. HandsEmpty' /\ Counted' /\ FromFile' /\ Following'
  BY <1>1, StoreKept DEF StoreInv, OneFlusher
<1> QED BY <1>1, <1>2, <1>3 DEF StoreInv

LEMMA MovesStep == ASSUME StoreInv, Moves PROVE StoreInv'
  BY MovesFacts, StoreKept DEF StoreInv

\* Only the display appends, and only before it has gone.
LEMMA BatchesStep == ASSUME StoreInv, DisplayBatches PROVE StoreInv'
<1>1. /\ UNCHANGED <<local, csv, history, fpc, mpc, shown, merged, pushed>>
      /\ dpc = "overlay" /\ batchBuffer' = Append(batchBuffer, shown)
  BY DEF DisplayBatches
<1>2. Typed'
  <2>1. batchBuffer' \in Seq(Frames)
    BY <1>1, AppendProperties DEF StoreInv, Typed
  <2> QED BY <1>1, <2>1 DEF StoreInv, Typed
<1>3. Phases'
  BY <1>1 DEF StoreInv, Phases
<1>4. HandsEmpty' /\ Counted' /\ FromFile' /\ Following'
  BY <1>1 DEF StoreInv, HandsEmpty, Counted, Committed, InHand, FromFile, InFile, Following, OneFlusher
<1> QED BY <1>2, <1>3, <1>4 DEF StoreInv

-----------------------------------------------------------------------------
(***************************************************************************)
(* The three steps of a flush.                                             *)
(***************************************************************************)
\* What both flushers share: who is at it, and the lengths.
LEMMA FlushTyped ==
  ASSUME Typed, NEW t \in Flushers
  PROVE  /\ local[t] \in Seq(Frames) /\ Len(local[t]) \in Nat
         /\ Len(csv) \in Nat /\ Len(history) \in Nat
         /\ InHand("flush") \in Nat /\ InHand("main") \in Nat /\ Committed \in Int
<1>1. "flush" \in Flushers /\ "main" \in Flushers
  BY DEF Flushers
<1>2. \A u \in Flushers : local[u] \in Seq(Frames) /\ Len(local[u]) \in Nat
  BY LenProperties DEF Typed
<1>3. Len(csv) \in Nat /\ Len(history) \in Nat
  BY LenProperties DEF Typed
<1> QED BY <1>1, <1>2, <1>3 DEF InHand, Committed

LEMMA TakeStep == ASSUME StoreInv, NEW t \in Flushers, TakeBatch(t) PROVE StoreInv'
<1> USE DEF StoreInv
<1>1. /\ UNCHANGED <<csv, history, mpc, dpc, shown, merged, pushed>>
      /\ fpc[t] = "take" /\ fpc \in [Flushers -> FlushSteps]
      /\ local \in [Flushers -> Seq(Frames)]
  BY DEF TakeBatch, FlushPcOnly, Typed
<1>2. \/ /\ batchBuffer' = <<>> /\ local' = [local EXCEPT ![t] = batchBuffer]
         /\ fpc' = [fpc EXCEPT ![t] = "write"]
      \/ /\ batchBuffer = <<>> /\ UNCHANGED <<local, batchBuffer>>
         /\ fpc' = [fpc EXCEPT ![t] = "idle"]
  BY DEF TakeBatch, Take, GoesTo
<1>3. batchBuffer' = <<>>
  BY <1>2
<1>4. /\ \A u \in Flushers : u # t => fpc'[u] = fpc[u] /\ local'[u] = local[u]
      /\ fpc'[t] \in {"write", "idle"}
      /\ fpc'[t] = "idle" => local'[t] = local[t]
  BY <1>1, <1>2
<1>5. Typed'
  <2>1. <<>> \in Seq(Frames)
    BY EmptySeq
  <2> QED BY <1>1, <1>2, <1>3, <2>1 DEF Typed, FlushSteps
<1>6. Phases'
  BY <1>1, <1>3, <1>4 DEF Phases, Flushers
<1>7. HandsEmpty'
  BY <1>1, <1>4 DEF HandsEmpty
<1>8. \A u \in Flushers : /\ (fpc'[u] = "commit") = (fpc[u] = "commit")
                          /\ fpc[u] = "commit" => local'[u] = local[u]
  BY <1>1, <1>4
<1>9. Committed' = Committed
  BY <1>1, <1>8 DEF Committed, InHand, Flushers
<1>10. Counted'
  BY <1>1, <1>9 DEF Counted
<1>11. FromFile'
  BY <1>1, <1>8 DEF FromFile, InFile
<1>12. Following'
  <2>1. (fpc'["flush"] = "commit") = (fpc["flush"] = "commit")
    BY <1>8 DEF Flushers
  <2>2. fpc["flush"] = "commit" => local'["flush"] = local["flush"]
    BY <1>8 DEF Flushers
  <2> QED BY <1>1, <1>9, <2>1, <2>2 DEF Following, OneFlusher
<1> QED BY <1>5, <1>6, <1>7, <1>10, <1>11, <1>12

LEMMA WriteStep == ASSUME StoreInv, NEW t \in Flushers, WriteBatch(t) PROVE StoreInv'
<1> USE DEF StoreInv
<1>1. /\ UNCHANGED <<batchBuffer, local, history, mpc, dpc, shown, merged, pushed>>
      /\ fpc[t] = "write" /\ fpc \in [Flushers -> FlushSteps]
      /\ fpc' = [fpc EXCEPT ![t] = "commit"] /\ csv' = csv \o local[t]
  BY DEF WriteBatch, FlushPcOnly, Typed, GoesTo
<1>2. /\ fpc'[t] = "commit" /\ \A u \in Flushers : u # t => fpc'[u] = fpc[u]
  BY <1>1
<1>3. /\ csv' \in Seq(Frames) /\ Len(csv') = Len(csv) + Len(local[t])
      /\ \A i \in 1 .. Len(csv) : csv'[i] = csv[i]
      /\ \A i \in 1 .. Len(local[t]) : csv'[Len(csv) + i] = local[t][i]
      /\ Len(csv) \in Nat /\ Len(local[t]) \in Nat
  <2>1. csv \in Seq(Frames) /\ local[t] \in Seq(Frames)
    BY DEF Typed
  <2>2. Len(csv) \in Nat /\ Len(local[t]) \in Nat
    BY <2>1, LenProperties
  <2>3. /\ csv' \in Seq(Frames) /\ Len(csv') = Len(csv) + Len(local[t])
        /\ \A i \in 1 .. Len(csv) + Len(local[t]) :
             csv'[i] = IF i <= Len(csv) THEN csv[i] ELSE local[t][i - Len(csv)]
    BY <1>1, <2>1, ConcatProperties
  <2>4. \A i \in 1 .. Len(csv) : csv'[i] = csv[i]
    BY <2>2, <2>3
  <2>5. ASSUME NEW i \in 1 .. Len(local[t]) PROVE csv'[Len(csv) + i] = local[t][i]
    <3>1. Len(csv) + i \in 1 .. Len(csv) + Len(local[t]) /\ ~(Len(csv) + i <= Len(csv))
      BY <2>2
    <3>2. (Len(csv) + i) - Len(csv) = i
      BY <2>2
    <3> QED BY <2>3, <3>1, <3>2
  <2> QED BY <2>2, <2>3, <2>4, <2>5
<1>4. Typed'
  BY <1>1, <1>3 DEF Typed, FlushSteps
<1>5. Phases' /\ HandsEmpty'
  BY <1>1, <1>2 DEF Phases, HandsEmpty, Flushers
<1>6. Committed' = Committed
  <2>1. InHand("flush") \in Nat /\ InHand("main") \in Nat
    BY FlushTyped
  <2>2. InHand(t) = 0 /\ InHand(t)' = Len(local[t])
    BY <1>1, <1>2 DEF InHand
  <2>3. \A u \in Flushers : u # t => InHand(u)' = InHand(u)
    BY <1>1, <1>2 DEF InHand
  <2>4. CASE t = "flush"
    <3>1. InHand("main")' = InHand("main")
      BY <2>3, <2>4 DEF Flushers
    <3>2. InHand("flush") = 0 /\ InHand("flush")' = Len(local[t])
      BY <2>2, <2>4
    <3>3. /\ Len(csv') = Len(csv) + Len(local[t])
          /\ Len(csv) \in Nat /\ Len(local[t]) \in Nat
      BY <1>3
    <3> QED BY <2>1, <3>1, <3>2, <3>3 DEF Committed
  <2>5. CASE t = "main"
    <3>1. InHand("flush")' = InHand("flush")
      BY <2>3, <2>5 DEF Flushers
    <3>2. InHand("main") = 0 /\ InHand("main")' = Len(local[t])
      BY <2>2, <2>5
    <3>3. /\ Len(csv') = Len(csv) + Len(local[t])
          /\ Len(csv) \in Nat /\ Len(local[t]) \in Nat
      BY <1>3
    <3> QED BY <2>1, <3>1, <3>2, <3>3 DEF Committed
  <2> QED BY <2>4, <2>5 DEF Flushers
<1>7. Counted'
  BY <1>1, <1>6 DEF Counted
<1>8. FromFile'
  <2>1. ASSUME NEW j \in 1 .. Len(csv) PROVE j \in 1 .. Len(csv') /\ csv'[j] = csv[j]
    BY <1>3
  <2>2. ASSUME NEW i \in 1 .. Len(local[t])
        PROVE  \E j \in 1 .. Len(csv') : local[t][i] = csv'[j]
    <3>1. Len(csv) + i \in 1 .. Len(csv')
      BY <1>3
    <3> QED BY <1>3, <3>1
  <2>3. InFile(history)'
    BY <1>1, <2>1 DEF FromFile, InFile
  <2>4. ASSUME NEW u \in Flushers, fpc'[u] = "commit" PROVE InFile(local[u])'
    <3>1. CASE u = t
      BY <1>1, <2>2, <3>1 DEF InFile
    <3>2. CASE u # t
      BY <1>1, <1>2, <2>1, <2>4, <3>2 DEF FromFile, InFile
    <3> QED BY <3>1, <3>2
  <2> QED BY <2>3, <2>4 DEF FromFile
<1>9. Following'
  <2> SUFFICES ASSUME OneFlusher' PROVE Following'
    BY DEF Following
  <2>1. OneFlusher /\ fpc["main"] = "idle" /\ t = "flush"
    BY <1>1 DEF OneFlusher, Phases, Flushers
  <2>2. Committed = Len(csv)
    BY <1>1, <1>3, <2>1 DEF Committed, InHand
  <2>3. Len(history) \in Nat /\ Len(history) <= Len(csv)
    BY <1>3, <2>1, <2>2, FlushTyped, AggregatorAssumption DEF Counted, Flushers
  <2>4. ASSUME NEW i \in 1 .. Len(history') PROVE history'[i] = csv'[Committed' - Len(history') + i]
    <3>1. Len(csv) - Len(history) + i \in 1 .. Len(csv)
      BY <1>1, <1>3, <2>3
    <3> QED BY <1>1, <1>3, <1>6, <2>1, <2>2, <3>1 DEF Following
  <2>5. \A i \in 1 .. Len(local'["flush"]) : local'["flush"][i] = csv'[Committed' + i]
    BY <1>1, <1>3, <1>6, <2>1, <2>2
  <2> QED BY <2>4, <2>5 DEF Following
<1> QED BY <1>4, <1>5, <1>7, <1>8, <1>9

\* enforceRetentionPolicy keeps the end of the history.
LEMMA NewestEnds ==
  ASSUME NEW s \in Seq(Frames)
  PROVE  /\ Newest(s) \in Seq(Frames)
         /\ Len(Newest(s)) = IF Len(s) > MaxHistory THEN MaxHistory ELSE Len(s)
         /\ \A i \in 1 .. Len(Newest(s)) : Newest(s)[i] = s[Len(s) - Len(Newest(s)) + i]
<1>1. Len(s) \in Nat /\ MaxHistory \in Nat
  BY AggregatorAssumption, LenProperties
<1>2. CASE Len(s) > MaxHistory
  <2>1. Newest(s) = SubSeq(s, Len(s) - MaxHistory + 1, Len(s))
    BY <1>2 DEF Newest
  <2>2. \A i \in Len(s) - MaxHistory + 1 .. Len(s) : s[i] \in Frames
    <3> SUFFICES ASSUME NEW i \in Len(s) - MaxHistory + 1 .. Len(s) PROVE s[i] \in Frames
      OBVIOUS
    <3>1. i \in 1 .. Len(s)
      BY <1>1, <1>2
    <3> QED BY <3>1, ElementOfSeq
  <2>3. /\ Newest(s) \in Seq(Frames)
        /\ Len(Newest(s)) =
             IF Len(s) - MaxHistory + 1 <= Len(s) THEN Len(s) - (Len(s) - MaxHistory + 1) + 1 ELSE 0
        /\ \A i \in 1 .. Len(s) - (Len(s) - MaxHistory + 1) + 1 :
             Newest(s)[i] = s[(Len(s) - MaxHistory + 1) + i - 1]
    <3>1. Len(s) - MaxHistory + 1 \in Int /\ Len(s) \in Int
      BY <1>1
    <3> HIDE DEF Newest
    <3> QED BY <2>1, <2>2, <3>1, SubSeqProperties
  <2>4. Len(Newest(s)) = MaxHistory
    BY <1>1, <1>2, <2>3
  <2>5. ASSUME NEW i \in 1 .. Len(Newest(s))
        PROVE  Newest(s)[i] = s[Len(s) - Len(Newest(s)) + i]
    <3>1. i \in 1 .. Len(s) - (Len(s) - MaxHistory + 1) + 1
      BY <1>1, <2>4
    <3>2. (Len(s) - MaxHistory + 1) + i - 1 = Len(s) - Len(Newest(s)) + i
      BY <1>1, <2>4
    <3> QED BY <2>3, <3>1, <3>2
  <2> QED BY <1>2, <2>3, <2>4, <2>5
<1>3. CASE ~(Len(s) > MaxHistory)
  BY <1>1, <1>3 DEF Newest
<1> QED BY <1>2, <1>3

\* Arithmetic of a suffix of length b of a sequence of length a.
LEMMA Suffix ==
  ASSUME NEW a \in Nat, NEW b \in Nat, b <= a, NEW i \in 1 .. b
  PROVE  a - b + i \in 1 .. a
  OBVIOUS

LEMMA CommitStep == ASSUME StoreInv, NEW t \in Flushers, CommitBatch(t) PROVE StoreInv'
<1> USE DEF StoreInv
<1> DEFINE s == history \o local[t]
<1>1. /\ UNCHANGED <<batchBuffer, csv, mpc, dpc, shown, merged, pushed>>
      /\ fpc[t] = "commit" /\ fpc \in [Flushers -> FlushSteps]
      /\ local \in [Flushers -> Seq(Frames)]
      /\ fpc' = [fpc EXCEPT ![t] = "idle"] /\ local' = [local EXCEPT ![t] = <<>>]
      /\ history' = Newest(s)
  BY DEF CommitBatch, FlushPcOnly, Typed, GoesTo
<1>2. /\ fpc'[t] = "idle" /\ local'[t] = <<>>
      /\ \A u \in Flushers : u # t => fpc'[u] = fpc[u] /\ local'[u] = local[u]
  BY <1>1
<1>3. /\ Len(history) \in Nat /\ Len(local[t]) \in Nat /\ Len(csv) \in Nat
      /\ s \in Seq(Frames) /\ Len(s) = Len(history) + Len(local[t])
      /\ \A i \in 1 .. Len(history) + Len(local[t]) :
           s[i] = IF i <= Len(history) THEN history[i] ELSE local[t][i - Len(history)]
  <2>1. history \in Seq(Frames) /\ local[t] \in Seq(Frames) /\ csv \in Seq(Frames)
    BY DEF Typed
  <2> QED BY <2>1, LenProperties, ConcatProperties
<1>4. /\ history' \in Seq(Frames)
      /\ Len(history') = IF Len(s) > MaxHistory THEN MaxHistory ELSE Len(s)
      /\ \A i \in 1 .. Len(history') : history'[i] = s[Len(s) - Len(history') + i]
      /\ Len(history') \in Nat /\ Len(history') <= Len(s) /\ MaxHistory \in Nat
  <2> HIDE DEF s
  <2>1. /\ history' \in Seq(Frames)
        /\ Len(history') = IF Len(s) > MaxHistory THEN MaxHistory ELSE Len(s)
        /\ \A i \in 1 .. Len(history') : history'[i] = s[Len(s) - Len(history') + i]
    BY <1>1, <1>3, NewestEnds
  <2>2. Len(s) \in Nat /\ MaxHistory \in Nat
    BY <1>3, AggregatorAssumption
  <2>3. Len(history') = IF Len(s) > MaxHistory THEN MaxHistory ELSE Len(s)
    BY <2>1
  <2>4. Len(history') \in Nat /\ Len(history') <= Len(s)
    BY <2>2, <2>3
  <2> QED BY <2>1, <2>2, <2>4
<1> HIDE DEF s
\* The lengths alone.
<1>5. /\ Len(history) \in Nat /\ Len(local[t]) \in Nat /\ Len(s) = Len(history) + Len(local[t])
      /\ Len(history') = IF Len(s) > MaxHistory THEN MaxHistory ELSE Len(s)
      /\ Len(history') \in Nat /\ Len(history') <= Len(s) /\ MaxHistory \in Nat
      /\ Len(s) \in Nat
  BY <1>3, <1>4
<1>6. Typed'
  <2>1. <<>> \in Seq(Frames)
    BY EmptySeq
  <2> QED BY <1>1, <1>4, <2>1 DEF Typed, FlushSteps
<1>7. Phases'
  BY <1>1, <1>2 DEF Phases, Flushers
<1>8. HandsEmpty'
  BY <1>1, <1>2 DEF HandsEmpty
<1>9. Committed' = Committed + Len(local[t])
  <2>1. InHand("flush") \in Nat /\ InHand("main") \in Nat
    BY FlushTyped
  <2>2. InHand(t) = Len(local[t]) /\ InHand(t)' = 0
    BY <1>1, <1>2 DEF InHand
  <2>3. \A u \in Flushers : u # t => InHand(u)' = InHand(u)
    BY <1>1, <1>2 DEF InHand
  <2>4. CASE t = "flush"
    <3>1. InHand("main")' = InHand("main")
      BY <2>3, <2>4 DEF Flushers
    <3>2. InHand("flush") = Len(local[t]) /\ InHand("flush")' = 0
      BY <2>2, <2>4
    <3>3. csv' = csv /\ Len(csv) \in Nat /\ Len(local[t]) \in Nat
      BY <1>1, <1>3
    <3> QED BY <2>1, <3>1, <3>2, <3>3 DEF Committed
  <2>5. CASE t = "main"
    <3>1. InHand("flush")' = InHand("flush")
      BY <2>3, <2>5 DEF Flushers
    <3>2. InHand("main") = Len(local[t]) /\ InHand("main")' = 0
      BY <2>2, <2>5
    <3>3. csv' = csv /\ Len(csv) \in Nat /\ Len(local[t]) \in Nat
      BY <1>1, <1>3
    <3> QED BY <2>1, <3>1, <3>2, <3>3 DEF Committed
  <2> QED BY <2>4, <2>5 DEF Flushers
<1>10. Committed \in Int
  BY FlushTyped
<1>11. Counted'
  <2>1. Committed >= 0 /\ Len(history) = IF Committed > MaxHistory THEN MaxHistory ELSE Committed
    BY DEF Counted
  <2>2. /\ Committed' >= 0
        /\ Len(history') = IF Committed' > MaxHistory THEN MaxHistory ELSE Committed'
    <3>1. Len(history') = IF Len(history) + Len(local[t]) > MaxHistory
                          THEN MaxHistory ELSE Len(history) + Len(local[t])
      BY <1>5
    <3>2. /\ Committed \in Int /\ Committed >= 0 /\ Len(local[t]) \in Nat /\ MaxHistory \in Nat
          /\ Len(history) = IF Committed > MaxHistory THEN MaxHistory ELSE Committed
      BY <1>5, <1>10, <2>1
    <3>3. Committed' = Committed + Len(local[t]) /\ Committed' \in Int /\ Committed' >= Committed
      BY <1>9, <3>2
    <3>4. Len(history) \in Nat /\ Len(history) + Len(local[t]) \in Nat
      BY <1>5
    <3>5. CASE Committed > MaxHistory
      <4>1. Committed' > MaxHistory /\ Len(history) = MaxHistory
        BY <3>2, <3>3, <3>5
      <4>2. CASE Len(local[t]) = 0
        BY <3>1, <3>2, <3>3, <3>4, <4>1, <4>2
      <4>3. CASE Len(local[t]) > 0
        <5>1. MaxHistory + Len(local[t]) > MaxHistory
          <6>1. MaxHistory \in Nat /\ Len(local[t]) \in Nat
            BY <3>2
          <6> QED BY <4>3, <6>1
        <5>2. Len(history') = MaxHistory
          BY <3>1, <4>1, <5>1
        <5>3. Committed' >= 0
          BY <3>2, <3>3
        <5> QED BY <4>1, <5>2, <5>3
      <4> QED BY <3>2, <4>2, <4>3
    <3>6. CASE ~(Committed > MaxHistory)
      <4>1. Len(history) + Len(local[t]) = Committed'
        BY <3>2, <3>3, <3>6
      <4>2. Committed' >= 0
        BY <3>2, <3>3
      <4>3. Len(history') = IF Committed' > MaxHistory THEN MaxHistory ELSE Committed'
        BY <3>1, <4>1
      <4> QED BY <4>2, <4>3
    <3> QED BY <3>5, <3>6
  <2> QED BY <2>2 DEF Counted
<1>12. FromFile'
  <2>1. ASSUME NEW i \in 1 .. Len(s) PROVE \E j \in 1 .. Len(csv) : s[i] = csv[j]
    <3>1. CASE i <= Len(history)
      <4>1. i \in 1 .. Len(history)
        BY <1>3, <3>1
      <4> QED BY <1>3, <3>1, <4>1 DEF FromFile, InFile
    <3>2. CASE ~(i <= Len(history))
      <4>1. i - Len(history) \in 1 .. Len(local[t])
        BY <1>3, <3>2
      <4>2. InFile(local[t])
        BY <1>1 DEF FromFile
      <4> QED BY <1>3, <3>2, <4>1, <4>2 DEF InFile
    <3> QED BY <3>1, <3>2
  <2>2. InFile(history)'
    <3> SUFFICES ASSUME NEW i \in 1 .. Len(history')
                 PROVE  \E j \in 1 .. Len(csv') : history'[i] = csv'[j]
      BY DEF InFile
    <3>1. Len(s) - Len(history') + i \in 1 .. Len(s)
      BY <1>5, Suffix
    <3> QED BY <1>1, <1>4, <2>1, <3>1
  <2>3. ASSUME NEW u \in Flushers, fpc'[u] = "commit" PROVE InFile(local[u])'
    BY <1>1, <1>2, <2>3 DEF FromFile, InFile
  <2> QED BY <2>2, <2>3 DEF FromFile
<1>13. Following'
  <2> SUFFICES ASSUME OneFlusher',
                      NEW i \in 1 .. Len(history')
               PROVE  history'[i] = csv'[Committed' - Len(history') + i]
    <3>1. OneFlusher' => t = "flush"
      BY <1>1 DEF OneFlusher, Phases, Flushers
    <3> QED BY <1>2, <3>1 DEF Following
  <2>1. OneFlusher /\ t = "flush"
    BY <1>1 DEF OneFlusher, Phases, Flushers
  <2> DEFINE k == Len(s) - Len(history') + i
  <2>2. /\ k \in 1 .. Len(s) /\ history'[i] = s[k]
        /\ Committed' - Len(history') + i = Committed - Len(history) + k
    <3>1. k \in 1 .. Len(s)
      BY <1>5, Suffix
    <3>2. history'[i] = s[k]
      BY <1>4
    <3>3. Committed' - Len(history') + i = Committed - Len(history) + k
      BY <1>9, <1>10, <1>5
    <3> QED BY <3>1, <3>2, <3>3
  <2> HIDE DEF k
  <2>3. CASE k <= Len(history)
    <3>1. k \in 1 .. Len(history)
      BY <1>3, <2>2, <2>3
    <3>2. s[k] = history[k]
      BY <1>3, <2>2, <2>3
    <3> QED BY <1>1, <2>1, <2>2, <3>1, <3>2 DEF Following
  <2>4. CASE ~(k <= Len(history))
    <3>1. k - Len(history) \in 1 .. Len(local[t])
      BY <1>3, <2>2, <2>4
    <3>2. s[k] = local[t][k - Len(history)]
      BY <1>3, <2>2, <2>4
    <3>3. local[t][k - Len(history)] = csv[Committed + (k - Len(history))]
      BY <1>1, <2>1, <3>1 DEF Following
    <3>4. Committed + (k - Len(history)) = Committed - Len(history) + k
      BY <1>3, <1>10, <2>2
    <3> QED BY <1>1, <2>2, <3>2, <3>3, <3>4
  <2> QED BY <2>3, <2>4
<1> QED BY <1>6, <1>7, <1>8, <1>11, <1>12, <1>13

LEMMA InitStoreInv == Init => StoreInv
<1> SUFFICES ASSUME Init PROVE StoreInv
  OBVIOUS
<1>1. /\ batchBuffer = <<>> /\ csv = <<>> /\ history = <<>>
      /\ local = [t \in Flushers |-> <<>>] /\ fpc = [t \in Flushers |-> "idle"]
      /\ mpc = "running" /\ shown = 0 /\ merged = None /\ pushed = None
  BY DEF Init
<1>2. Typed
  <2>1. <<>> \in Seq(Frames) /\ 0 \in Frames
    BY EmptySeq, AggregatorAssumption DEF Frames
  <2> QED BY <1>1, <2>1 DEF Typed, FlushSteps
<1>3. Phases
  BY <1>1 DEF Phases, Flushers
<1>4. HandsEmpty
  BY <1>1 DEF HandsEmpty
<1>5. \A t \in Flushers : fpc[t] = "idle"
  BY <1>1
<1>6. Len(csv) = 0 /\ Len(history) = 0 /\ Committed = 0
  <2>1. InHand("flush") = 0 /\ InHand("main") = 0
    BY <1>5 DEF InHand, Flushers
  <2>2. Len(csv) = 0 /\ Len(history) = 0
    BY <1>1, EmptySeq
  <2> QED BY <2>1, <2>2 DEF Committed
<1>7. Counted
  BY <1>6, AggregatorAssumption DEF Counted
<1>8. \A i \in 1 .. Len(history) : FALSE
  BY <1>6
<1>9. FromFile /\ Following
  BY <1>5, <1>8 DEF FromFile, InFile, Following, Flushers
<1> QED BY <1>2, <1>3, <1>4, <1>7, <1>9 DEF StoreInv

LEMMA StoreStep == StoreInv /\ [Next]_vars => StoreInv'
<1> SUFFICES ASSUME StoreInv, [Next]_vars PROVE StoreInv'
  OBVIOUS
<1>1. \/ Aside \/ Moves \/ DisplayBatches
      \/ \E t \in Flushers : TakeBatch(t) \/ WriteBatch(t) \/ CommitBatch(t)
  BY DEF Next, Display, FlushThread, MainThread, Flush, Finished, Aside, Moves, Flushers
<1> QED BY <1>1, AsideStep, MovesStep, BatchesStep, TakeStep, WriteStep, CommitStep

LEMMA StoreInvariant == Spec => []StoreInv
<1>1. Init => StoreInv
  BY InitStoreInv
<1>2. StoreInv /\ [Next]_vars => StoreInv'
  BY StoreStep
<1> QED BY <1>1, <1>2, PTL DEF Spec

-----------------------------------------------------------------------------
(***************************************************************************)
(* What a reader of the history, or of the file, may rely on.              *)
(***************************************************************************)

\* While the flush thread is alone at it, the history is always the end of what
\* was committed to the file, however many rows a batch has.
THEOREM HistoryIsTail == Spec => []HistoryFollowsFile
<1>1. ASSUME StoreInv PROVE HistoryFollowsFile
  <2> SUFFICES ASSUME mpc \in {"running", "joinDisplay", "joinCamera"}
               PROVE  LET committed == Len(csv) - (IF fpc["flush"] = "commit"
                                                   THEN Len(local["flush"]) ELSE 0)
                          skipped   == IF committed > MaxHistory THEN committed - MaxHistory ELSE 0
                      IN  history = SubSeq(csv, skipped + 1, committed)
    BY DEF HistoryFollowsFile
  <2> DEFINE c == Len(csv) - (IF fpc["flush"] = "commit" THEN Len(local["flush"]) ELSE 0)
             d == IF c > MaxHistory THEN c - MaxHistory ELSE 0
  <2>1. c = Committed /\ OneFlusher
    <3>1. InHand("main") = 0 /\ InHand("flush") \in Nat /\ Len(csv) \in Nat
      BY <1>1, FlushTyped DEF StoreInv, Phases, InHand, Flushers
    <3>2. c = Len(csv) - InHand("flush")
      BY DEF InHand
    <3>3. Len(csv) - InHand("flush") = Committed
      BY <3>1 DEF Committed
    <3> QED BY <3>2, <3>3 DEF OneFlusher
  <2>2. /\ c \in Nat /\ c <= Len(csv) /\ Len(csv) \in Nat /\ MaxHistory \in Nat
        /\ Len(history) = IF c > MaxHistory THEN MaxHistory ELSE c
        /\ \A i \in 1 .. Len(history) : history[i] = csv[c - Len(history) + i]
    <3>1. /\ Committed >= 0 /\ Committed \in Int
          /\ Len(history) = IF Committed > MaxHistory THEN MaxHistory ELSE Committed
          /\ \A i \in 1 .. Len(history) : history[i] = csv[Committed - Len(history) + i]
      BY <1>1, <2>1, FlushTyped DEF StoreInv, Counted, Following, Flushers
    <3>2. InHand("flush") \in Nat /\ InHand("main") \in Nat /\ Len(csv) \in Nat
      BY <1>1, FlushTyped DEF StoreInv, Flushers
    <3>3. Committed <= Len(csv)
      BY <3>2 DEF Committed
    <3> HIDE DEF c
    <3> QED BY <2>1, <3>1, <3>2, <3>3, AggregatorAssumption
  <2> HIDE DEF c
  <2>3. d \in Nat /\ c - Len(history) = d /\ Len(history) = c - d /\ d <= c
    BY <2>2
  <2> HIDE DEF d
  <2>4. \A i \in d + 1 .. c : csv[i] \in Frames
    <3> SUFFICES ASSUME NEW i \in d + 1 .. c PROVE csv[i] \in Frames
      OBVIOUS
    <3>1. i \in 1 .. Len(csv)
      BY <2>2, <2>3
    <3> QED BY <1>1, <3>1, ElementOfSeq DEF StoreInv, Typed
  <2>5. /\ SubSeq(csv, d + 1, c) \in Seq(Frames)
        /\ Len(SubSeq(csv, d + 1, c)) = IF d + 1 <= c THEN c - (d + 1) + 1 ELSE 0
        /\ \A i \in 1 .. c - (d + 1) + 1 : SubSeq(csv, d + 1, c)[i] = csv[(d + 1) + i - 1]
    <3>1. d + 1 \in Int /\ c \in Int
      BY <2>2, <2>3
    <3> QED BY <2>4, <3>1, SubSeqProperties
  <2>6. Len(SubSeq(csv, d + 1, c)) = Len(history)
    BY <2>2, <2>3, <2>5
  <2>7. ASSUME NEW i \in 1 .. Len(history) PROVE history[i] = SubSeq(csv, d + 1, c)[i]
    <3>1. i \in 1 .. c - (d + 1) + 1 /\ (d + 1) + i - 1 = d + i
      BY <2>2, <2>3
    <3>2. history[i] = csv[d + i]
      BY <2>2, <2>3
    <3> QED BY <2>5, <3>1, <3>2
  <2>8. history \in Seq(Frames)
    BY <1>1 DEF StoreInv, Typed
  <2>9. history = SubSeq(csv, d + 1, c)
    BY <2>5, <2>6, <2>7, <2>8, SeqEqual
  <2> QED BY <2>9 DEF c, d
<1> QED BY <1>1, StoreInvariant, PTL

\* When flushMetrics returns, nothing is left on its way to the file, and the
\* history is full or as long as the file, whichever thread wrote the rows.
THEOREM NoRowLeft == Spec => []ShutdownLosesNoRow
<1>1. ASSUME StoreInv PROVE ShutdownLosesNoRow
  <2> SUFFICES ASSUME mpc = "done"
               PROVE  /\ batchBuffer = <<>> /\ \A t \in Flushers : local[t] = <<>>
                      /\ Len(history) = IF Len(csv) > MaxHistory THEN MaxHistory ELSE Len(csv)
                      /\ Range(history) \subseteq Range(csv)
    BY DEF ShutdownLosesNoRow
  <2>1. batchBuffer = <<>> /\ fpc["main"] = "idle" /\ fpc["flush"] = "exited"
    BY <1>1 DEF StoreInv, Phases
  <2>2. \A t \in Flushers : local[t] = <<>>
    BY <1>1, <2>1 DEF StoreInv, HandsEmpty, Flushers
  <2>3. Committed = Len(csv)
    <3>1. InHand("flush") = 0 /\ InHand("main") = 0
      BY <2>1 DEF InHand
    <3>2. Len(csv) \in Nat
      BY <1>1, LenProperties DEF StoreInv, Typed
    <3> QED BY <3>1, <3>2 DEF Committed
  <2>4. Range(history) \subseteq Range(csv)
    <3>1. DOMAIN history = 1 .. Len(history) /\ DOMAIN csv = 1 .. Len(csv)
      BY <1>1, LenProperties DEF StoreInv, Typed
    <3> QED BY <1>1, <3>1 DEF StoreInv, FromFile, InFile, Range
  <2>5. Len(history) = IF Len(csv) > MaxHistory THEN MaxHistory ELSE Len(csv)
    BY <1>1, <2>3 DEF StoreInv, Counted
  <2> QED BY <2>1, <2>2, <2>4, <2>5
<1> QED BY <1>1, StoreInvariant, PTL
=============================================================================
