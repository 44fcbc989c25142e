-------------------------- MODULE MetricsRowsProofs --------------------------
(***************************************************************************)
(* The rows of the metrics aggregator, for any number of frames and any    *)
(* limit on the pending rows: the retention policy finds a row to give up  *)
(* and gives up the oldest, and a row is completed and written once, as    *)
(* RowLedger says.                                                         *)
(***************************************************************************)
EXTENDS MetricsAggregatorProofs, FiniteSetTheorems, FunctionTheorems, WellFoundedInduction

-----------------------------------------------------------------------------
(***************************************************************************)
(* Sequences and sets of numbers.                                          *)
(***************************************************************************)
Increasing(s) == \A i, j \in DOMAIN s : i < j => s[i] < s[j]

\* A set of naturals has a least element.
LEMMA LeastElement ==
  ASSUME NEW T \in SUBSET Nat, T # {}
  PROVE  \E n \in T : \A m \in T : n <= m
<1> DEFINE R == {ss \in Nat \X Nat : ss[1] < ss[2]}
<1>1. IsWellFoundedOn(R, Nat)
  BY NatLessThanWellFounded DEF OpToRel
<1> HIDE DEF R
<1>2. PICK n \in T : \A m \in T : ~(<<m, n>> \in R)
  BY <1>1, WFMin
<1>3. ASSUME NEW m \in T PROVE n <= m
  <2>1. ~(m < n)
    BY <1>2 DEF R
  <2> QED BY <2>1
<1> QED BY <1>3

\* An id is taken out of an increasing list, and nothing else.
LEMMA WithoutFacts ==
  ASSUME NEW s \in Seq(Frames), Increasing(s), NEW f \in Frames
  PROVE  /\ Without(s, f) \in Seq(Frames) /\ Increasing(Without(s, f))
         /\ Range(Without(s, f)) = Range(s) \ {f}
<1>1. DOMAIN s = 1 .. Len(s) /\ Len(s) \in Nat /\ \A i \in 1 .. Len(s) : s[i] \in Frames
  BY LenProperties, ElementOfSeq
<1>2. CASE f \notin Range(s)
  BY <1>2 DEF Without
<1>3. CASE f \in Range(s)
  <2> DEFINE k == CHOOSE i \in DOMAIN s : s[i] = f
             a == SubSeq(s, 1, k - 1)
             b == SubSeq(s, k + 1, Len(s))
  <2>1. k \in 1 .. Len(s) /\ s[k] = f
    BY <1>1, <1>3 DEF Range
  <2>2. Without(s, f) = a \o b
    BY <1>3 DEF Without, SeqsExt!RemoveAt
  <2> HIDE DEF k
  <2>3. /\ a \in Seq(Frames) /\ Len(a) = k - 1 /\ \A i \in 1 .. k - 1 : a[i] = s[i]
    <3>1. \A i \in 1 .. k - 1 : s[i] \in Frames
      BY <1>1, <2>1
    <3>2. 1 \in Int /\ k - 1 \in Int /\ k \in Int
      BY <1>1, <2>1
    <3>3. /\ a \in Seq(Frames) /\ Len(a) = IF 1 <= k - 1 THEN (k - 1) - 1 + 1 ELSE 0
          /\ \A i \in 1 .. (k - 1) - 1 + 1 : a[i] = s[1 + i - 1]
      BY <3>1, <3>2, SubSeqProperties
    <3> HIDE DEF a
    <3>4. Len(a) = k - 1
      BY <1>1, <2>1, <3>3
    <3>5. ASSUME NEW i \in 1 .. k - 1 PROVE a[i] = s[i]
      <4>1. i \in 1 .. (k - 1) - 1 + 1 /\ 1 + i - 1 = i
        BY <3>2
      <4> QED BY <3>3, <4>1
    <3> QED BY <3>3, <3>4, <3>5
  <2>4. /\ b \in Seq(Frames) /\ Len(b) = Len(s) - k /\ \A i \in 1 .. Len(s) - k : b[i] = s[k + i]
    <3>1. \A i \in k + 1 .. Len(s) : s[i] \in Frames
      BY <1>1, <2>1
    <3>2. k + 1 \in Int /\ Len(s) \in Int /\ k \in Int
      BY <1>1, <2>1
    <3>3. /\ b \in Seq(Frames) /\ Len(b) = IF k + 1 <= Len(s) THEN Len(s) - (k + 1) + 1 ELSE 0
          /\ \A i \in 1 .. Len(s) - (k + 1) + 1 : b[i] = s[(k + 1) + i - 1]
      BY <3>1, <3>2, SubSeqProperties
    <3> HIDE DEF b
    <3>4. Len(b) = Len(s) - k
      <4>1. Len(b) = IF k + 1 <= Len(s) THEN Len(s) - (k + 1) + 1 ELSE 0
        BY <3>3
      <4>2. k \in Int /\ Len(s) \in Int /\ k <= Len(s)
        BY <1>1, <2>1
      <4> QED BY <4>1, <4>2
    <3>5. ASSUME NEW i \in 1 .. Len(s) - k PROVE b[i] = s[k + i]
      <4>1. i \in 1 .. Len(s) - (k + 1) + 1 /\ (k + 1) + i - 1 = k + i
        BY <1>1, <3>2
      <4> QED BY <3>3, <4>1
    <3> QED BY <3>3, <3>4, <3>5
  <2> DEFINE w == a \o b
  <2> HIDE DEF a, b
  <2>5. /\ w \in Seq(Frames) /\ Len(w) = Len(s) - 1
        /\ \A i \in 1 .. Len(s) - 1 : w[i] = IF i <= k - 1 THEN a[i] ELSE b[i - (k - 1)]
    <3>1. Len(a) + Len(b) = Len(s) - 1
      BY <1>1, <2>1, <2>3, <2>4
    <3> QED BY <2>3, <2>4, <3>1, ConcatProperties
  <2> HIDE DEF w
  <2>6. ASSUME NEW i \in 1 .. Len(s) - 1
        PROVE  /\ i < k => w[i] = s[i]
               /\ ~(i < k) => w[i] = s[i + 1]
    <3>1. CASE i < k
      <4>1. i \in 1 .. k - 1 /\ i <= k - 1
        BY <1>1, <2>1, <3>1
      <4> QED BY <2>3, <2>5, <3>1, <4>1
    <3>2. CASE ~(i < k)
      <4>1. ~(i <= k - 1) /\ i - (k - 1) \in 1 .. Len(s) - k /\ k + (i - (k - 1)) = i + 1
        BY <1>1, <2>1, <3>2
      <4> QED BY <2>4, <2>5, <3>2, <4>1
    <3> QED BY <3>1, <3>2
  <2>7. DOMAIN w = 1 .. Len(s) - 1
    BY <2>5, LenProperties
  \* The place of an element of w in s.
  <2> DEFINE at(i) == IF i < k THEN i ELSE i + 1
  <2>8. ASSUME NEW i \in 1 .. Len(s) - 1
        PROVE  at(i) \in 1 .. Len(s) /\ at(i) # k /\ w[i] = s[at(i)]
    BY <1>1, <2>1, <2>6
  <2>9. Increasing(w)
    <3> SUFFICES ASSUME NEW i \in 1 .. Len(s) - 1, NEW j \in 1 .. Len(s) - 1, i < j
                 PROVE  w[i] < w[j]
      BY <2>7 DEF Increasing
    <3>1. at(i) < at(j)
      BY <1>1, <2>1
    <3> HIDE DEF at
    <3> QED BY <1>1, <2>8, <3>1 DEF Increasing
  <2>10. Range(w) \subseteq Range(s) \ {f}
    <3> SUFFICES ASSUME NEW i \in 1 .. Len(s) - 1 PROVE w[i] \in Range(s) /\ w[i] # f
      BY <2>7 DEF Range
    <3>1. at(i) \in 1 .. Len(s) /\ at(i) # k /\ w[i] = s[at(i)]
      BY <2>8
    <3> HIDE DEF at
    <3>2. at(i) < k \/ k < at(i)
      BY <1>1, <2>1, <3>1
    <3>3. s[at(i)] \in Nat /\ s[k] \in Nat
      BY <1>1, <2>1, <3>1, AggregatorAssumption DEF Frames
    <3>4. s[at(i)] # s[k]
      BY <1>1, <2>1, <3>1, <3>2, <3>3 DEF Increasing
    <3> QED BY <1>1, <2>1, <3>1, <3>4 DEF Range
  <2>11. Range(s) \ {f} \subseteq Range(w)
    <3> SUFFICES ASSUME NEW j \in 1 .. Len(s), s[j] # f PROVE s[j] \in Range(w)
      BY <1>1 DEF Range
    <3>1. CASE j < k
      <4>1. j \in 1 .. Len(s) - 1
        BY <1>1, <2>1, <3>1
      <4> QED BY <2>6, <2>7, <3>1, <4>1 DEF Range
    <3>2. CASE k < j
      <4>1. j - 1 \in 1 .. Len(s) - 1 /\ ~(j - 1 < k) /\ (j - 1) + 1 = j
        BY <1>1, <2>1, <3>2
      <4>2. w[j - 1] = s[j]
        BY <2>6, <4>1
      <4> QED BY <2>7, <4>1, <4>2 DEF Range
    <3>3. j < k \/ k < j
      BY <1>1, <2>1
    <3> QED BY <3>1, <3>2, <3>3
  <2> QED BY <2>2, <2>5, <2>9, <2>10, <2>11 DEF w
<1> QED BY <1>2, <1>3

\* enforceRetentionPolicy cuts the list in two.
LEMMA CutFacts ==
  ASSUME NEW s \in Seq(Frames), Increasing(s), NEW k \in 0 .. Len(s)
  PROVE  /\ Popped(s, k) = {s[i] : i \in 1 .. k}
         /\ Rest(s, k) \in Seq(Frames) /\ Len(Rest(s, k)) = Len(s) - k
         /\ Range(Rest(s, k)) = {s[i] : i \in k + 1 .. Len(s)}
         /\ Increasing(Rest(s, k))
<1>1. DOMAIN s = 1 .. Len(s) /\ Len(s) \in Nat /\ \A i \in 1 .. Len(s) : s[i] \in Frames
  BY LenProperties, ElementOfSeq
<1>2. k \in Int /\ 0 <= k /\ k <= Len(s)
  BY <1>1
<1>3. Popped(s, k) = {s[i] : i \in 1 .. k}
  <2> DEFINE a == SubSeq(s, 1, k)
  <2>1. \A i \in 1 .. k : s[i] \in Frames
    BY <1>1, <1>2
  <2>2. /\ a \in Seq(Frames) /\ Len(a) = IF 1 <= k THEN k - 1 + 1 ELSE 0
        /\ \A i \in 1 .. k - 1 + 1 : a[i] = s[1 + i - 1]
    <3>1. 1 \in Int /\ k \in Int
      BY <1>2
    <3> QED BY <2>1, <3>1, SubSeqProperties
  <2> HIDE DEF a
  <2>3. Len(a) = k
    BY <1>2, <2>2
  <2>4. ASSUME NEW i \in 1 .. k PROVE a[i] = s[i]
    <3>1. i \in 1 .. k - 1 + 1 /\ 1 + i - 1 = i
      BY <1>2
    <3> QED BY <2>2, <3>1
  <2>5. Range(a) = {a[i] : i \in 1 .. k}
    BY <2>2, <2>3, LenProperties DEF Range
  <2>6. Popped(s, k) = Range(a)
    BY DEF Popped, a
  <2>7. {a[i] : i \in 1 .. k} = {s[i] : i \in 1 .. k}
    BY <2>4
  <2> QED BY <2>5, <2>6, <2>7
<1> DEFINE b == Rest(s, k)
<1>4. /\ b \in Seq(Frames) /\ Len(b) = Len(s) - k /\ \A i \in 1 .. Len(s) - k : b[i] = s[k + i]
  <2>1. \A i \in k + 1 .. Len(s) : s[i] \in Frames
    BY <1>1, <1>2
  <2>2. /\ b \in Seq(Frames) /\ Len(b) = IF k + 1 <= Len(s) THEN Len(s) - (k + 1) + 1 ELSE 0
        /\ \A i \in 1 .. Len(s) - (k + 1) + 1 : b[i] = s[(k + 1) + i - 1]
    <3>1. k + 1 \in Int /\ Len(s) \in Int
      BY <1>1, <1>2
    <3> QED BY <2>1, <3>1, SubSeqProperties DEF Rest
  <2> HIDE DEF b
  <2>3. Len(b) = Len(s) - k
    <3>1. Len(b) = IF k + 1 <= Len(s) THEN Len(s) - (k + 1) + 1 ELSE 0
      BY <2>2
    <3>2. k \in Int /\ Len(s) \in Int /\ k <= Len(s)
      BY <1>1, <1>2
    <3> QED BY <3>1, <3>2
  <2>4. ASSUME NEW i \in 1 .. Len(s) - k PROVE b[i] = s[k + i]
    <3>1. i \in 1 .. Len(s) - (k + 1) + 1 /\ (k + 1) + i - 1 = k + i
      BY <1>1, <1>2
    <3> QED BY <2>2, <3>1
  <2> QED BY <2>2, <2>3, <2>4
<1> HIDE DEF b
<1>5. DOMAIN b = 1 .. Len(s) - k
  BY <1>4, LenProperties
<1>6. Increasing(b)
  <2> SUFFICES ASSUME NEW i \in 1 .. Len(s) - k, NEW j \in 1 .. Len(s) - k, i < j
               PROVE  b[i] < b[j]
    BY <1>5 DEF Increasing
  <2>1. k + i \in 1 .. Len(s) /\ k + j \in 1 .. Len(s) /\ k + i < k + j
    BY <1>1, <1>2
  <2>2. s[k + i] < s[k + j]
    BY <1>1, <2>1 DEF Increasing
  <2> QED BY <1>4, <2>2
<1>7. Range(b) = {s[i] : i \in k + 1 .. Len(s)}
  <2>1. ASSUME NEW i \in 1 .. Len(s) - k PROVE b[i] \in {s[j] : j \in k + 1 .. Len(s)}
    <3>1. k + i \in k + 1 .. Len(s)
      BY <1>1, <1>2
    <3> QED BY <1>4, <3>1
  <2>2. ASSUME NEW j \in k + 1 .. Len(s) PROVE s[j] \in Range(b)
    <3>1. j - k \in 1 .. Len(s) - k /\ k + (j - k) = j
      BY <1>1, <1>2
    <3>2. b[j - k] = s[j]
      BY <1>4, <3>1
    <3> QED BY <1>5, <3>1, <3>2 DEF Range
  <2>3. Range(b) = {b[i] : i \in 1 .. Len(s) - k}
    BY <1>5 DEF Range
  <2> QED BY <2>1, <2>2, <2>3
<1> QED BY <1>3, <1>4, <1>6, <1>7 DEF b

-----------------------------------------------------------------------------
(***************************************************************************)
(* Type correctness, with the list of arrivals in the order of the frames. *)
(***************************************************************************)
Rows ==
  /\ nextFrame \in 0 .. MaxFrame + 1
  /\ pending \subseteq Frames /\ Cardinality(pending) <= MaxPending
  /\ \A f \in pending : f < nextFrame
  /\ hasAlg \subseteq pending /\ frameStarted \subseteq Frames

Arrivals ==
  /\ arrivalOrder \in Seq(Frames) /\ Increasing(arrivalOrder)
  /\ \A f \in Range(arrivalOrder) : f < nextFrame
  /\ pending \subseteq Range(arrivalOrder)

Positions ==
  /\ stopping \in BOOLEAN
  /\ wpc \in {"pop", "push", "exited"}
  /\ dpc \in {"render", "merge", "overlay", "exited"}
  /\ mpc \in MainSteps

RowsInv == Rows /\ Arrivals /\ Positions

LEMMA NumberFacts ==
  /\ MaxFrame \in Nat /\ MaxPending \in Nat /\ MaxPending >= 1
  /\ Frames = 0 .. MaxFrame /\ Frames \subseteq Nat /\ IsFiniteSet(Frames)
<1>1. MaxFrame \in Nat /\ MaxPending \in Nat /\ MaxPending >= 1
  BY AggregatorAssumption
<1>2. IsFiniteSet(0 .. MaxFrame)
  BY <1>1, FS_Interval
<1> QED BY <1>1, <1>2 DEF Frames

\* A set with no more elements fits as well.
LEMMA Fewer ==
  ASSUME NEW P \in SUBSET Frames, Cardinality(P) <= MaxPending, NEW Q \in SUBSET P
  PROVE  Cardinality(Q) <= MaxPending
<1>1. IsFiniteSet(P)
  BY NumberFacts, FS_Subset
<1>2. IsFiniteSet(Q) /\ Cardinality(Q) <= Cardinality(P)
  BY <1>1, FS_Subset
<1>3. Cardinality(P) \in Nat /\ Cardinality(Q) \in Nat
  BY <1>1, <1>2, FS_CardinalityType
<1> QED BY <1>2, <1>3, NumberFacts

\* The retention policy stops before the list is empty, and before the row
\* being opened.
LEMMA PopsFacts ==
  ASSUME Rows, Arrivals, nextFrame <= MaxFrame,
         NEW p, p = pending \cup {nextFrame},
         NEW s, s = Append(arrivalOrder, nextFrame)
  PROVE  /\ s \in Seq(Frames) /\ Increasing(s) /\ Range(s) = Range(arrivalOrder) \cup {nextFrame}
         /\ Len(s) \in Nat /\ s[Len(s)] = nextFrame
         /\ Pops(p, s) \in 0 .. Len(s) - 1 /\ Enough(p, s, Pops(p, s))
<1>1. nextFrame \in Frames /\ nextFrame \in Nat
  BY NumberFacts DEF Rows
<1> DEFINE n == Len(arrivalOrder)
<1>2. /\ n \in Nat /\ DOMAIN arrivalOrder = 1 .. n
      /\ \A i \in 1 .. n : arrivalOrder[i] \in Frames /\ arrivalOrder[i] \in Nat
  BY LenProperties, ElementOfSeq, NumberFacts DEF Arrivals
<1>3. /\ s \in Seq(Frames) /\ Len(s) = n + 1 /\ s[n + 1] = nextFrame
      /\ \A i \in 1 .. n : s[i] = arrivalOrder[i]
  BY <1>1, AppendProperties DEF Arrivals
<1>4. DOMAIN s = 1 .. n + 1
  BY <1>3, LenProperties
<1> HIDE DEF n
<1>5. \A i \in 1 .. n : s[i] < nextFrame
  BY <1>2, <1>3 DEF Arrivals, Range
<1>6. Increasing(s)
  <2> SUFFICES ASSUME NEW i \in 1 .. n + 1, NEW j \in 1 .. n + 1, i < j PROVE s[i] < s[j]
    BY <1>4 DEF Increasing
  <2>1. i \in 1 .. n /\ (j \in 1 .. n \/ j = n + 1)
    BY <1>2
  <2> QED BY <1>2, <1>3, <1>5, <2>1 DEF Arrivals, Increasing
<1>7. Range(s) = Range(arrivalOrder) \cup {nextFrame}
  <2>1. ASSUME NEW i \in 1 .. n + 1 PROVE s[i] \in Range(arrivalOrder) \cup {nextFrame}
    <3>1. i \in 1 .. n \/ i = n + 1
      BY <1>2
    <3> QED BY <1>2, <1>3, <3>1 DEF Range
  <2>2. n + 1 \in 1 .. n + 1 /\ \A i \in 1 .. n : i \in 1 .. n + 1
    BY <1>2
  <2>3. Range(arrivalOrder) \cup {nextFrame} \subseteq Range(s)
    BY <1>2, <1>3, <1>4, <2>2 DEF Range
  <2> QED BY <1>4, <2>1, <2>3 DEF Range
\* When only the new row is left, there are few enough.
<1>8. n \in 0 .. Len(s) /\ Enough(p, s, n)
  <2>1. n \in 0 .. Len(s)
    BY <1>2, <1>3
  <2>2. Popped(s, n) = {s[i] : i \in 1 .. n}
    BY <1>3, <1>6, <2>1, CutFacts
  <2>3. Range(arrivalOrder) \subseteq Popped(s, n)
    BY <1>2, <1>3, <2>2 DEF Range
  <2>4. p \ Popped(s, n) \subseteq {nextFrame}
    BY <2>3 DEF Arrivals
  <2>5. IsFiniteSet({nextFrame}) /\ Cardinality({nextFrame}) = 1
    BY FS_Singleton
  <2>6. /\ IsFiniteSet(p \ Popped(s, n))
        /\ Cardinality(p \ Popped(s, n)) <= 1
    BY <2>4, <2>5, FS_Subset
  <2>7. Cardinality(p \ Popped(s, n)) \in Nat
    BY <2>6, FS_CardinalityType
  <2> QED BY <2>1, <2>6, <2>7, NumberFacts DEF Enough
<1> DEFINE T == {k \in 0 .. Len(s) : Enough(p, s, k)}
<1>9. PICK k \in T : \A m \in T : k <= m
  <2>1. T \in SUBSET Nat /\ T # {}
    <3>1. n \in T
      BY <1>8
    <3>2. 0 .. Len(s) \subseteq Nat
      BY <1>2, <1>3
    <3>3. T \subseteq 0 .. Len(s)
      OBVIOUS
    <3> QED BY <3>1, <3>2, <3>3
  <2> HIDE DEF T
  <2> QED BY <2>1, LeastElement
<1>10. /\ k \in 0 .. Len(s) /\ Enough(p, s, k) /\ \A j \in 0 .. k - 1 : ~Enough(p, s, j)
  <2>1. k \in 0 .. Len(s) /\ Enough(p, s, k) /\ k \in Int
    BY <1>9
  <2>2. ASSUME NEW j \in 0 .. k - 1 PROVE ~Enough(p, s, j)
    <3>1. j \in 0 .. Len(s) /\ ~(k <= j)
      <4>1. k \in Int /\ k <= Len(s) /\ Len(s) \in Int
        BY <1>2, <1>3, <2>1
      <4> QED BY <4>1
    <3> QED BY <1>9, <3>1
  <2> QED BY <2>1, <2>2
<1> DEFINE c == Pops(p, s)
<1>11. /\ c \in 0 .. Len(s) /\ Enough(p, s, c) /\ \A j \in 0 .. c - 1 : ~Enough(p, s, j)
  BY <1>10 DEF Pops
<1> HIDE DEF c
<1>12. c \in 0 .. Len(s) - 1
  <2>1. ~(n \in 0 .. c - 1)
    BY <1>8, <1>11
  <2> QED BY <1>2, <1>3, <1>11, <2>1
<1> QED BY <1>2, <1>3, <1>6, <1>7, <1>11, <1>12 DEF c

LEMMA BeginFacts ==
  ASSUME RowsInv, BeginFrame
  PROVE  /\ nextFrame \in Frames /\ nextFrame' = nextFrame + 1 /\ nextFrame \notin pending
         /\ nextFrame \in pending' /\ pending' \subseteq pending \cup {nextFrame}
         /\ \A g \in pending \ pending', h \in pending' : g < h
         /\ RowsInv'
<1> USE DEF RowsInv
<1>1. /\ nextFrame \in Frames /\ nextFrame \in Nat /\ nextFrame <= MaxFrame
      /\ nextFrame' = nextFrame + 1 /\ frameStarted' = frameStarted \cup {nextFrame}
      /\ UNCHANGED <<stopping, wpc, dpc, mpc>>
  BY NumberFacts DEF BeginFrame, Rows, threads
<1>2. PICK p, s, k : /\ p = pending \cup {nextFrame} /\ s = Append(arrivalOrder, nextFrame)
                     /\ k = Pops(p, s)
                     /\ pending' = p \ Popped(s, k)
                     /\ hasAlg' = hasAlg \ Popped(s, k) /\ arrivalOrder' = Rest(s, k)
  BY DEF BeginFrame
<1>3. /\ s \in Seq(Frames) /\ Increasing(s) /\ Range(s) = Range(arrivalOrder) \cup {nextFrame}
      /\ Len(s) \in Nat /\ s[Len(s)] = nextFrame
      /\ k \in 0 .. Len(s) - 1 /\ Enough(p, s, k)
  BY <1>1, <1>2, PopsFacts
<1>4. k \in 0 .. Len(s) /\ k \in Int /\ DOMAIN s = 1 .. Len(s)
      /\ Len(s) \in k + 1 .. Len(s)
  <2>1. DOMAIN s = 1 .. Len(s)
    BY <1>3, LenProperties
  <2> QED BY <1>3, <2>1
<1>5. /\ Popped(s, k) = {s[i] : i \in 1 .. k}
      /\ Rest(s, k) \in Seq(Frames)
      /\ Range(Rest(s, k)) = {s[i] : i \in k + 1 .. Len(s)}
      /\ Increasing(Rest(s, k))
  BY <1>3, <1>4, CutFacts
<1>6. \A i \in 1 .. k, j \in k + 1 .. Len(s) : s[i] < s[j] /\ s[i] \in Nat /\ s[j] \in Nat
  <2> SUFFICES ASSUME NEW i \in 1 .. k, NEW j \in k + 1 .. Len(s)
               PROVE  s[i] < s[j] /\ s[i] \in Nat /\ s[j] \in Nat
    OBVIOUS
  <2>1. i \in 1 .. Len(s) /\ j \in 1 .. Len(s) /\ i < j
    BY <1>3, <1>4
  <2>2. s[i] \in Nat /\ s[j] \in Nat
    BY <1>3, <2>1, ElementOfSeq, NumberFacts
  <2> QED BY <1>3, <1>4, <2>1, <2>2 DEF Increasing
<1>7. Range(s) = Popped(s, k) \cup Range(Rest(s, k))
  <2>1. \A i : i \in 1 .. Len(s) <=> i \in 1 .. k \/ i \in k + 1 .. Len(s)
    BY <1>3, <1>4
  <2>2. Range(s) = {s[i] : i \in 1 .. Len(s)}
    BY <1>4 DEF Range
  <2> QED BY <1>5, <2>1, <2>2
<1>8. nextFrame \notin Popped(s, k)
  BY <1>3, <1>4, <1>5, <1>6
<1>9. nextFrame \notin pending /\ nextFrame \in pending' /\ pending' \subseteq pending \cup {nextFrame}
  <2>1. nextFrame \notin pending
    BY <1>1 DEF Rows
  <2> QED BY <1>2, <1>8, <2>1
<1>10. pending' \subseteq Range(arrivalOrder')
  <2>1. p \subseteq Range(s)
    BY <1>2, <1>3 DEF Arrivals
  <2> QED BY <1>2, <1>7, <2>1
<1>11. ASSUME NEW g \in pending \ pending', NEW h \in pending' PROVE g < h
  <2>1. g \in Popped(s, k) /\ h \in Range(Rest(s, k))
    BY <1>2, <1>10
  <2> QED BY <1>5, <1>6, <2>1
<1>12. Rows'
  <2>1. nextFrame' \in 0 .. MaxFrame + 1
    BY <1>1, NumberFacts
  <2>2. pending' \subseteq Frames
    BY <1>1, <1>9 DEF Rows
  <2>3. Cardinality(pending') <= MaxPending
    BY <1>2, <1>3 DEF Enough
  <2>4. \A f \in pending' : f < nextFrame'
    <3> SUFFICES ASSUME NEW f \in pending' PROVE f < nextFrame + 1
      BY <1>1
    <3>1. f \in Nat /\ (f < nextFrame \/ f = nextFrame)
      BY <1>9, <2>2, NumberFacts DEF Rows
    <3> QED BY <1>1, <3>1
  <2>5. hasAlg' \subseteq pending' /\ frameStarted' \subseteq Frames
    BY <1>1, <1>2 DEF Rows
  <2> QED BY <2>1, <2>2, <2>3, <2>4, <2>5 DEF Rows
<1>13. Arrivals'
  <2>1. arrivalOrder' \in Seq(Frames) /\ Increasing(arrivalOrder')
    BY <1>2, <1>5
  <2>2. \A f \in Range(arrivalOrder') : f < nextFrame'
    <3> SUFFICES ASSUME NEW f \in Range(arrivalOrder') PROVE f < nextFrame + 1
      BY <1>1
    <3>1. f \in Range(arrivalOrder) \cup {nextFrame}
      BY <1>2, <1>3, <1>7
    <3>2. f \in Nat
      <4>1. Range(arrivalOrder) \subseteq Frames
        BY RangeOfSeq DEF Arrivals
      <4> QED BY <1>1, <3>1, <4>1, NumberFacts
    <3>3. f < nextFrame \/ f = nextFrame
      BY <3>1 DEF Arrivals
    <3> QED BY <1>1, <3>2, <3>3
  <2> QED BY <1>10, <2>1, <2>2 DEF Arrivals, Increasing
<1>14. Positions'
  BY <1>1 DEF Positions
<1> QED BY <1>1, <1>9, <1>11, <1>12, <1>13, <1>14

\* Rows are taken out by three threads.
LEMMA ForgetFacts ==
  ASSUME Rows, NEW F \in SUBSET pending, Forget(F), UNCHANGED nextFrame
  PROVE  Rows' /\ pending' = pending \ F
<1>1. /\ pending' = pending \ F /\ hasAlg' = hasAlg \ F /\ frameStarted' = frameStarted \ F
  BY DEF Forget
<1>2. Cardinality(pending') <= MaxPending
  BY <1>1, Fewer DEF Rows
<1> QED BY <1>1, <1>2 DEF Rows

LEMMA MergeFacts ==
  ASSUME RowsInv, NEW f \in Frames, MergeAlgorithm(f)
  PROVE  /\ RowsInv' /\ UNCHANGED <<nextFrame, stored, dpc, shown, fpc>>
         /\ \/ UNCHANGED pending
            \/ f \in pending /\ pending' = pending \ {f}
<1> USE DEF RowsInv
<1>1. /\ UNCHANGED <<nextFrame, arrivalOrder, stored, stopping, dpc, shown, fpc, mpc>> /\ wpc' = "push"
      /\ \/ /\ hasAlg' = hasAlg \cup ({f} \cap pending)
            /\ UNCHANGED <<pending, frameStarted>>
         \/ f \in pending /\ Forget({f})
  BY DEF MergeAlgorithm
<1>2. CASE hasAlg' = hasAlg \cup ({f} \cap pending) /\ UNCHANGED <<pending, frameStarted>>
  BY <1>1, <1>2 DEF Rows, Arrivals, Positions
<1>3. CASE f \in pending /\ Forget({f})
  <2>1. Rows' /\ pending' = pending \ {f}
    <3>1. {f} \in SUBSET pending
      BY <1>3
    <3> QED BY <1>1, <1>3, <3>1, ForgetFacts
  <2> QED BY <1>1, <1>3, <2>1 DEF Arrivals, Positions
<1> QED BY <1>1, <1>2, <1>3

LEMMA DisplayMergesFacts ==
  ASSUME RowsInv, Typed, DisplayMerges
  PROVE  /\ RowsInv' /\ UNCHANGED <<nextFrame, stored, shown, fpc>> /\ dpc = "merge"
         /\ \/ UNCHANGED pending /\ dpc' # "overlay"
            \/ shown \in pending /\ pending' = pending \ {shown}
<1> USE DEF RowsInv
<1>1. /\ UNCHANGED <<nextFrame, stored, stopping, wpc, shown, fpc, mpc>> /\ dpc = "merge"
      /\ dpc' = IF shown \in hasAlg /\ ~stopping THEN "overlay" ELSE "render"
  BY DEF DisplayMerges
<1>2. Positions'
  BY <1>1 DEF Positions
<1>3. CASE shown \in pending /\ ~stopping
  <2>1. Forget({shown}) /\ arrivalOrder' = Without(arrivalOrder, shown)
    BY <1>3 DEF DisplayMerges
  <2>2. Rows' /\ pending' = pending \ {shown}
    <3>1. {shown} \in SUBSET pending
      BY <1>3
    <3> QED BY <1>1, <2>1, <3>1, ForgetFacts
  <2>3. /\ arrivalOrder' \in Seq(Frames) /\ Increasing(arrivalOrder')
        /\ Range(arrivalOrder') = Range(arrivalOrder) \ {shown}
    BY <2>1, WithoutFacts DEF Arrivals, Typed
  <2>4. Arrivals'
    BY <1>1, <2>2, <2>3 DEF Arrivals, Increasing
  <2> QED BY <1>1, <1>2, <1>3, <2>2, <2>4
<1>4. CASE ~(shown \in pending /\ ~stopping)
  <2>1. UNCHANGED rows
    BY <1>4 DEF DisplayMerges
  <2>2. UNCHANGED <<pending, hasAlg, frameStarted, arrivalOrder>>
    BY <2>1 DEF rows
  <2>3. dpc' # "overlay"
    BY <1>1, <1>4 DEF Rows
  <2> QED BY <1>1, <1>2, <2>2, <2>3 DEF Rows, Arrivals
<1> QED BY <1>3, <1>4

LEMMA PruneFacts ==
  ASSUME RowsInv, Prune
  PROVE  /\ RowsInv' /\ UNCHANGED <<nextFrame, stored, dpc, shown>>
         /\ fpc["flush"] = "prune" /\ fpc' = [fpc EXCEPT !["flush"] = "take"]
         /\ pending' \subseteq pending
<1> USE DEF RowsInv
<1>1. /\ UNCHANGED <<nextFrame, arrivalOrder, stored, stopping, wpc, dpc, shown, mpc>>
      /\ fpc["flush"] = "prune" /\ fpc' = [fpc EXCEPT !["flush"] = "take"]
  BY DEF Prune, GoesTo
<1>2. PICK F \in SUBSET pending : Forget(F)
  BY DEF Prune
<1>3. Rows' /\ pending' = pending \ F
  BY <1>1, <1>2, ForgetFacts
<1> QED BY <1>1, <1>3 DEF Arrivals, Positions

-----------------------------------------------------------------------------
(***************************************************************************)
(* Copies of a row in a buffer.                                            *)
(***************************************************************************)
Places(f, s) == {i \in DOMAIN s : s[i] = f}

LEMMA CopiesType ==
  ASSUME NEW s \in Seq(Frames), NEW f
  PROVE  IsFiniteSet(Places(f, s)) /\ Copies(f, s) \in Nat /\ Copies(f, s) = Cardinality(Places(f, s))
<1>1. DOMAIN s = 1 .. Len(s) /\ Len(s) \in Nat
  BY LenProperties
<1>2. IsFiniteSet(1 .. Len(s))
  BY <1>1, FS_Interval
<1>3. Places(f, s) \in SUBSET (1 .. Len(s))
  BY <1>1 DEF Places
<1>4. IsFiniteSet(Places(f, s))
  BY <1>2, <1>3, FS_Subset
<1> QED BY <1>4, FS_CardinalityType DEF Copies, Places

LEMMA CopiesOfEmpty == \A f : Copies(f, <<>>) = 0
<1> SUFFICES ASSUME NEW f PROVE Copies(f, <<>>) = 0
  OBVIOUS
<1>1. <<>> \in Seq(Frames) /\ Len(<<>>) = 0
  BY EmptySeq
<1>2. DOMAIN <<>> = 1 .. 0
  BY <1>1, LenProperties
<1>3. Places(f, <<>>) = {}
  BY <1>2 DEF Places
<1> QED BY <1>1, <1>3, CopiesType, FS_EmptySet

LEMMA CopiesOfConcat ==
  ASSUME NEW s \in Seq(Frames), NEW t \in Seq(Frames), NEW f
  PROVE  Copies(f, s \o t) = Copies(f, s) + Copies(f, t)
<1> DEFINE n == Len(s)
           K == {n + i : i \in Places(f, t)}
           u == s \o t
<1>1. /\ n \in Nat /\ Len(t) \in Nat /\ DOMAIN s = 1 .. n /\ DOMAIN t = 1 .. Len(t)
      /\ u \in Seq(Frames) /\ DOMAIN u = 1 .. n + Len(t)
      /\ \A i \in 1 .. n + Len(t) : u[i] = IF i <= n THEN s[i] ELSE t[i - n]
  <2>1. n \in Nat /\ Len(t) \in Nat /\ DOMAIN s = 1 .. n /\ DOMAIN t = 1 .. Len(t)
    BY LenProperties
  <2>2. /\ u \in Seq(Frames) /\ Len(u) = n + Len(t)
        /\ \A i \in 1 .. n + Len(t) : u[i] = IF i <= n THEN s[i] ELSE t[i - n]
    BY ConcatProperties
  <2> HIDE DEF u
  <2>3. DOMAIN u = 1 .. n + Len(t)
    BY <2>2, LenProperties
  <2> QED BY <2>1, <2>2, <2>3
<1> HIDE DEF n, u
<1>2. /\ \A i \in 1 .. n : i \in 1 .. n + Len(t) /\ u[i] = s[i]
      /\ \A i \in 1 .. Len(t) : n + i \in 1 .. n + Len(t) /\ n + i > n /\ u[n + i] = t[i]
      /\ \A i \in 1 .. n + Len(t) : i \in 1 .. n \/ (i - n \in 1 .. Len(t) /\ i = n + (i - n))
  <2>1. ASSUME NEW i \in 1 .. n PROVE i \in 1 .. n + Len(t) /\ i <= n
    BY <1>1
  <2>2. ASSUME NEW i \in 1 .. Len(t)
        PROVE  n + i \in 1 .. n + Len(t) /\ ~(n + i <= n) /\ n + i > n /\ (n + i) - n = i
    BY <1>1
  <2>3. ASSUME NEW i \in 1 .. n + Len(t)
        PROVE  i \in 1 .. n \/ (i - n \in 1 .. Len(t) /\ i = n + (i - n))
    BY <1>1
  <2>4. ASSUME NEW i \in 1 .. Len(t) PROVE u[n + i] = t[i]
    BY <1>1, <2>2
  <2>5. ASSUME NEW i \in 1 .. n PROVE u[i] = s[i]
    BY <1>1, <2>1
  <2> QED BY <2>1, <2>2, <2>3, <2>4, <2>5
<1>3. Places(f, u) = Places(f, s) \cup K
  <2>1. ASSUME NEW i \in Places(f, u) PROVE i \in Places(f, s) \cup K
    <3>1. i \in 1 .. n + Len(t) /\ u[i] = f
      BY <1>1 DEF Places
    <3>2. CASE i \in 1 .. n
      BY <1>1, <1>2, <3>1, <3>2 DEF Places
    <3>3. CASE i - n \in 1 .. Len(t) /\ i = n + (i - n)
      <4>1. t[i - n] = f
        BY <1>2, <3>1, <3>3
      <4>2. i - n \in Places(f, t)
        BY <1>1, <3>3, <4>1 DEF Places
      <4> QED BY <3>3, <4>2
    <3> QED BY <1>2, <3>1, <3>2, <3>3
  <2>2. Places(f, s) \subseteq Places(f, u)
    BY <1>1, <1>2 DEF Places
  <2>3. K \subseteq Places(f, u)
    BY <1>1, <1>2 DEF Places
  <2> QED BY <2>1, <2>2, <2>3
<1>4. Places(f, s) \cap K = {}
  BY <1>1, <1>2 DEF Places
<1>5. IsFiniteSet(K) /\ Cardinality(K) = Cardinality(Places(f, t))
  <2> DEFINE g == [i \in Places(f, t) |-> n + i]
  <2>1. g \in [Places(f, t) -> K]
    OBVIOUS
  <2>2. \A a, b \in Places(f, t) : g[a] = g[b] => a = b
    BY <1>1 DEF Places
  <2>3. \A j \in K : \E i \in Places(f, t) : g[i] = j
    OBVIOUS
  <2> HIDE DEF g, K
  <2>4. g \in Bijection(Places(f, t), K)
    BY <2>1, <2>2, <2>3, Fun_IsBij
  <2>5. ExistsBijection(Places(f, t), K)
    BY <2>4, Fun_ExistsBij
  <2> QED BY <2>5, CopiesType, FS_Bijection
<1> HIDE DEF K
<1>6. Cardinality(Places(f, u)) = Cardinality(Places(f, s)) + Cardinality(K) - Cardinality({})
  BY <1>3, <1>4, <1>5, CopiesType, FS_Union
<1>7. Copies(f, u) = Cardinality(Places(f, u))
  BY <1>1, CopiesType
<1> QED BY <1>5, <1>6, <1>7, CopiesType, FS_EmptySet DEF u

LEMMA CopiesOfAppend ==
  ASSUME NEW s \in Seq(Frames), NEW e \in Frames, NEW f
  PROVE  Copies(f, Append(s, e)) = Copies(f, s) + (IF f = e THEN 1 ELSE 0)
<1>1. <<e>> \in Seq(Frames) /\ DOMAIN <<e>> = 1 .. 1 /\ <<e>>[1] = e
  OBVIOUS
<1>2. Append(s, e) = s \o <<e>>
  BY AppendIsConcat
<1>3. Copies(f, s \o <<e>>) = Copies(f, s) + Copies(f, <<e>>)
  BY <1>1, CopiesOfConcat
<1>4. Places(f, <<e>>) = IF f = e THEN {1} ELSE {}
  BY <1>1 DEF Places
<1>5. Copies(f, <<e>>) = IF f = e THEN 1 ELSE 0
  <2>1. Copies(f, <<e>>) = Cardinality(Places(f, <<e>>))
    BY <1>1, CopiesType
  <2>2. Cardinality({1}) = 1 /\ Cardinality({}) = 0
    BY FS_Singleton, FS_EmptySet
  <2> QED BY <1>4, <2>1, <2>2
<1> QED BY <1>2, <1>3, <1>5

-----------------------------------------------------------------------------
(***************************************************************************)
(* Where the copies of a row are: there is at most one, and none while the *)
(* row is pending.                                                         *)
(***************************************************************************)
Carried(t, f) == IF fpc[t] = "write" THEN Copies(f, local[t]) ELSE 0
Presented(f)  == IF dpc = "overlay" /\ shown = f THEN 1 ELSE 0
Total(f)      == Unwritten(f) + Copies(f, csv)

Single ==
  \A f \in Frames : Total(f) <= 1 /\ (f \in pending \/ f >= nextFrame => Total(f) = 0)

Inv == StoreInv /\ RowsInv /\ Single

LEMMA Counts ==
  ASSUME Typed, NEW f
  PROVE  /\ Copies(f, batchBuffer) \in Nat /\ Copies(f, csv) \in Nat
         /\ Presented(f) \in {0, 1} /\ Carried("flush", f) \in Nat /\ Carried("main", f) \in Nat
         /\ Unwritten(f) = Copies(f, batchBuffer) + Presented(f) + Carried("flush", f) + Carried("main", f)
         /\ Unwritten(f) \in Nat /\ Total(f) \in Nat
<1>1. Copies(f, batchBuffer) \in Nat /\ Copies(f, csv) \in Nat
  BY CopiesType DEF Typed
<1>2. \A t \in Flushers : Carried(t, f) \in Nat
  BY CopiesType DEF Typed, Carried
<1>3. Carried("flush", f) \in Nat /\ Carried("main", f) \in Nat
  BY <1>2 DEF Flushers
<1>4. Presented(f) \in {0, 1}
  BY DEF Presented
<1>5. Unwritten(f) = Copies(f, batchBuffer) + Presented(f) + Carried("flush", f) + Carried("main", f)
  BY DEF Unwritten, Presented, Carried
<1> QED BY <1>1, <1>3, <1>4, <1>5 DEF Total

LEMMA CountsNext ==
  ASSUME Typed', NEW f
  PROVE  /\ Copies(f, batchBuffer') \in Nat /\ Copies(f, csv') \in Nat
         /\ Presented(f)' \in {0, 1} /\ Carried("flush", f)' \in Nat /\ Carried("main", f)' \in Nat
         /\ Unwritten(f)' = Copies(f, batchBuffer') + Presented(f)' + Carried("flush", f)' + Carried("main", f)'
         /\ Unwritten(f)' \in Nat /\ Total(f)' = Unwritten(f)' + Copies(f, csv')
<1>1. Copies(f, batchBuffer') \in Nat /\ Copies(f, csv') \in Nat
  BY CopiesType DEF Typed
<1>2. \A t \in Flushers : Carried(t, f)' \in Nat
  BY CopiesType DEF Typed, Carried
<1>3. Carried("flush", f)' \in Nat /\ Carried("main", f)' \in Nat
  BY <1>2 DEF Flushers
<1>4. Presented(f)' \in {0, 1}
  BY DEF Presented
<1>5. Unwritten(f)' = Copies(f, batchBuffer') + Presented(f)' + Carried("flush", f)' + Carried("main", f)'
  BY DEF Unwritten, Presented, Carried, Copies
<1>6. Total(f)' = Unwritten(f)' + Copies(f, csv')
  BY DEF Total, Copies
<1> QED BY <1>1, <1>3, <1>4, <1>5, <1>6

\* A step of one flusher changes what is unwritten by what leaves or enters the
\* batch and that thread's hands.
LEMMA FlushCounts ==
  ASSUME Typed, Typed', NEW f, NEW t \in Flushers, UNCHANGED <<dpc, shown>>,
         \A u \in Flushers : u # t => Carried(u, f)' = Carried(u, f)
  PROVE  Unwritten(f)' + Copies(f, batchBuffer) + Carried(t, f)
           = Unwritten(f) + Copies(f, batchBuffer') + Carried(t, f)'
<1>1. Presented(f)' = Presented(f)
  BY DEF Presented
<1>2. CASE t = "flush"
  <2>1. Carried("main", f)' = Carried("main", f)
    BY <1>2 DEF Flushers
  <2> QED BY <1>1, <1>2, <2>1, Counts, CountsNext
<1>3. CASE t = "main"
  <2>1. Carried("flush", f)' = Carried("flush", f)
    BY <1>3 DEF Flushers
  <2> QED BY <1>1, <1>3, <2>1, Counts, CountsNext
<1> QED BY <1>2, <1>3 DEF Flushers

-----------------------------------------------------------------------------
(***************************************************************************)
(* What the ledger says of a row, given where its copies are.              *)
(***************************************************************************)
Fate(f, n, p, u, w) ==
  CASE f >= n                            -> "none"
    [] f \in p /\ u + w = 0              -> "open"
    [] f \notin p /\ u = 1 /\ w = 0      -> "complete"
    [] f \notin p /\ u = 0 /\ w = 1      -> "written"
    [] f < n /\ f \notin p /\ u + w = 0  -> "dropped"
    [] OTHER                             -> "doubled"

LEMMA FateFacts ==
  ASSUME NEW n \in Nat, NEW f \in Nat, NEW p, NEW u \in Nat, NEW w \in Nat, u + w <= 1,
         f \in p => f < n, f \in p \/ f >= n => u + w = 0
  PROVE  Fate(f, n, p, u, w) =
           IF f >= n THEN "none" ELSE IF f \in p THEN "open"
           ELSE IF u = 1 THEN "complete" ELSE IF w = 1 THEN "written" ELSE "dropped"
<1>1. CASE f >= n
  <2>1. f \notin p /\ u = 0 /\ w = 0 /\ u + w = 0 /\ ~(f < n)
    BY <1>1
  <2> QED BY <1>1, <2>1 DEF Fate
<1>2. CASE f < n /\ f \in p
  <2>1. u + w = 0 /\ ~(f >= n)
    BY <1>2
  <2> QED BY <1>2, <2>1 DEF Fate
<1>3. CASE f < n /\ f \notin p /\ u = 1
  <2>1. w = 0 /\ ~(f >= n) /\ u + w # 0
    BY <1>3
  <2> QED BY <1>3, <2>1 DEF Fate
<1>4. CASE f < n /\ f \notin p /\ u = 0 /\ w = 1
  <2>1. ~(f >= n) /\ u + w # 0 /\ u # 1
    BY <1>4
  <2> QED BY <1>4, <2>1 DEF Fate
<1>5. CASE f < n /\ f \notin p /\ u = 0 /\ w = 0
  <2>1. ~(f >= n) /\ u + w = 0 /\ u # 1 /\ w # 1
    BY <1>5
  <2> QED BY <1>5, <2>1 DEF Fate
<1>6. f >= n \/ f < n
  OBVIOUS
<1>7. (u = 1) \/ (u = 0 /\ w = 1) \/ (u = 0 /\ w = 0)
  OBVIOUS
<1> QED BY <1>1, <1>2, <1>3, <1>4, <1>5, <1>6, <1>7

LEMMA RowNow ==
  ASSUME Inv
  PROVE  row = [f \in Frames |->
                  IF f >= nextFrame THEN "none" ELSE IF f \in pending THEN "open"
                  ELSE IF Unwritten(f) = 1 THEN "complete"
                  ELSE IF Copies(f, csv) = 1 THEN "written" ELSE "dropped"]
<1>1. row = [f \in Frames |-> Fate(f, nextFrame, pending, Unwritten(f), Copies(f, csv))]
  BY DEF row, Fate
<1>2. nextFrame \in Nat /\ Frames \subseteq Nat
  BY NumberFacts DEF Inv, RowsInv, Rows
<1>3. ASSUME NEW f \in Frames
      PROVE  Fate(f, nextFrame, pending, Unwritten(f), Copies(f, csv)) =
               IF f >= nextFrame THEN "none" ELSE IF f \in pending THEN "open"
               ELSE IF Unwritten(f) = 1 THEN "complete"
               ELSE IF Copies(f, csv) = 1 THEN "written" ELSE "dropped"
  <2>1. Unwritten(f) \in Nat /\ Copies(f, csv) \in Nat
    BY Counts DEF Inv, StoreInv
  <2>2. /\ Unwritten(f) + Copies(f, csv) <= 1
        /\ f \in pending => f < nextFrame
        /\ f \in pending \/ f >= nextFrame => Unwritten(f) + Copies(f, csv) = 0
    BY DEF Inv, Single, Total, RowsInv, Rows
  <2> QED BY <1>2, <2>1, <2>2, FateFacts
<1> QED BY <1>1, <1>3

LEMMA RowNext ==
  ASSUME Inv'
  PROVE  row' = [f \in Frames |->
                  IF f >= nextFrame' THEN "none" ELSE IF f \in pending' THEN "open"
                  ELSE IF Unwritten(f)' = 1 THEN "complete"
                  ELSE IF Copies(f, csv') = 1 THEN "written" ELSE "dropped"]
<1>1. row' = [f \in Frames |-> Fate(f, nextFrame', pending', Unwritten(f)', Copies(f, csv'))]
  BY DEF row, Fate, Copies
<1>2. nextFrame' \in Nat /\ Frames \subseteq Nat
  BY NumberFacts DEF Inv, RowsInv, Rows
<1>3. ASSUME NEW f \in Frames
      PROVE  Fate(f, nextFrame', pending', Unwritten(f)', Copies(f, csv')) =
               IF f >= nextFrame' THEN "none" ELSE IF f \in pending' THEN "open"
               ELSE IF Unwritten(f)' = 1 THEN "complete"
               ELSE IF Copies(f, csv') = 1 THEN "written" ELSE "dropped"
  <2>1. /\ Unwritten(f)' \in Nat /\ Copies(f, csv') \in Nat
        /\ Total(f)' = Unwritten(f)' + Copies(f, csv')
    BY CountsNext DEF Inv, StoreInv
  <2>2. /\ Unwritten(f)' + Copies(f, csv') <= 1
        /\ f \in pending' => f < nextFrame'
        /\ f \in pending' \/ f >= nextFrame' => Unwritten(f)' + Copies(f, csv') = 0
    BY <2>1 DEF Inv, Single, RowsInv, Rows
  <2> QED BY <1>2, <2>1, <2>2, FateFacts
<1> QED BY <1>1, <1>3

-----------------------------------------------------------------------------
(***************************************************************************)
(* Every step is one of the ledger's.                                      *)
(***************************************************************************)
\* A step that moves no copy opens no row: it drops those that are gone.
LEMMA DropsRows ==
  ASSUME Inv, StoreInv', RowsInv', UNCHANGED nextFrame, pending' \subseteq pending,
         \A f \in Frames : Unwritten(f)' = Unwritten(f) /\ Copies(f, csv') = Copies(f, csv)
  PROVE  Inv' /\ Ledger!Next
<1>1. Inv'
  <2>1. ASSUME NEW f \in Frames PROVE Total(f)' = Total(f)
    BY CountsNext DEF Inv, StoreInv, Total
  <2> QED BY <2>1 DEF Inv, Single
<1> DEFINE F == pending \ pending'
<1>2. F \in SUBSET Frames
  BY DEF Inv, RowsInv, Rows
<1>3. ASSUME NEW f \in Frames
      PROVE  /\ f \in F => row[f] = "open" /\ row'[f] = "dropped"
             /\ f \notin F => row'[f] = row[f]
  <2>1. /\ Unwritten(f) \in Nat /\ Copies(f, csv) \in Nat
        /\ f \in pending => f < nextFrame /\ Unwritten(f) + Copies(f, csv) = 0
    BY Counts DEF Inv, StoreInv, RowsInv, Rows, Single, Total
  <2>2. f \in pending => ~(f >= nextFrame) /\ Unwritten(f) # 1 /\ Copies(f, csv) # 1
    <3>1. f \in Nat /\ nextFrame \in Nat
      BY NumberFacts DEF Inv, RowsInv, Rows
    <3> QED BY <2>1, <3>1
  <2> QED BY <1>1, <2>2, RowNow, RowNext
<1>4. Ledger!Drop(F)
  <2>1. row' = [f \in Frames |-> row'[f]]
    BY <1>1, RowNext
  <2>2. row' = [f \in Frames |-> IF f \in F THEN "dropped" ELSE row[f]]
    BY <1>3, <2>1
  <2> QED BY <1>2, <1>3, <2>2 DEF Ledger!Drop, Ledger!Becomes
<1> QED BY <1>1, <1>2, <1>4 DEF Ledger!Next

LEMMA OpensRow ==
  ASSUME Inv, StoreInv', BeginFrame
  PROVE  Inv' /\ Ledger!Next
<1>1. /\ nextFrame \in Frames /\ nextFrame' = nextFrame + 1 /\ nextFrame \notin pending
      /\ nextFrame \in pending' /\ pending' \subseteq pending \cup {nextFrame} /\ RowsInv'
  BY BeginFacts DEF Inv
<1>2. UNCHANGED <<batchBuffer, local, csv, dpc, shown, fpc>>
  BY DEF BeginFrame, stored, threads
<1>3. \A f \in Frames : f \in Nat /\ nextFrame \in Nat
  BY NumberFacts DEF Inv, RowsInv, Rows
<1>4. ASSUME NEW f \in Frames PROVE Unwritten(f)' = Unwritten(f) /\ Copies(f, csv') = Copies(f, csv)
  BY <1>2 DEF Unwritten, Copies
<1>5. ASSUME NEW f \in Frames PROVE Total(f)' = Total(f)
  BY <1>4, CountsNext DEF Inv, StoreInv, Total
<1>6. Inv'
  <2>1. ASSUME NEW f \in Frames, f \in pending' \/ f >= nextFrame' PROVE f \in pending \/ f >= nextFrame
    BY <1>1, <1>3, <2>1
  <2> QED BY <1>1, <1>5, <2>1 DEF Inv, Single
<1> DEFINE F == pending \ pending'
<1>7. F \in SUBSET Frames
  BY DEF Inv, RowsInv, Rows
<1>8. ASSUME NEW f \in Frames
      PROVE  /\ f = nextFrame => row[f] = "none" /\ row'[f] = "open"
             /\ f \in F => f # nextFrame /\ row[f] = "open" /\ row'[f] = "dropped"
             /\ f # nextFrame /\ f \notin F => row'[f] = row[f]
  <2>1. f \in Nat /\ nextFrame \in Nat
    BY <1>3
  <2>2. (f >= nextFrame') = (f >= nextFrame /\ f # nextFrame)
    BY <1>1, <2>1
  <2>3. /\ Unwritten(f) \in Nat /\ Copies(f, csv) \in Nat
        /\ f \in pending => ~(f >= nextFrame) /\ Unwritten(f) + Copies(f, csv) = 0
    BY <2>1, Counts DEF Inv, StoreInv, RowsInv, Rows, Single, Total
  <2>4. f \in pending => ~(f >= nextFrame) /\ Unwritten(f) # 1 /\ Copies(f, csv) # 1
    BY <2>3
  <2>5. row[f] = IF f >= nextFrame THEN "none" ELSE IF f \in pending THEN "open"
                 ELSE IF Unwritten(f) = 1 THEN "complete"
                 ELSE IF Copies(f, csv) = 1 THEN "written" ELSE "dropped"
    BY RowNow
  <2>6. row'[f] = IF f >= nextFrame /\ f # nextFrame THEN "none" ELSE IF f \in pending' THEN "open"
                  ELSE IF Unwritten(f) = 1 THEN "complete"
                  ELSE IF Copies(f, csv) = 1 THEN "written" ELSE "dropped"
    BY <1>4, <1>6, <2>2, RowNext
  <2>7. nextFrame >= nextFrame
    BY <2>1
  <2> QED BY <1>1, <2>4, <2>5, <2>6, <2>7
<1>9. Ledger!Replace(nextFrame, F)
  <2>1. row' = [f \in Frames |-> row'[f]]
    BY <1>6, RowNext
  <2>2. ASSUME NEW f \in Frames
        PROVE  row'[f] = CASE f = nextFrame -> "open" [] f \in F -> "dropped" [] OTHER -> row[f]
    BY <1>8
  <2>3. row' = [f \in Frames |-> CASE f = nextFrame -> "open" [] f \in F -> "dropped" [] OTHER -> row[f]]
    BY <2>1, <2>2
  <2> QED BY <1>1, <1>7, <1>8, <2>3 DEF Ledger!Replace
<1> QED BY <1>1, <1>6, <1>7, <1>9 DEF Ledger!Next

LEMMA CompletesRow ==
  ASSUME Inv, StoreInv', DisplayMerges
  PROVE  Inv' /\ Ledger!Next
<1>1. /\ RowsInv' /\ UNCHANGED <<nextFrame, stored, shown, fpc>> /\ dpc = "merge"
      /\ \/ UNCHANGED pending /\ dpc' # "overlay"
         \/ shown \in pending /\ pending' = pending \ {shown}
  BY DisplayMergesFacts DEF Inv, StoreInv
<1>2. UNCHANGED <<batchBuffer, local, csv, history>>
  BY <1>1 DEF stored
<1>3. ASSUME NEW f \in Frames
      PROVE  /\ Unwritten(f)' = Unwritten(f) + Presented(f)' /\ Copies(f, csv') = Copies(f, csv)
             /\ Presented(f)' = IF dpc' = "overlay" /\ shown = f THEN 1 ELSE 0
  <2>1. Presented(f) = 0 /\ Presented(f)' = IF dpc' = "overlay" /\ shown = f THEN 1 ELSE 0
    BY <1>1 DEF Presented
  <2>2. Carried("flush", f)' = Carried("flush", f) /\ Carried("main", f)' = Carried("main", f)
    BY <1>1, <1>2 DEF Carried, Copies
  <2>3. Copies(f, batchBuffer') = Copies(f, batchBuffer) /\ Copies(f, csv') = Copies(f, csv)
    BY <1>2
  <2> QED BY <2>1, <2>2, <2>3, Counts, CountsNext DEF Inv, StoreInv
<1>4. CASE dpc' # "overlay"
  <2>1. ASSUME NEW f \in Frames PROVE Unwritten(f)' = Unwritten(f) /\ Copies(f, csv') = Copies(f, csv)
    BY <1>3, <1>4, Counts DEF Inv, StoreInv
  <2> QED BY <1>1, <2>1, DropsRows
<1>5. CASE dpc' = "overlay"
  <2>1. shown \in Frames /\ shown \in pending /\ pending' = pending \ {shown}
    BY <1>1, <1>5 DEF Inv, RowsInv, Rows
  <2>2. ASSUME NEW f \in Frames
        PROVE  /\ f = shown => /\ Unwritten(f) = 0 /\ Copies(f, csv) = 0 /\ f < nextFrame
                               /\ Unwritten(f)' = 1
               /\ f # shown => Unwritten(f)' = Unwritten(f)
    <3>1. Unwritten(f) \in Nat /\ Copies(f, csv) \in Nat
      BY Counts DEF Inv, StoreInv
    <3>2. f = shown => Unwritten(f) + Copies(f, csv) = 0 /\ f < nextFrame
      BY <2>1 DEF Inv, Single, Total, RowsInv, Rows
    <3>3. Unwritten(f)' = Unwritten(f) + (IF shown = f THEN 1 ELSE 0)
      BY <1>3, <1>5
    <3> QED BY <3>1, <3>2, <3>3
  <2>3. Inv'
    <3>1. ASSUME NEW f \in Frames
          PROVE  Total(f)' <= 1 /\ (f \in pending' \/ f >= nextFrame' => Total(f)' = 0)
      <4>1. Total(f)' = Unwritten(f)' + Copies(f, csv)
        BY <1>3, CountsNext DEF Inv, StoreInv
      <4>2. CASE f = shown
        <5>1. f \in Nat /\ nextFrame \in Nat
          BY NumberFacts DEF Inv, RowsInv, Rows
        <5> QED BY <1>1, <2>1, <2>2, <4>1, <4>2, <5>1
      <4>3. CASE f # shown
        BY <1>1, <2>1, <2>2, <4>1, <4>3 DEF Inv, Single, Total
      <4> QED BY <4>2, <4>3
    <3> QED BY <1>1, <3>1 DEF Inv, Single
  <2>4. ASSUME NEW f \in Frames
        PROVE  /\ f = shown => row[f] = "open" /\ row'[f] = "complete"
               /\ f # shown => row'[f] = row[f]
    <3>1. f \in Nat /\ nextFrame \in Nat
      BY NumberFacts DEF Inv, RowsInv, Rows
    <3>2. row[f] = IF f >= nextFrame THEN "none" ELSE IF f \in pending THEN "open"
                   ELSE IF Unwritten(f) = 1 THEN "complete"
                   ELSE IF Copies(f, csv) = 1 THEN "written" ELSE "dropped"
      BY RowNow
    <3>3. row'[f] = IF f >= nextFrame THEN "none" ELSE IF f \in pending' THEN "open"
                    ELSE IF Unwritten(f)' = 1 THEN "complete"
                    ELSE IF Copies(f, csv) = 1 THEN "written" ELSE "dropped"
      BY <1>1, <1>3, <2>3, RowNext
    <3>4. f = shown => ~(f >= nextFrame)
      BY <2>2, <3>1
    <3> QED BY <2>1, <2>2, <3>2, <3>3, <3>4
  <2>5. Ledger!Complete(shown)
    <3>1. row' = [f \in Frames |-> row'[f]]
      BY <2>3, RowNext
    <3>2. row' = [f \in Frames |-> IF f \in {shown} THEN "complete" ELSE row[f]]
      BY <2>4, <3>1
    <3> QED BY <2>1, <2>4, <3>2 DEF Ledger!Complete, Ledger!Becomes
  <2> QED BY <2>1, <2>3, <2>5 DEF Ledger!Next
<1> QED BY <1>4, <1>5

\* The display's row passes from its hands to the batch.
LEMMA BatchesRow ==
  ASSUME Inv, StoreInv', DisplayBatches
  PROVE  Inv' /\ Ledger!Next
<1>1. /\ UNCHANGED <<nextFrame, rows, local, csv, stopping, wpc, shown, fpc, mpc>>
      /\ dpc = "overlay" /\ dpc' = "render" /\ batchBuffer' = Append(batchBuffer, shown)
  BY DEF DisplayBatches
<1>2. UNCHANGED <<pending, hasAlg, frameStarted, arrivalOrder>>
  BY <1>1 DEF rows
<1>3. RowsInv'
  BY <1>1, <1>2 DEF Inv, RowsInv, Rows, Arrivals, Positions, Increasing
<1>4. ASSUME NEW f \in Frames PROVE Unwritten(f)' = Unwritten(f) /\ Copies(f, csv') = Copies(f, csv)
  <2>1. Copies(f, batchBuffer') = Copies(f, batchBuffer) + (IF f = shown THEN 1 ELSE 0)
    BY <1>1, CopiesOfAppend DEF Inv, StoreInv, Typed
  <2>2. Presented(f) = (IF f = shown THEN 1 ELSE 0) /\ Presented(f)' = 0
    BY <1>1 DEF Presented
  <2>3. Carried("flush", f)' = Carried("flush", f) /\ Carried("main", f)' = Carried("main", f)
    BY <1>1 DEF Carried, Copies
  <2> QED BY <1>1, <2>1, <2>2, <2>3, Counts, CountsNext DEF Inv, StoreInv
<1> QED BY <1>1, <1>2, <1>3, <1>4, DropsRows

\* The three steps of a flush leave the pending rows alone.
LEMMA FlushFacts ==
  ASSUME RowsInv, NEW t \in Flushers, Flush(t)
  PROVE  RowsInv' /\ UNCHANGED <<nextFrame, pending, dpc, shown>>
<1>1. UNCHANGED <<nextFrame, pending, hasAlg, frameStarted, arrivalOrder, stopping, wpc, dpc, shown, mpc>>
  BY DEF Flush, TakeBatch, WriteBatch, CommitBatch, FlushPcOnly, rows
<1> QED BY <1>1 DEF RowsInv, Rows, Arrivals, Positions, Increasing

LEMMA TakesRows ==
  ASSUME Inv, StoreInv', NEW t \in Flushers, TakeBatch(t) \/ CommitBatch(t)
  PROVE  Inv' /\ Ledger!Next
<1>1. RowsInv' /\ UNCHANGED <<nextFrame, pending, dpc, shown>>
  BY FlushFacts DEF Inv, Flush
<1>2. fpc \in [Flushers -> FlushSteps] /\ local \in [Flushers -> Seq(Frames)]
  BY DEF Inv, StoreInv, Typed
<1>3. csv' = csv /\ fpc[t] # "write"
  BY DEF TakeBatch, CommitBatch
<1>4. ASSUME NEW f \in Frames
      PROVE  /\ \A u \in Flushers : u # t => Carried(u, f)' = Carried(u, f)
             /\ Carried(t, f) = 0
             /\ Carried(t, f)' + Copies(f, batchBuffer') = Copies(f, batchBuffer)
  <2>1. CASE CommitBatch(t)
    <3>1. fpc' = [fpc EXCEPT ![t] = "idle"] /\ local' = [local EXCEPT ![t] = <<>>] /\ batchBuffer' = batchBuffer
      BY <2>1 DEF CommitBatch, GoesTo
    <3>2. \A u \in Flushers : u # t => Carried(u, f)' = Carried(u, f)
      BY <1>2, <3>1 DEF Carried, Copies
    <3>3. Carried(t, f) = 0 /\ Carried(t, f)' = 0
      BY <1>2, <1>3, <3>1 DEF Carried
    <3>4. Copies(f, batchBuffer') = Copies(f, batchBuffer) /\ Copies(f, batchBuffer) \in Nat
      BY <3>1, Counts DEF Inv, StoreInv
    <3> QED BY <3>2, <3>3, <3>4
  <2>2. CASE batchBuffer = <<>> /\ UNCHANGED <<local, batchBuffer>> /\ fpc' = [fpc EXCEPT ![t] = "idle"]
    <3>1. \A u \in Flushers : u # t => Carried(u, f)' = Carried(u, f)
      BY <1>2, <2>2 DEF Carried, Copies
    <3>2. Carried(t, f) = 0 /\ Carried(t, f)' = 0
      BY <1>2, <1>3, <2>2 DEF Carried
    <3>3. Copies(f, batchBuffer') = Copies(f, batchBuffer) /\ Copies(f, batchBuffer) \in Nat
      BY <2>2, Counts DEF Inv, StoreInv
    <3> QED BY <3>1, <3>2, <3>3
  <2>3. CASE /\ batchBuffer' = <<>> /\ local' = [local EXCEPT ![t] = batchBuffer]
             /\ fpc' = [fpc EXCEPT ![t] = "write"]
    <3>1. \A u \in Flushers : u # t => Carried(u, f)' = Carried(u, f)
      BY <1>2, <2>3 DEF Carried, Copies
    <3>2. Carried(t, f) = 0
      BY <1>3 DEF Carried
    <3>3. Carried(t, f)' = Copies(f, batchBuffer)
      <4>1. fpc'[t] = "write" /\ local'[t] = batchBuffer
        BY <1>2, <2>3
      <4> QED BY <4>1 DEF Carried, Copies
    <3>4. Copies(f, batchBuffer') = 0 /\ Copies(f, batchBuffer) \in Nat
      BY <2>3, CopiesOfEmpty, Counts DEF Inv, StoreInv
    <3> QED BY <3>1, <3>2, <3>3, <3>4
  <2> QED BY <2>1, <2>2, <2>3 DEF TakeBatch, Take, GoesTo
<1>5. ASSUME NEW f \in Frames PROVE Unwritten(f)' = Unwritten(f) /\ Copies(f, csv') = Copies(f, csv)
  <2>1. Unwritten(f)' + Copies(f, batchBuffer) + Carried(t, f)
          = Unwritten(f) + Copies(f, batchBuffer') + Carried(t, f)'
    BY <1>1, <1>4, FlushCounts DEF Inv, StoreInv
  <2>2. /\ Unwritten(f) \in Nat /\ Copies(f, batchBuffer) \in Nat
        /\ Unwritten(f)' \in Nat /\ Copies(f, batchBuffer') \in Nat
    BY Counts, CountsNext DEF Inv, StoreInv
  <2>3. Carried(t, f)' \in Nat
    BY CountsNext DEF Inv, StoreInv, Flushers
  <2>4. Carried(t, f) = 0 /\ Carried(t, f)' + Copies(f, batchBuffer') = Copies(f, batchBuffer)
    BY <1>4
  <2>5. Unwritten(f)' = Unwritten(f)
    <3>1. Unwritten(f)' + Copies(f, batchBuffer) = Unwritten(f) + Copies(f, batchBuffer') + Carried(t, f)'
      BY <2>1, <2>2, <2>4
    <3>2. Unwritten(f) + Copies(f, batchBuffer') + Carried(t, f)' = Unwritten(f) + Copies(f, batchBuffer)
      BY <2>2, <2>3, <2>4
    <3> QED BY <2>2, <3>1, <3>2
  <2> QED BY <1>3, <2>5
<1> QED BY <1>1, <1>5, DropsRows

LEMMA WritesRows ==
  ASSUME Inv, StoreInv', NEW t \in Flushers, WriteBatch(t)
  PROVE  Inv' /\ Ledger!Next
<1>1. RowsInv' /\ UNCHANGED <<nextFrame, pending, dpc, shown>>
  BY FlushFacts DEF Inv, Flush
<1>2. /\ fpc \in [Flushers -> FlushSteps] /\ local \in [Flushers -> Seq(Frames)]
      /\ csv \in Seq(Frames) /\ local[t] \in Seq(Frames)
  BY DEF Inv, StoreInv, Typed
<1>3. /\ fpc[t] = "write" /\ fpc' = [fpc EXCEPT ![t] = "commit"] /\ csv' = csv \o local[t]
      /\ UNCHANGED <<batchBuffer, local>>
  BY DEF WriteBatch, GoesTo
\* The copies written are taken from those to be written.
<1>4. ASSUME NEW f \in Frames
      PROVE  /\ Copies(f, local[t]) \in Nat /\ Copies(f, csv) \in Nat /\ Unwritten(f) \in Nat
             /\ Unwritten(f)' \in Nat
             /\ Unwritten(f)' = Unwritten(f) - Copies(f, local[t])
             /\ Copies(f, csv') = Copies(f, csv) + Copies(f, local[t])
             /\ Total(f)' = Total(f)
  <2>1. \A u \in Flushers : u # t => Carried(u, f)' = Carried(u, f)
    BY <1>2, <1>3 DEF Carried, Copies
  <2>2. Carried(t, f) = Copies(f, local[t]) /\ Carried(t, f)' = 0
    BY <1>2, <1>3 DEF Carried
  <2>3. Unwritten(f)' + Copies(f, batchBuffer) + Carried(t, f)
          = Unwritten(f) + Copies(f, batchBuffer') + Carried(t, f)'
    BY <1>1, <2>1, FlushCounts DEF Inv, StoreInv
  <2>4. Copies(f, batchBuffer') = Copies(f, batchBuffer)
    BY <1>3
  <2>5. /\ Unwritten(f) \in Nat /\ Copies(f, batchBuffer) \in Nat /\ Copies(f, csv) \in Nat
        /\ Unwritten(f)' \in Nat /\ Total(f)' = Unwritten(f)' + Copies(f, csv')
    BY Counts, CountsNext DEF Inv, StoreInv
  <2>6. Copies(f, local[t]) \in Nat
    BY <1>2, CopiesType
  <2>7. Copies(f, csv') = Copies(f, csv) + Copies(f, local[t])
    BY <1>2, <1>3, CopiesOfConcat
  <2>8. Unwritten(f)' = Unwritten(f) - Copies(f, local[t])
    BY <2>2, <2>3, <2>4, <2>5, <2>6
  <2>9. Total(f)' = Total(f)
    BY <2>5, <2>6, <2>7, <2>8 DEF Total
  <2> QED BY <2>5, <2>6, <2>7, <2>8, <2>9
<1>5. Inv'
  BY <1>1, <1>4 DEF Inv, Single
<1> DEFINE F == {f \in Frames : Copies(f, local[t]) = 1}
<1>6. ASSUME NEW f \in Frames
      PROVE  /\ f \in F => row[f] = "complete" /\ row'[f] = "written"
             /\ f \notin F => row'[f] = row[f]
  <2>1. /\ Unwritten(f) + Copies(f, csv) <= 1
        /\ f \in pending \/ f >= nextFrame => Unwritten(f) + Copies(f, csv) = 0
    BY DEF Inv, Single, Total
  <2>2. f \in F => /\ Unwritten(f) = 1 /\ Unwritten(f)' = 0 /\ Copies(f, csv) = 0 /\ Copies(f, csv') = 1
                   /\ f \notin pending /\ ~(f >= nextFrame)
    <3> SUFFICES ASSUME Copies(f, local[t]) = 1
                 PROVE  /\ Unwritten(f) = 1 /\ Unwritten(f)' = 0
                        /\ Copies(f, csv) = 0 /\ Copies(f, csv') = 1
                        /\ f \notin pending /\ ~(f >= nextFrame)
      OBVIOUS
    <3>1. Unwritten(f) >= 1 /\ Unwritten(f)' = Unwritten(f) - 1 /\ Copies(f, csv') = Copies(f, csv) + 1
      BY <1>4
    <3>2. Unwritten(f) = 1 /\ Copies(f, csv) = 0
      BY <1>4, <2>1, <3>1
    <3> QED BY <2>1, <3>1, <3>2
  <2>3. f \notin F => Unwritten(f)' = Unwritten(f) /\ Copies(f, csv') = Copies(f, csv)
    <3>1. Copies(f, local[t]) <= Unwritten(f) /\ Unwritten(f) <= 1
      BY <1>4, <2>1
    <3>2. f \notin F => Copies(f, local[t]) = 0
      BY <1>4, <3>1
    <3> QED BY <1>4, <3>2
  <2>4. row[f] = IF f >= nextFrame THEN "none" ELSE IF f \in pending THEN "open"
                 ELSE IF Unwritten(f) = 1 THEN "complete"
                 ELSE IF Copies(f, csv) = 1 THEN "written" ELSE "dropped"
    BY RowNow
  <2>5. row'[f] = IF f >= nextFrame THEN "none" ELSE IF f \in pending THEN "open"
                  ELSE IF Unwritten(f)' = 1 THEN "complete"
                  ELSE IF Copies(f, csv') = 1 THEN "written" ELSE "dropped"
    BY <1>1, <1>5, RowNext
  <2> HIDE DEF F
  <2> QED BY <2>2, <2>3, <2>4, <2>5
<1>7. Ledger!Write(F)
  <2>1. row' = [f \in Frames |-> row'[f]]
    BY <1>5, RowNext
  <2>2. row' = [f \in Frames |-> IF f \in F THEN "written" ELSE row[f]]
    BY <1>6, <2>1
  <2> QED BY <1>6, <2>2 DEF Ledger!Write, Ledger!Becomes
<1> QED BY <1>5, <1>7 DEF Ledger!Next

\* Steps that only move a thread on.
Quiet ==
  \/ WorkerPushes \/ WorkerExits \/ DisplayRenders \/ DisplayExits
  \/ FlushWakes \/ FlushExits \/ StopAll
  \/ DisplayJoined \/ StopCapture \/ CaptureStopped \/ WorkerJoined
  \/ StopFlush \/ FlushJoined \/ Exported
  \/ UNCHANGED vars

LEMMA QuietFacts ==
  ASSUME Inv, Quiet
  PROVE  /\ RowsInv' /\ UNCHANGED <<nextFrame, pending, batchBuffer, local, csv>>
         /\ \A t \in Flushers : (fpc'[t] = "write") = (fpc[t] = "write")
         /\ \A f \in Frames : Presented(f)' = Presented(f)
<1>1. /\ UNCHANGED <<nextFrame, rows, stored>> /\ Positions'
      /\ (dpc # "overlay" /\ dpc' # "overlay") \/ UNCHANGED <<dpc, shown>>
  <2> USE DEF Inv, RowsInv, Positions, MainSteps, FlushPcOnly, MainGoesTo, Proceeds, CallsFlush
  <2>1. CASE WorkerPushes \/ WorkerExits BY <2>1 DEF WorkerPushes, WorkerExits
  <2>2. CASE DisplayRenders \/ DisplayExits BY <2>2 DEF DisplayRenders, DisplayExits
  <2>3. CASE FlushWakes \/ FlushExits BY <2>3 DEF FlushWakes, FlushExits
  <2>4. CASE StopAll \/ DisplayJoined BY <2>4 DEF StopAll, DisplayJoined
  <2>5. CASE StopCapture \/ CaptureStopped BY <2>5 DEF StopCapture, CaptureStopped
  <2>6. CASE WorkerJoined \/ StopFlush BY <2>6 DEF WorkerJoined, StopFlush
  <2>7. CASE FlushJoined \/ Exported BY <2>7 DEF FlushJoined, Exported
  <2>8. CASE UNCHANGED vars BY <2>8 DEF vars, threads
  <2> QED BY <2>1, <2>2, <2>3, <2>4, <2>5, <2>6, <2>7, <2>8 DEF Quiet
<1>2. UNCHANGED <<pending, hasAlg, frameStarted, arrivalOrder, batchBuffer, local, csv>>
  BY <1>1 DEF rows, stored
<1>3. RowsInv'
  BY <1>1, <1>2 DEF Inv, RowsInv, Rows, Arrivals, Increasing
<1>4. \A t \in Flushers : (fpc'[t] = "write") = (fpc[t] = "write")
  <2>1. CASE WorkerPushes \/ WorkerExits \/ DisplayRenders \/ DisplayExits \/ UNCHANGED vars
    BY <2>1 DEF WorkerPushes, WorkerExits, DisplayRenders, DisplayExits, vars, threads
  <2>2. CASE Moves
    BY <2>2, MovesFacts DEF Inv, StoreInv
  <2> QED BY <2>1, <2>2 DEF Quiet, Moves
<1>5. \A f \in Frames : Presented(f)' = Presented(f)
  BY <1>1 DEF Presented
<1> QED BY <1>1, <1>2, <1>3, <1>4, <1>5

LEMMA QuietStep ==
  ASSUME Inv, StoreInv', Quiet
  PROVE  Inv' /\ Ledger!Next
<1>1. /\ RowsInv' /\ UNCHANGED <<nextFrame, pending, batchBuffer, local, csv>>
      /\ \A t \in Flushers : (fpc'[t] = "write") = (fpc[t] = "write")
      /\ \A f \in Frames : Presented(f)' = Presented(f)
  BY QuietFacts
<1>2. ASSUME NEW f \in Frames PROVE Unwritten(f)' = Unwritten(f) /\ Copies(f, csv') = Copies(f, csv)
  <2>1. Carried("flush", f)' = Carried("flush", f) /\ Carried("main", f)' = Carried("main", f)
    BY <1>1 DEF Carried, Copies, Flushers
  <2>2. Copies(f, batchBuffer') = Copies(f, batchBuffer) /\ Copies(f, csv') = Copies(f, csv)
    BY <1>1
  <2> QED BY <1>1, <2>1, <2>2, Counts, CountsNext DEF Inv, StoreInv
<1> QED BY <1>1, <1>2, DropsRows

\* A row may be dropped by the worker, when it is delayed, and by pruning.
LEMMA LosesRows ==
  ASSUME Inv, StoreInv', Prune \/ \E f \in Frames : MergeAlgorithm(f)
  PROVE  Inv' /\ Ledger!Next
<1>1. /\ RowsInv' /\ UNCHANGED <<nextFrame, stored, dpc, shown>> /\ pending' \subseteq pending
      /\ \A t \in Flushers : (fpc'[t] = "write") = (fpc[t] = "write")
  <2>1. CASE Prune
    <3>1. fpc \in [Flushers -> FlushSteps]
      BY DEF Inv, StoreInv, Typed
    <3> QED BY <2>1, <3>1, PruneFacts DEF Inv
  <2>2. CASE \E f \in Frames : MergeAlgorithm(f)
    BY <2>2, MergeFacts DEF Inv
  <2> QED BY <2>1, <2>2
<1>2. UNCHANGED <<batchBuffer, local, csv>>
  BY <1>1 DEF stored
<1>3. ASSUME NEW f \in Frames PROVE Unwritten(f)' = Unwritten(f) /\ Copies(f, csv') = Copies(f, csv)
  <2>1. Carried("flush", f)' = Carried("flush", f) /\ Carried("main", f)' = Carried("main", f)
    BY <1>1, <1>2 DEF Carried, Copies, Flushers
  <2>2. Copies(f, batchBuffer') = Copies(f, batchBuffer) /\ Copies(f, csv') = Copies(f, csv)
    BY <1>2
  <2>3. Presented(f)' = Presented(f)
    BY <1>1 DEF Presented
  <2> QED BY <2>1, <2>2, <2>3, Counts, CountsNext DEF Inv, StoreInv
<1> QED BY <1>1, <1>3, DropsRows

LEMMA InitInv == Init => Inv
<1> SUFFICES ASSUME Init PROVE Inv
  OBVIOUS
<1>1. StoreInv
  BY InitStoreInv
<1>2. /\ nextFrame = 0 /\ pending = {} /\ hasAlg = {} /\ frameStarted = {} /\ arrivalOrder = <<>>
      /\ batchBuffer = <<>> /\ csv = <<>> /\ stopping = FALSE
      /\ wpc = "pop" /\ dpc = "render" /\ fpc = [t \in Flushers |-> "idle"] /\ mpc = "running"
  BY DEF Init
<1>3. Rows
  <2>1. Cardinality({}) = 0
    BY FS_EmptySet
  <2> QED BY <1>2, <2>1, NumberFacts DEF Rows
<1>4. Arrivals
  <2>1. <<>> \in Seq(Frames) /\ Len(<<>>) = 0
    BY EmptySeq
  <2>2. \A i \in DOMAIN <<>> : FALSE
    BY <2>1, LenProperties
  <2> QED BY <1>2, <2>1, <2>2 DEF Arrivals, Increasing, Range
<1>5. Positions
  BY <1>2 DEF Positions, MainSteps
<1>6. Single
  <2> SUFFICES ASSUME NEW f \in Frames PROVE Total(f) = 0
    BY DEF Single
  <2>1. Presented(f) = 0 /\ Carried("flush", f) = 0 /\ Carried("main", f) = 0
    BY <1>2 DEF Presented, Carried, Flushers
  <2>2. Copies(f, batchBuffer) = 0 /\ Copies(f, csv) = 0
    BY <1>2, CopiesOfEmpty
  <2> QED BY <1>1, <2>1, <2>2, Counts DEF StoreInv, Total
<1> QED BY <1>1, <1>3, <1>4, <1>5, <1>6 DEF Inv, RowsInv

LEMMA NextStep ==
  ASSUME Inv, [Next]_vars
  PROVE  Inv' /\ Ledger!Next
<1>1. StoreInv'
  BY StoreStep DEF Inv
<1>2. \/ BeginFrame \/ Prune \/ (\E f \in Frames : MergeAlgorithm(f))
      \/ DisplayMerges \/ DisplayBatches
      \/ (\E t \in Flushers : TakeBatch(t) \/ WriteBatch(t) \/ CommitBatch(t))
      \/ Quiet
  <2>1. CASE Worker \/ Display
    BY <2>1 DEF Worker, Display, Quiet
  <2>2. CASE FlushThread \/ MainThread
    BY <2>2 DEF FlushThread, MainThread, Flush, Flushers, Quiet
  <2>3. CASE BeginFrame \/ StopAll \/ Finished \/ UNCHANGED vars
    BY <2>3 DEF Finished, Quiet
  <2> QED BY <2>1, <2>2, <2>3 DEF Next
<1>3. CASE BeginFrame
  BY <1>1, <1>3, OpensRow
<1>4. CASE Prune \/ \E f \in Frames : MergeAlgorithm(f)
  BY <1>1, <1>4, LosesRows
<1>5. CASE DisplayMerges
  BY <1>1, <1>5, CompletesRow
<1>6. CASE DisplayBatches
  BY <1>1, <1>6, BatchesRow
<1>7. CASE \E t \in Flushers : TakeBatch(t) \/ WriteBatch(t) \/ CommitBatch(t)
  BY <1>1, <1>7, TakesRows, WritesRows
<1>8. CASE Quiet
  BY <1>1, <1>8, QuietStep
<1> QED BY <1>2, <1>3, <1>4, <1>5, <1>6, <1>7, <1>8

LEMMA Invariant == Spec => []Inv
<1>1. Inv /\ [Next]_vars => Inv'
  BY NextStep
<1> QED BY <1>1, InitInv, PTL DEF Spec

-----------------------------------------------------------------------------
(***************************************************************************)
(* What the aggregator promises.                                           *)
(***************************************************************************)

\* However rows are merged, pruned, evicted and flushed, no more than
\* maxPendingFrames_ of them are pending, and what is stored has its type.
THEOREM TypeCorrect == Spec => []TypeOK
<1>1. Inv => TypeOK
  BY DEF Inv, StoreInv, Typed, RowsInv, Rows, Arrivals, Positions, TypeOK
<1> QED BY <1>1, Invariant, PTL

\* enforceRetentionPolicy takes ids off the front of arrivalOrder_ without a
\* test for an empty list: a pending row always has its id there.
THEOREM PendingIsListed == Spec => []PendingHasArrival
<1>1. Inv => PendingHasArrival
  BY DEF Inv, RowsInv, Arrivals, PendingHasArrival
<1> QED BY <1>1, Invariant, PTL

\* Making room for a row, the retention policy gives up older rows for newer
\* ones, and never the row that is being opened.
THEOREM OldestGoFirst == Spec => EvictsOldest
<1>1. ASSUME Inv, [Next]_vars, nextFrame' # nextFrame
      PROVE  nextFrame \in pending' /\ \A g \in pending \ pending', h \in pending' : g < h
  <2>1. BeginFrame
    <3>1. CASE Worker \/ Display
      BY <1>1, <3>1 DEF Worker, MergeAlgorithm, WorkerPushes, WorkerExits,
           Display, DisplayRenders, DisplayMerges, DisplayBatches, DisplayExits
    <3>2. CASE FlushThread \/ MainThread \/ StopAll
      BY <1>1, <3>2 DEF FlushThread, FlushWakes, FlushExits, Prune, Flush, TakeBatch, WriteBatch, CommitBatch,
           FlushPcOnly, MainThread, StopAll, DisplayJoined, StopCapture, CaptureStopped, WorkerJoined,
           StopFlush, FlushJoined, Exported, MainGoesTo, CallsFlush, Proceeds
    <3>3. CASE Finished \/ UNCHANGED vars
      BY <1>1, <3>3 DEF Finished, vars
    <3> QED BY <1>1, <3>1, <3>2, <3>3 DEF Next
  <2> QED BY <1>1, <2>1, BeginFacts DEF Inv
<1>2. Inv /\ [Next]_vars
        => [nextFrame' # nextFrame =>
              /\ nextFrame \in pending'
              /\ \A g \in pending \ pending', h \in pending' : g < h]_vars
  BY <1>1
<1> QED BY <1>2, Invariant, PTL DEF Spec, EvictsOldest

\* Across the three locks and the two threads that flush, every step of the
\* aggregator opens, completes, drops or writes rows as RowLedger allows: none
\* is completed or written twice, and no complete row is dropped.
THEOREM ImplementsLedger == Spec => RefinesLedger
<1>1. Init => Ledger!Init
  <2> SUFFICES ASSUME Init PROVE row = [f \in Frames |-> "none"]
    BY DEF Ledger!Init
  <2>1. Inv /\ nextFrame = 0
    BY InitInv DEF Init
  <2>2. \A f \in Frames : f >= nextFrame
    BY <2>1, NumberFacts
  <2> QED BY <2>1, <2>2, RowNow
<1>2. Inv /\ [Next]_vars => [Ledger!Next]_row
  BY NextStep
<1> QED BY <1>1, <1>2, Invariant, PTL DEF Spec, RefinesLedger, Ledger!Spec
=============================================================================
