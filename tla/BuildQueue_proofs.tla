-------------------------- MODULE BuildQueue_proofs --------------------------
(***************************************************************************)
(* The build queue, for every set of tickets and every configuration: its  *)
(* accounting, its limits, its order and the pool of slots it implements.  *)
(***************************************************************************)
EXTENDS BuildQueue, TLAPS, SequenceTheorems, FiniteSetTheorems, FunctionTheorems

\* The strengthening that is inductive: the limits follow from the guards
\* only because the counter is the number of holders.
IInv == TypeOK /\ SlotsAccounted /\ WithinLimits

-----------------------------------------------------------------------------
LEMMA MaxOfTwo ==
  ASSUME NEW a \in Int, NEW b \in Int
  PROVE  /\ Max({a, b}) \in {a, b}
         /\ Max({a, b}) >= a /\ Max({a, b}) >= b
<1>1. PICK m \in {a, b} : \A y \in {a, b} : m >= y
  <2>1. CASE a >= b BY <2>1
  <2>2. CASE ~(a >= b) BY <2>2
  <2> QED BY <2>1, <2>2
<1> QED BY <1>1 DEF Max

LEMMA MinOfTwo ==
  ASSUME NEW a \in Int, NEW b \in Int
  PROVE  /\ Min({a, b}) \in {a, b}
         /\ Min({a, b}) <= a /\ Min({a, b}) <= b
<1>1. PICK m \in {a, b} : \A y \in {a, b} : m =< y
  <2>1. CASE a =< b BY <2>1
  <2>2. CASE ~(a =< b) BY <2>2
  <2> QED BY <2>1, <2>2
<1> QED BY <1>1 DEF Min

\* The constructor's clamps leave a usable queue whatever was configured: at
\* least one slot, and at least one that background work may use.
LEMMA Clamped ==
  /\ Capacity \in Nat \ {0}
  /\ MaxQueued \in Nat
  /\ Reserved \in 0..(Capacity - 1)
<1>1. Capacity \in Nat \ {0}
  <2>1. 1 \in Int /\ CapacityArg \in Int BY BuildQueueAssumption
  <2>2. /\ Max({1, CapacityArg}) \in {1, CapacityArg}
        /\ Max({1, CapacityArg}) >= 1
    BY <2>1, MaxOfTwo, Zenon
  <2> QED BY <2>1, <2>2 DEF Capacity
<1>2. MaxQueued \in Nat
  <2>1. 0 \in Int /\ MaxQueuedArg \in Int BY BuildQueueAssumption
  <2>2. /\ Max({0, MaxQueuedArg}) \in {0, MaxQueuedArg}
        /\ Max({0, MaxQueuedArg}) >= 0
    BY <2>1, MaxOfTwo, Zenon
  <2> QED BY <2>1, <2>2 DEF MaxQueued
<1>3. Reserved \in 0..(Capacity - 1)
  <2> DEFINE m == Min({ReservedArg, Capacity - 1})
  <2>1. ReservedArg \in Int /\ Capacity - 1 \in Int
    BY <1>1, BuildQueueAssumption
  <2>2. m \in {ReservedArg, Capacity - 1} /\ m <= Capacity - 1
    BY <2>1, MinOfTwo, Zenon
  <2>3. 0 \in Int /\ m \in Int BY <2>1, <2>2
  <2> HIDE DEF m
  <2>4. Max({0, m}) \in {0, m} /\ Max({0, m}) >= 0
    BY <2>3, MaxOfTwo, Zenon
  <2>5. Reserved = Max({0, m}) BY DEF Reserved, m
  <2> QED BY <1>1, <2>2, <2>3, <2>4, <2>5
<1> QED BY <1>1, <1>2, <1>3

\* What is left of the line when the ticket at place i is taken out.
LEMMA Removal ==
  ASSUME NEW S, NEW s \in Seq(S), NEW i \in 1..Len(s)
  PROVE  /\ RemoveAt(s, i) \in Seq(S)
         /\ Len(RemoveAt(s, i)) = Len(s) - 1
         /\ \A j \in 1..(Len(s) - 1) :
              RemoveAt(s, i)[j] = IF j < i THEN s[j] ELSE s[j + 1]
<1> DEFINE front == SubSeq(s, 1, i - 1)
           back == SubSeq(s, i + 1, Len(s))
<1>1. /\ Len(s) \in Nat
      /\ \A j \in 1..Len(s) : s[j] \in S
  BY ElementOfSeq, LenProperties
<1>2. /\ front \in Seq(S)
      /\ Len(front) = i - 1
      /\ \A j \in 1..(i - 1) : front[j] = s[j]
  <2>1. \A j \in 1..(i - 1) : s[j] \in S BY <1>1
  <2>2. /\ SubSeq(s, 1, i - 1) \in Seq(S)
        /\ Len(SubSeq(s, 1, i - 1)) = IF 1 <= i - 1 THEN (i - 1) - 1 + 1 ELSE 0
        /\ \A j \in 1..((i - 1) - 1 + 1) : SubSeq(s, 1, i - 1)[j] = s[1 + j - 1]
    BY <1>1, <2>1, SubSeqProperties, i - 1 \in Int
  <2> QED BY <1>1, <2>2
<1>3. /\ back \in Seq(S)
      /\ Len(back) = Len(s) - i
      /\ \A j \in 1..(Len(s) - i) : back[j] = s[i + j]
  <2>1. \A j \in (i + 1)..Len(s) : s[j] \in S BY <1>1
  <2>2. /\ SubSeq(s, i + 1, Len(s)) \in Seq(S)
        /\ Len(SubSeq(s, i + 1, Len(s)))
             = IF i + 1 <= Len(s) THEN Len(s) - (i + 1) + 1 ELSE 0
        /\ \A j \in 1..(Len(s) - (i + 1) + 1) :
             SubSeq(s, i + 1, Len(s))[j] = s[(i + 1) + j - 1]
    BY <1>1, <2>1, SubSeqProperties, i + 1 \in Int, Len(s) \in Int
  <2> QED BY <1>1, <2>2
<1>4. /\ front \o back \in Seq(S)
      /\ Len(front \o back) = Len(front) + Len(back)
      /\ \A j \in 1..(Len(front) + Len(back)) :
           (front \o back)[j] = IF j <= Len(front) THEN front[j]
                                ELSE back[j - Len(front)]
  BY <1>2, <1>3, ConcatProperties
<1>5. RemoveAt(s, i) = front \o back BY DEF RemoveAt
<1> HIDE DEF front, back
<1>6. Len(RemoveAt(s, i)) = Len(s) - 1
  <2>1. Len(front \o back) = (i - 1) + (Len(s) - i) BY <1>2, <1>3, <1>4
  <2>2. (i - 1) + (Len(s) - i) = Len(s) - 1 BY <1>1
  <2> QED BY <1>5, <2>1, <2>2
<1>7. ASSUME NEW j \in 1..(Len(s) - 1)
      PROVE  RemoveAt(s, i)[j] = IF j < i THEN s[j] ELSE s[j + 1]
  <2>1. CASE j < i BY <1>1, <1>2, <1>3, <1>4, <1>5, <2>1
  <2>2. CASE ~(j < i)
    <3>1. j - (i - 1) \in 1..(Len(s) - i) /\ i + (j - (i - 1)) = j + 1
      BY <1>1, <2>2
    <3>2. back[j - (i - 1)] = s[j + 1] BY <1>3, <3>1
    <3> QED BY <1>1, <1>2, <1>3, <1>4, <1>5, <2>2, <3>2
  <2> QED BY <2>1, <2>2
<1> QED BY <1>4, <1>5, <1>6, <1>7

\* The tickets in a line with one entry taken out or added.
LEMMA RemovalRange ==
  ASSUME NEW S, NEW s \in Seq(S), NEW i \in 1..Len(s),
         \A j, k \in 1..Len(s) : s[j] = s[k] => j = k
  PROVE  /\ Range(RemoveAt(s, i)) = Range(s) \ {s[i]}
         /\ \A j, k \in 1..Len(RemoveAt(s, i)) :
              RemoveAt(s, i)[j] = RemoveAt(s, i)[k] => j = k
<1> DEFINE r == RemoveAt(s, i)
<1>1. /\ r \in Seq(S) /\ Len(r) = Len(s) - 1 /\ Len(s) \in Nat
      /\ \A j \in 1..(Len(s) - 1) : r[j] = IF j < i THEN s[j] ELSE s[j + 1]
  BY Removal, LenProperties
<1> HIDE DEF r
<1>2. /\ Range(s) = {s[j] : j \in 1..Len(s)}
      /\ Range(r) = {r[j] : j \in 1..Len(r)}
  BY <1>1, RangeEquality
<1>3. ASSUME NEW x \in Range(r) PROVE x \in Range(s) \ {s[i]}
  <2>1. PICK j \in 1..(Len(s) - 1) : x = r[j] BY <1>1, <1>2, <1>3
  <2>2. CASE j < i BY <1>1, <1>2, <2>1, <2>2
  <2>3. CASE ~(j < i) BY <1>1, <1>2, <2>1, <2>3
  <2> QED BY <2>2, <2>3
<1>4. ASSUME NEW x \in Range(s) \ {s[i]} PROVE x \in Range(r)
  <2>1. PICK k \in 1..Len(s) : x = s[k] BY <1>2, <1>4
  <2>2. k # i BY <1>4, <2>1
  <2>3. CASE k < i
    <3>1. k \in 1..(Len(s) - 1) /\ r[k] = s[k] BY <1>1, <2>3
    <3> QED BY <1>1, <1>2, <2>1, <3>1
  <2>4. CASE k > i
    <3>1. k - 1 \in 1..(Len(s) - 1) /\ ~(k - 1 < i) /\ (k - 1) + 1 = k
      BY <1>1, <2>4
    <3>2. r[k - 1] = s[k] BY <1>1, <3>1
    <3> QED BY <1>1, <1>2, <2>1, <3>1, <3>2
  <2> QED BY <2>2, <2>3, <2>4
<1>5. ASSUME NEW j \in 1..Len(r), NEW k \in 1..Len(r), r[j] = r[k]
      PROVE  j = k
  <2> DEFINE old(n) == IF n < i THEN n ELSE n + 1
  <2>1. /\ old(j) \in 1..Len(s) /\ r[j] = s[old(j)]
        /\ old(k) \in 1..Len(s) /\ r[k] = s[old(k)]
    BY <1>1
  <2>2. old(j) = old(k) BY <1>5, <2>1
  <2> QED BY <1>1, <2>2
<1> QED BY <1>3, <1>4, <1>5 DEF r

LEMMA AppendRange ==
  ASSUME NEW S, NEW s \in Seq(S), NEW x \in S, x \notin Range(s),
         \A j, k \in 1..Len(s) : s[j] = s[k] => j = k
  PROVE  /\ Range(Append(s, x)) = Range(s) \cup {x}
         /\ \A j, k \in 1..Len(Append(s, x)) :
              Append(s, x)[j] = Append(s, x)[k] => j = k
<1> DEFINE r == Append(s, x)
<1>1. /\ r \in Seq(S) /\ Len(r) = Len(s) + 1 /\ Len(s) \in Nat
      /\ \A j \in 1..Len(s) : r[j] = s[j]
      /\ r[Len(s) + 1] = x
  BY AppendProperties, LenProperties
<1> HIDE DEF r
<1>2. /\ Range(s) = {s[j] : j \in 1..Len(s)}
      /\ Range(r) = {r[j] : j \in 1..Len(r)}
  BY <1>1, RangeEquality
<1>3. 1..Len(r) = 1..Len(s) \cup {Len(s) + 1} BY <1>1
<1>4. Range(r) = Range(s) \cup {x} BY <1>1, <1>2, <1>3
<1>5. \A j, k \in 1..Len(r) : r[j] = r[k] => j = k
  BY <1>1, <1>2, <1>3
<1> QED BY <1>4, <1>5 DEF r

\* A line without duplicates is as long as the set of its tickets is large.
LEMMA LineLength ==
  ASSUME NEW S, NEW s \in Seq(S),
         \A j, k \in 1..Len(s) : s[j] = s[k] => j = k
  PROVE  IsFiniteSet(Range(s)) /\ Cardinality(Range(s)) = Len(s)
<1>1. Len(s) \in Nat /\ s \in [1..Len(s) -> S] BY LenProperties
<1>2. s \in Surjection(1..Len(s), Range(s)) BY <1>1, Fun_RangeProperties
<1>3. s \in [1..Len(s) -> Range(s)] BY <1>2, Fun_SurjectionProperties
<1>4. s \in Injection(1..Len(s), Range(s)) BY <1>3, Fun_IsInj
<1>5. ExistsBijection(1..Len(s), Range(s))
  BY <1>2, <1>4 DEF ExistsBijection, Bijection
<1>6. IsFiniteSet(1..Len(s)) /\ Cardinality(1..Len(s)) = Len(s)
  BY <1>1, FS_Interval
<1> QED BY <1>5, <1>6, FS_Bijection

-----------------------------------------------------------------------------
\* The two ways a line changes, as facts about the queue's own state.
LEMMA TakenOut ==
  ASSUME TypeOK, SlotsAccounted, NEW i \in DOMAIN pending,
         pending' = RemoveAt(pending, i)
  PROVE  /\ pending' \in Seq(Ticket)
         /\ Len(pending') = Len(pending) - 1
         /\ Waiting' = Waiting \ {pending[i]}
         /\ NoDuplicates'
<1>1. pending \in Seq(Ticket) /\ DOMAIN pending = 1..Len(pending)
  BY LenProperties DEF TypeOK
<1>2. \A j, k \in 1..Len(pending) : pending[j] = pending[k] => j = k
  BY <1>1 DEF SlotsAccounted, NoDuplicates
<1>3. /\ RemoveAt(pending, i) \in Seq(Ticket)
      /\ Len(RemoveAt(pending, i)) = Len(pending) - 1
  BY <1>1, Removal
<1>4. /\ Range(RemoveAt(pending, i)) = Range(pending) \ {pending[i]}
      /\ \A j, k \in 1..Len(RemoveAt(pending, i)) :
           RemoveAt(pending, i)[j] = RemoveAt(pending, i)[k] => j = k
  BY <1>1, <1>2, RemovalRange
<1>5. DOMAIN RemoveAt(pending, i) = 1..Len(RemoveAt(pending, i))
  BY <1>3, LenProperties
<1> QED BY <1>3, <1>4, <1>5 DEF Waiting, NoDuplicates

LEMMA Joined ==
  ASSUME TypeOK, SlotsAccounted, NEW t \in Ticket, t \notin Waiting,
         pending' = Append(pending, t)
  PROVE  /\ pending' \in Seq(Ticket)
         /\ Len(pending') = Len(pending) + 1
         /\ Waiting' = Waiting \cup {t}
         /\ NoDuplicates'
<1>1. pending \in Seq(Ticket) /\ DOMAIN pending = 1..Len(pending)
  BY LenProperties DEF TypeOK
<1>2. \A j, k \in 1..Len(pending) : pending[j] = pending[k] => j = k
  BY <1>1 DEF SlotsAccounted, NoDuplicates
<1>3. /\ Append(pending, t) \in Seq(Ticket)
      /\ Len(Append(pending, t)) = Len(pending) + 1
  BY <1>1, AppendProperties
<1>4. /\ Range(Append(pending, t)) = Range(pending) \cup {t}
      /\ \A j, k \in 1..Len(Append(pending, t)) :
           Append(pending, t)[j] = Append(pending, t)[k] => j = k
  BY <1>1, <1>2, AppendRange DEF Waiting
<1>5. DOMAIN Append(pending, t) = 1..Len(Append(pending, t))
  BY <1>3, LenProperties
<1> QED BY <1>3, <1>4, <1>5 DEF Waiting, NoDuplicates

LEMMA QueueBasics ==
  ASSUME IInv
  PROVE  /\ running \in Nat
         /\ Len(pending) \in Nat
         /\ DOMAIN pending = 1..Len(pending)
         /\ IsFiniteSet(acquired \cap Background)
         /\ Cardinality(acquired \cap Background) \in Nat
         /\ Cardinality(acquired \cap Background) <= running
<1>1. IsFiniteSet(acquired) /\ running = Cardinality(acquired)
  BY DEF IInv, SlotsAccounted
<1>2. running \in Nat BY <1>1, FS_CardinalityType
<1>3. acquired \cap Background \in SUBSET acquired OBVIOUS
<1>4. /\ IsFiniteSet(acquired \cap Background)
      /\ Cardinality(acquired \cap Background) <= Cardinality(acquired)
  BY <1>1, <1>3, FS_Subset
<1>5. Cardinality(acquired \cap Background) \in Nat
  BY <1>4, FS_CardinalityType
<1>6. Len(pending) \in Nat /\ DOMAIN pending = 1..Len(pending)
  BY LenProperties DEF IInv, TypeOK
<1> QED BY <1>1, <1>2, <1>4, <1>5, <1>6

LEMMA InitInv == QueueInit => IInv
<1> SUFFICES ASSUME QueueInit PROVE IInv
  OBVIOUS
<1>1. /\ <<>> \in Seq(Ticket) /\ Len(<<>>) = 0
      /\ DOMAIN <<>> = {} /\ Range(<<>>) = {}
  BY EmptySeq DEF Range
<1>2. TypeOK BY <1>1 DEF QueueInit, TypeOK
<1>3. SlotsAccounted
  BY <1>1, FS_EmptySet DEF QueueInit, SlotsAccounted, NoDuplicates, Waiting
<1>4. WithinLimits
  <2>1. acquired \cap Background = {} BY DEF QueueInit
  <2>2. Cardinality(acquired \cap Background) = 0 BY <2>1, FS_EmptySet
  <2> QED BY <1>1, <2>2, Clamped DEF QueueInit, WithinLimits
<1> QED BY <1>2, <1>3, <1>4 DEF IInv

LEMMA StepInv == IInv /\ [QueueNext]_queueVars => IInv'
<1> SUFFICES ASSUME IInv, [QueueNext]_queueVars PROVE IInv'
  OBVIOUS
<1>0. /\ running \in Nat /\ Len(pending) \in Nat
      /\ Cardinality(acquired \cap Background) \in Nat
      /\ Cardinality(acquired \cap Background) <= running
      /\ IsFiniteSet(acquired \cap Background)
  BY QueueBasics
<1>1. ASSUME NEW t \in Ticket, Reserve(t) PROVE IInv'
  <2>1. /\ t \notin Waiting /\ t \notin acquired
        /\ Len(pending) + running < Capacity + MaxQueued
        /\ pending' = Append(pending, t)
        /\ running' = running /\ acquired' = acquired
    BY <1>1 DEF Reserve
  <2>2. /\ pending' \in Seq(Ticket) /\ Len(pending') = Len(pending) + 1
        /\ Waiting' = Waiting \cup {t} /\ NoDuplicates'
    BY <2>1, Joined DEF IInv
  <2>3. TypeOK' BY <1>0, <2>1, <2>2 DEF IInv, TypeOK
  <2>4. SlotsAccounted' BY <2>1, <2>2 DEF IInv, SlotsAccounted
  <2>5. WithinLimits' BY <1>0, <2>1, <2>2, Clamped DEF IInv, WithinLimits
  <2> QED BY <2>3, <2>4, <2>5 DEF IInv
<1>2. ASSUME NEW t \in Ticket, Acquire(t) PROVE IInv'
  <2>1. PICK i \in DOMAIN pending :
          /\ pending[i] = t
          /\ NextEligible(i)
          /\ pending' = RemoveAt(pending, i)
          /\ running' = running + 1
          /\ acquired' = acquired \cup {t}
    BY <1>2 DEF Acquire
  <2>2. /\ pending' \in Seq(Ticket) /\ Len(pending') = Len(pending) - 1
        /\ Waiting' = Waiting \ {t} /\ NoDuplicates'
    BY <2>1, TakenOut DEF IInv
  <2>3. t \in Waiting /\ t \notin acquired
    <3>1. t \in Waiting BY <2>1 DEF Waiting, Range
    <3> QED BY <3>1 DEF IInv, SlotsAccounted
  <2>4. running < LimitFor(t) BY <2>1 DEF NextEligible, CanStart
  <2>5. TypeOK' BY <1>0, <2>1, <2>2 DEF IInv, TypeOK
  <2>6. SlotsAccounted'
    <3>1. /\ IsFiniteSet(acquired \cup {t})
          /\ Cardinality(acquired \cup {t}) = Cardinality(acquired) + 1
      BY <2>3, FS_AddElement DEF IInv, SlotsAccounted
    <3>2. Waiting' \cap acquired' = {}
      BY <2>1, <2>2 DEF IInv, SlotsAccounted
    <3> QED BY <2>1, <2>2, <3>1, <3>2 DEF IInv, SlotsAccounted
  <2>7. Cardinality(acquired' \cap Background) <= Capacity - Reserved
    <3>1. CASE t \in Background
      <4>1. acquired' \cap Background = (acquired \cap Background) \cup {t}
        BY <2>1, <3>1
      <4>2. Cardinality((acquired \cap Background) \cup {t})
              = Cardinality(acquired \cap Background) + 1
        BY <1>0, <2>3, FS_AddElement
      <4>3. running < Capacity - Reserved BY <2>4, <3>1 DEF LimitFor
      <4>4. Cardinality(acquired \cap Background) + 1 <= Capacity - Reserved
        BY <1>0, <4>3, Clamped
      <4> QED BY <4>1, <4>2, <4>4
    <3>2. CASE t \notin Background
      <4>1. acquired' \cap Background = acquired \cap Background
        BY <2>1, <3>2
      <4> QED BY <4>1 DEF IInv, WithinLimits
    <3> QED BY <3>1, <3>2
  <2>8. WithinLimits'
    <3>1. running + 1 <= Capacity BY <1>0, <2>4, Clamped DEF LimitFor
    <3> QED BY <1>0, <2>1, <2>2, <2>7, <3>1, Clamped DEF IInv, WithinLimits
  <2> QED BY <2>5, <2>6, <2>8 DEF IInv
<1>3. ASSUME NEW t \in Ticket, GiveBackSlot(t) PROVE IInv'
  <2>1. /\ t \in acquired /\ running' = running - 1
        /\ acquired' = acquired \ {t} /\ pending' = pending
    BY <1>3 DEF GiveBackSlot
  <2>2. TypeOK'
    <3>1. IsFiniteSet(acquired) /\ running = Cardinality(acquired)
      BY DEF IInv, SlotsAccounted
    <3>2. acquired # {} BY <2>1
    <3>3. running # 0 BY <3>1, <3>2, FS_EmptySet
    <3>4. running - 1 \in Nat BY <1>0, <3>3
    <3> QED BY <2>1, <3>4 DEF IInv, TypeOK
  <2>3. SlotsAccounted'
    <3>1. /\ IsFiniteSet(acquired \ {t})
          /\ Cardinality(acquired \ {t}) = Cardinality(acquired) - 1
      BY <2>1, FS_RemoveElement DEF IInv, SlotsAccounted
    <3> QED BY <2>1, <3>1
        DEF IInv, SlotsAccounted, NoDuplicates, Waiting
  <2>4. WithinLimits'
    <3>1. acquired' \cap Background \in SUBSET (acquired \cap Background)
      BY <2>1
    <3>2. /\ IsFiniteSet(acquired' \cap Background)
          /\ Cardinality(acquired' \cap Background)
               <= Cardinality(acquired \cap Background)
      BY <1>0, <3>1, FS_Subset
    <3>3. Cardinality(acquired' \cap Background) \in Nat
      BY <3>2, FS_CardinalityType
    <3> QED BY <1>0, <2>1, <3>2, <3>3, Clamped DEF IInv, WithinLimits
  <2> QED BY <2>2, <2>3, <2>4 DEF IInv
<1>4. ASSUME NEW t \in Ticket, LeaveLine(t) PROVE IInv'
  <2>1. CASE UNCHANGED queueVars
    BY <2>1 DEF IInv, TypeOK, SlotsAccounted, WithinLimits, NoDuplicates,
                Waiting, queueVars
  <2>2. CASE \E i \in DOMAIN pending :
               pending[i] = t /\ pending' = RemoveAt(pending, i)
    <3>1. PICK i \in DOMAIN pending :
            pending[i] = t /\ pending' = RemoveAt(pending, i)
      BY <2>2
    <3>2. /\ pending' \in Seq(Ticket) /\ Len(pending') = Len(pending) - 1
          /\ Waiting' = Waiting \ {t} /\ NoDuplicates'
      BY <3>1, TakenOut DEF IInv
    <3>3. running' = running /\ acquired' = acquired BY <1>4 DEF LeaveLine
    <3>4. TypeOK' BY <3>2, <3>3 DEF IInv, TypeOK
    <3>5. SlotsAccounted' BY <3>2, <3>3 DEF IInv, SlotsAccounted
    <3>6. WithinLimits' BY <1>0, <3>2, <3>3, Clamped DEF IInv, WithinLimits
    <3> QED BY <3>4, <3>5, <3>6 DEF IInv
  <2> QED BY <1>4, <2>1, <2>2 DEF LeaveLine, queueVars
<1>5. CASE UNCHANGED queueVars
  BY <1>5 DEF IInv, TypeOK, SlotsAccounted, WithinLimits, NoDuplicates,
              Waiting, queueVars
<1> QED BY <1>1, <1>2, <1>3, <1>4, <1>5 DEF QueueNext, Release

\* What the operations do to the sets of tickets.
LEMMA WhenReserved ==
  ASSUME IInv, NEW t \in Ticket, Reserve(t)
  PROVE  Waiting' = Waiting \cup {t} /\ acquired' = acquired
BY Joined DEF IInv, Reserve

LEMMA WhenAcquired ==
  ASSUME IInv, NEW t \in Ticket, Acquire(t)
  PROVE  Waiting' = Waiting \ {t} /\ acquired' = acquired \cup {t}
<1>1. PICK i \in DOMAIN pending :
        /\ pending[i] = t /\ pending' = RemoveAt(pending, i)
        /\ acquired' = acquired \cup {t}
  BY DEF Acquire
<1> QED BY <1>1, TakenOut DEF IInv

\* Whatever state the ticket is in, a release takes it away.
LEMMA WhenReleased ==
  ASSUME IInv, NEW t \in Ticket, Release(t)
  PROVE  Waiting' = Waiting \ {t} /\ acquired' = acquired \ {t}
<1>1. CASE GiveBackSlot(t)
  BY <1>1 DEF GiveBackSlot, IInv, SlotsAccounted, Waiting
<1>2. CASE LeaveLine(t)
  <2>1. t \notin acquired /\ acquired' = acquired BY <1>2 DEF LeaveLine
  <2>2. CASE \E i \in DOMAIN pending : pending[i] = t /\ pending' = RemoveAt(pending, i)
    BY <2>1, <2>2, TakenOut DEF IInv
  <2>3. CASE t \notin Waiting /\ UNCHANGED pending
    BY <2>1, <2>3 DEF Waiting
  <2> QED BY <1>2, <2>2, <2>3 DEF LeaveLine
<1> QED BY <1>1, <1>2 DEF Release

LEMMA Invariance == QueueSpec => []IInv
<1> QED BY InitInv, StepInv, PTL DEF QueueSpec

\* The queue's fields always hold values of their kinds (buildqueue.py,
\* BuildQueue.__init__ and every method that assigns them).
THEOREM TypeCorrect == QueueSpec => []TypeOK
<1>1. IInv => TypeOK BY DEF IInv
<1> QED BY <1>1, Invariance, PTL

\* No slot is lost and none is returned twice, whatever releases happen and
\* however often: the counter is the number of tickets flagged `acquired`.
THEOREM SlotsNeverLeakOrDouble == QueueSpec => []SlotsAccounted
<1>1. IInv => SlotsAccounted BY DEF IInv
<1> QED BY <1>1, Invariance, PTL

\* Running, outstanding and background work stay within the configured
\* bounds, for any configuration the constructor is given.
THEOREM LimitsHold == QueueSpec => []WithinLimits
<1>1. IInv => WithinLimits BY DEF IInv
<1> QED BY <1>1, Invariance, PTL

-----------------------------------------------------------------------------
\* Under the invariant, a start that passes over t tells which class t is of.
LEMMA StartInOrder ==
  ASSUME IInv, [QueueNext]_queueVars,
         NEW t \in Ticket, NEW u \in Ticket, Ahead(t, u), Starts(u)
  PROVE  /\ t \in Background /\ u \notin Background
         /\ running >= Capacity - Reserved
<1>1. Acquire(u)
  <2>1. u \notin acquired /\ u \in acquired' BY DEF Starts
  <2>2. PICK v \in Ticket : Reserve(v) \/ Acquire(v) \/ Release(v)
    BY <2>1 DEF QueueNext, queueVars
  <2>3. ~Reserve(v) BY <2>1 DEF Reserve
  <2>4. ~Release(v) BY <2>1 DEF Release, GiveBackSlot, LeaveLine
  <2>5. Acquire(v) => v = u BY <2>1 DEF Acquire
  <2> QED BY <2>2, <2>3, <2>4, <2>5
<1>2. PICK k \in DOMAIN pending : pending[k] = u /\ NextEligible(k)
  BY <1>1 DEF Acquire
<1>3. PICK i \in DOMAIN pending, j \in DOMAIN pending :
        i < j /\ pending[i] = t /\ pending[j] = u
  BY DEF Ahead
<1>4. j = k BY <1>2, <1>3 DEF IInv, SlotsAccounted, NoDuplicates
<1>5. i \in 1..(k - 1)
  <2>1. DOMAIN pending = 1..Len(pending) /\ Len(pending) \in Nat
    BY QueueBasics
  <2> QED BY <1>3, <1>4, <2>1
<1>6. ~(running < LimitFor(t)) /\ running < LimitFor(u)
  BY <1>2, <1>3, <1>5 DEF NextEligible, CanStart
<1>7. running \in Nat BY QueueBasics
<1>8. CASE t \in Background
  <2>1. running >= Capacity - Reserved
    BY <1>6, <1>7, <1>8, Clamped DEF LimitFor
  <2>2. u \notin Background BY <1>6, <1>7, <2>1, Clamped DEF LimitFor
  <2> QED BY <1>8, <2>1, <2>2
<1>9. CASE t \notin Background
  BY <1>6, <1>7, <1>9, Clamped DEF LimitFor
<1> QED BY <1>8, <1>9

\* First come first served within a class, and an interactive ticket is never
\* overtaken: _next_eligible, for every line and every configuration.
THEOREM OrderIsFair == QueueSpec => FairOrder
<1>1. IInv /\ [QueueNext]_queueVars =>
        [\A t, u \in Ticket :
           Ahead(t, u) /\ Starts(u) =>
             /\ t \in Background /\ u \notin Background
             /\ running >= Capacity - Reserved]_queueVars
  BY StartInOrder
<1> QED BY <1>1, Invariance, PTL DEF QueueSpec, FairOrder

-----------------------------------------------------------------------------
\* The counters the queue tests are the cardinalities the pool tests.
LEMMA PoolCounts ==
  ASSUME IInv
  PROVE  /\ Cardinality(acquired) = running
         /\ Cardinality(Waiting) = Len(pending)
         /\ Waiting \cap acquired = {}
<1>1. pending \in Seq(Ticket) /\ DOMAIN pending = 1..Len(pending)
  BY LenProperties DEF IInv, TypeOK
<1>2. \A j, k \in 1..Len(pending) : pending[j] = pending[k] => j = k
  BY <1>1 DEF IInv, SlotsAccounted, NoDuplicates
<1>3. Cardinality(Waiting) = Len(pending)
  BY <1>1, <1>2, LineLength DEF Waiting
<1> QED BY <1>3 DEF IInv, SlotsAccounted

\* The pool counts sets the way the queue's properties do.
LEMMA PoolSize == \A S : Pool!Cardinality(S) = Cardinality(S)
BY DEF Pool!Cardinality, Cardinality, Pool!IsFiniteSet, IsFiniteSet

LEMMA PoolStep == IInv /\ [QueueNext]_queueVars => [Pool!PoolNext]_(Pool!poolVars)
<1> SUFFICES ASSUME IInv, [QueueNext]_queueVars
             PROVE  [Pool!PoolNext]_(Pool!poolVars)
  OBVIOUS
<1> USE DEF Pool!PoolNext, Pool!poolVars
<1>0. /\ Cardinality(acquired) = running
      /\ Cardinality(Waiting) = Len(pending)
      /\ Waiting \cap acquired = {}
      /\ running \in Nat /\ Len(pending) \in Nat
  BY PoolCounts, QueueBasics
<1>1. ASSUME NEW t \in Ticket, Reserve(t) PROVE Pool!Admit(t)
  <2>1. Waiting' = Waiting \cup {t} BY <1>1, Joined DEF IInv, Reserve
  <2>2. Cardinality(Waiting) + Cardinality(acquired) < Capacity + MaxQueued
    BY <1>0, <1>1 DEF Reserve
  <2> QED BY <1>1, <2>1, <2>2, PoolSize DEF Pool!Admit, Reserve
<1>2. ASSUME NEW t \in Ticket, Acquire(t) PROVE Pool!Grant(t)
  <2>1. PICK i \in DOMAIN pending :
          /\ pending[i] = t
          /\ NextEligible(i)
          /\ pending' = RemoveAt(pending, i)
          /\ acquired' = acquired \cup {t}
    BY <1>2 DEF Acquire
  <2>2. Waiting' = Waiting \ {t} BY <2>1, TakenOut DEF IInv
  <2>3. t \in Waiting BY <2>1 DEF Waiting, Range
  <2>4. Cardinality(acquired) < Pool!Share(t)
    BY <1>0, <2>1, Clamped DEF NextEligible, CanStart, LimitFor, Pool!Share
  <2> QED BY <2>1, <2>2, <2>3, <2>4, PoolSize DEF Pool!Grant
<1>3. ASSUME NEW t \in Ticket, GiveBackSlot(t) PROVE Pool!Leave(t)
  <2>1. /\ t \in acquired /\ acquired' = acquired \ {t}
        /\ Waiting' = Waiting
    BY <1>3 DEF GiveBackSlot, Waiting
  <2> QED BY <1>0, <2>1 DEF Pool!Leave
<1>4. ASSUME NEW t \in Ticket, LeaveLine(t)
      PROVE  Pool!Leave(t) \/ UNCHANGED Pool!poolVars
  <2>1. t \notin acquired /\ acquired' = acquired BY <1>4 DEF LeaveLine
  <2>2. CASE \E i \in DOMAIN pending :
               pending[i] = t /\ pending' = RemoveAt(pending, i)
    <3>1. PICK i \in DOMAIN pending :
            pending[i] = t /\ pending' = RemoveAt(pending, i)
      BY <2>2
    <3>2. t \in Waiting BY <3>1 DEF Waiting, Range
    <3>3. Waiting' = Waiting \ {t} BY <3>1, TakenOut DEF IInv
    <3> QED BY <2>1, <3>2, <3>3 DEF Pool!Leave
  <2>3. CASE UNCHANGED pending BY <2>1, <2>3 DEF Waiting
  <2> QED BY <1>4, <2>2, <2>3 DEF LeaveLine
<1>5. CASE UNCHANGED queueVars BY <1>5 DEF queueVars, Waiting
<1> QED BY <1>1, <1>2, <1>3, <1>4, <1>5 DEF QueueNext, Release

\* The queue implements the pool of slots: bounded admission counted over
\* waiting and running work together, bounded slots, and the slots kept for
\* interactive tickets (buildqueue.py, module docstring).
THEOREM QueueImplementsPool == QueueSpec => ImplementsSlotPool
<1>1. QueueInit => Pool!PoolInit
  BY DEF QueueInit, Pool!PoolInit, Waiting, Range
<1> QED BY <1>1, PoolStep, Invariance, PTL
        DEF QueueSpec, ImplementsSlotPool, Pool!PoolSpec
=============================================================================
