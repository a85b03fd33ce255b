-------------------------- MODULE ListWorksProofs --------------------------
(***************************************************************************)
(* The image fetcher, for any number of requests, works and slots: its     *)
(* slots are accounted for, none is lost, no waiter is overtaken or left   *)
(* asleep, and it is the bounded pool that WorkerPool specifies.           *)
(***************************************************************************)
EXTENDS ListWorks, FiniteSetTheorems, SequenceTheorems, TLAPS

\* Stop is a caller of the semaphore unlike the calls of process.
LEMMA StopperIsNoCall == Stopper \notin Calls
BY DEF Stopper, Calls

\* There are finitely many calls, so that slots can be counted.
LEMMA CallsFinite == IsFiniteSet(Calls)
BY ListWorksAssumption, FS_Product DEF Calls

\* A number of slots is a natural number.
LEMMA SlotsOfType ==
  ASSUME NEW S
  PROVE  SlotsOf(S) \in Nat
<1>1. IsFiniteSet(S \cap Calls)
  BY CallsFinite, FS_Subset
<1>2. QED
  BY <1>1, FS_CardinalityType, ListWorksAssumption DEF SlotsOf

\* A call takes one slot and stop takes all of them.
LEMMA SlotsOfOne ==
  /\ \A c \in Calls : SlotsOf({c}) = 1
  /\ SlotsOf({Stopper}) = MaxWorkers
<1>1. ASSUME NEW c \in Calls
      PROVE  SlotsOf({c}) = 1
  <2>1. {c} \cap Calls = {c} /\ Stopper \notin {c}
    BY StopperIsNoCall
  <2>2. QED
    BY <2>1, FS_Singleton DEF SlotsOf
<1>2. {Stopper} \cap Calls = {}
  BY StopperIsNoCall
<1>3. SlotsOf({Stopper}) = MaxWorkers
  BY <1>2, FS_EmptySet, ListWorksAssumption DEF SlotsOf
<1>4. QED
  BY <1>1, <1>3

\* The slots of disjoint sets of callers add up.
LEMMA SlotsOfUnion ==
  ASSUME NEW S, NEW T, S \cap T = {}
  PROVE  SlotsOf(S \cup T) = SlotsOf(S) + SlotsOf(T)
<1> DEFINE s == S \cap Calls  t == T \cap Calls
<1>0. IsFiniteSet(s) /\ IsFiniteSet(t)
  BY CallsFinite, FS_Intersection
<1>1. s \cap t = {} /\ (S \cup T) \cap Calls = s \cup t
  OBVIOUS
<1>2. Cardinality(s \cap t) = 0
  BY <1>1, FS_EmptySet
<1>3. Cardinality(s) \in Nat /\ Cardinality(t) \in Nat
  BY <1>0, FS_CardinalityType
<1>4. Cardinality(s \cup t) = Cardinality(s) + Cardinality(t)
  <2> HIDE DEF s, t
  <2>1. Cardinality(s \cup t) = Cardinality(s) + Cardinality(t) - Cardinality(s \cap t)
    BY <1>0, FS_Union
  <2>2. QED
    BY <2>1, <1>2, <1>3
<1>5. Cardinality((S \cup T) \cap Calls) = Cardinality(S \cap Calls) + Cardinality(T \cap Calls)
  BY <1>1, <1>4
<1>6. QED
  BY <1>3, <1>5, ListWorksAssumption DEF SlotsOf

-----------------------------------------------------------------------------
(* Queues.                                                                 *)

Distinct(q) == \A i, j \in DOMAIN q : q[i] = q[j] => i = j

\* Those that are before x in q.
Before(q, x) == {y \in ToSet(q) : \E i, j \in DOMAIN q : i < j /\ q[i] = y /\ q[j] = x}

\* A queue q of waiters beside a set H of holders.
Queued(q, H) ==
  /\ q \in Seq(Waiter) /\ H \subseteq Waiter
  /\ Distinct(q) /\ ToSet(q) \cap H = {}

\* Who joins at the end becomes the first only of an empty queue.
LEMMA AppendQueued ==
  ASSUME NEW q, NEW H, Queued(q, H), NEW x \in Waiter, x \notin ToSet(q), x \notin H
  PROVE  /\ Queued(Append(q, x), H)
         /\ ToSet(Append(q, x)) = ToSet(q) \cup {x}
         /\ Append(q, x) # <<>>
         /\ Head(Append(q, x)) = IF q = <<>> THEN x ELSE Head(q)
<1> DEFINE r == Append(q, x)
<1>1. /\ r \in Seq(Waiter) /\ Len(q) \in Nat /\ Len(r) = Len(q) + 1
      /\ DOMAIN q = 1..Len(q) /\ DOMAIN r = 1..(Len(q) + 1)
      /\ r[Len(q) + 1] = x /\ \A i \in 1..Len(q) : r[i] = q[i]
  BY DEF Queued
<1>2. ToSet(r) = ToSet(q) \cup {x}
  BY <1>1 DEF ToSet
<1>3. Distinct(r)
  <2>1. \A i \in 1..Len(q) : r[i] # x
    BY <1>1 DEF ToSet
  <2> HIDE DEF r
  <2>2. \A i, j \in 1..Len(q) : r[i] = r[j] => i = j
    BY <1>1 DEF Queued, Distinct
  <2>3. SUFFICES ASSUME NEW i \in 1..(Len(q) + 1), NEW j \in 1..(Len(q) + 1), r[i] = r[j]
                 PROVE  i = j
    BY <1>1 DEF Distinct
  <2>4. (i \in 1..Len(q) \/ i = Len(q) + 1) /\ (j \in 1..Len(q) \/ j = Len(q) + 1)
    BY <1>1
  <2>5. CASE i \in 1..Len(q) /\ j \in 1..Len(q)
    BY <2>2, <2>3, <2>5
  <2>6. r[Len(q) + 1] = x
    BY <1>1
  <2>7. CASE i = Len(q) + 1
    <3>1. r[j] = x
      BY <2>3, <2>6, <2>7
    <3>2. QED
      BY <2>1, <2>4, <2>7, <3>1
  <2>8. CASE j = Len(q) + 1
    <3>1. r[i] = x
      BY <2>3, <2>6, <2>8
    <3>2. QED
      BY <2>1, <2>4, <2>8, <3>1
  <2>9. QED
    BY <2>4, <2>5, <2>7, <2>8
<1>4. Queued(r, H)
  BY <1>1, <1>2, <1>3 DEF Queued
<1>5. r # <<>> /\ Head(r) = IF q = <<>> THEN x ELSE Head(q)
  <2> HIDE DEF r
  <2>1. r # <<>> /\ Head(r) = r[1]
    <3>1. Len(r) # 0
      BY <1>1
    <3>2. QED
      BY <1>1, <3>1, EmptySeq, HeadTailProperties
  <2>2. CASE q = <<>>
    BY <1>1, <2>1, <2>2, EmptySeq
  <2>3. CASE q # <<>>
    <3>1. q \in Seq(Waiter) /\ Head(q) = q[1] /\ Len(q) # 0
      BY <2>3, EmptySeq, HeadTailProperties DEF Queued
    <3>2. 1 \in 1..Len(q)
      BY <1>1, <3>1
    <3>3. QED
      BY <1>1, <2>1, <2>3, <3>1, <3>2
  <2>4. QED
    BY <2>1, <2>2, <2>3
<1>6. QED
  BY <1>2, <1>4, <1>5

\* RemoveAt closes the gap it leaves.
LEMMA RemoveAtShape ==
  ASSUME NEW q \in Seq(Waiter), NEW i \in 1..Len(q)
  PROVE  /\ RemoveAt(q, i) \in Seq(Waiter)
         /\ Len(RemoveAt(q, i)) = Len(q) - 1
         /\ \A j \in 1..(Len(q) - 1) : RemoveAt(q, i)[j] = IF j < i THEN q[j] ELSE q[j + 1]
<1> DEFINE a == SubSeq(q, 1, i - 1)  b == SubSeq(q, i + 1, Len(q))
<1>1. Len(q) \in Nat /\ \A j \in 1..Len(q) : q[j] \in Waiter
  BY ElementOfSeq, LenProperties
<1>2. a \in Seq(Waiter) /\ Len(a) = i - 1 /\ \A j \in 1..(i - 1) : a[j] = q[j]
  BY <1>1, SubSeqProperties
<1>3. b \in Seq(Waiter) /\ Len(b) = Len(q) - i /\ \A j \in 1..(Len(q) - i) : b[j] = q[i + j]
  BY <1>1, SubSeqProperties
<1>4. RemoveAt(q, i) = a \o b
  BY DEF RemoveAt
<1>5. /\ a \o b \in Seq(Waiter)
      /\ Len(a \o b) = Len(a) + Len(b)
      /\ \A j \in 1..(Len(a) + Len(b)) :
           (a \o b)[j] = IF j <= Len(a) THEN a[j] ELSE b[j - Len(a)]
  <2> HIDE DEF a, b
  <2>1. QED
    BY <1>2, <1>3, ConcatProperties
<1>6. ASSUME NEW j \in 1..(Len(q) - 1)
      PROVE  (a \o b)[j] = IF j < i THEN q[j] ELSE q[j + 1]
  <2> HIDE DEF a, b
  <2>1. Len(a) + Len(b) = Len(q) - 1 /\ j \in 1..(Len(a) + Len(b))
    BY <1>1, <1>2, <1>3
  <2>2. CASE j < i
    BY <1>1, <1>2, <1>5, <2>1, <2>2
  <2>3. CASE ~(j < i)
    <3>1. (a \o b)[j] = b[j - (i - 1)] /\ j - (i - 1) \in 1..(Len(q) - i)
      BY <1>1, <1>2, <1>3, <1>5, <2>1, <2>3
    <3>2. i + (j - (i - 1)) = j + 1
      BY <1>1
    <3>3. b[j - (i - 1)] = q[i + (j - (i - 1))]
      BY <1>3, <3>1
    <3>4. QED
      BY <3>1, <3>2, <3>3, <2>3
  <2>4. QED
    BY <2>2, <2>3
<1>7. QED
  <2> HIDE DEF a, b
  <2>1. QED
    BY <1>1, <1>2, <1>3, <1>4, <1>5, <1>6

\* Who leaves a queue leaves the order of the others as it was.
LEMMA RemoveAtQueued ==
  ASSUME NEW q, NEW H, Queued(q, H), NEW i \in 1..Len(q)
  PROVE  /\ Queued(RemoveAt(q, i), H)
         /\ ToSet(RemoveAt(q, i)) = ToSet(q) \ {q[i]}
         /\ q[i] \in ToSet(q) /\ q[i] \in Waiter /\ q[i] \notin H
         /\ i # 1 => q # <<>> /\ Head(RemoveAt(q, i)) = Head(q)
         /\ \A x : Before(RemoveAt(q, i), x) \subseteq Before(q, x)
<1> DEFINE r == RemoveAt(q, i)
<1>1. /\ q \in Seq(Waiter) /\ Len(q) \in Nat /\ DOMAIN q = 1..Len(q)
      /\ r \in Seq(Waiter) /\ Len(r) = Len(q) - 1 /\ DOMAIN r = 1..(Len(q) - 1)
      /\ \A j \in 1..(Len(q) - 1) : r[j] = IF j < i THEN q[j] ELSE q[j + 1]
  <2>1. q \in Seq(Waiter) /\ Len(q) \in Nat /\ DOMAIN q = 1..Len(q)
    BY DEF Queued
  <2>2. /\ r \in Seq(Waiter) /\ Len(r) = Len(q) - 1
        /\ \A j \in 1..(Len(q) - 1) : r[j] = IF j < i THEN q[j] ELSE q[j + 1]
    BY <2>1, RemoveAtShape
  <2> HIDE DEF r
  <2>3. QED
    BY <2>1, <2>2, SMTT(30)
<1> HIDE DEF r
<1>2. /\ \A j, k \in 1..Len(q) : q[j] = q[k] => j = k
      /\ \A j \in 1..Len(q) : q[j] \notin H /\ q[j] \in Waiter
  <2>1. \A j, k \in 1..Len(q) : q[j] = q[k] => j = k
    BY <1>1 DEF Queued, Distinct
  <2>2. \A j \in 1..Len(q) : q[j] \in ToSet(q) /\ q[j] \in Waiter
    BY <1>1 DEF ToSet
  <2>3. QED
    BY <2>1, <2>2 DEF Queued
<1>3. \A j \in 1..(Len(q) - 1) : \E k \in 1..Len(q) : r[j] = q[k] /\ k # i
  <2> TAKE j \in 1..(Len(q) - 1)
  <2>1. CASE j < i
    BY <1>1, <2>1
  <2>2. CASE ~(j < i)
    BY <1>1, <2>2
  <2>3. QED
    BY <2>1, <2>2
<1>4. \A k \in 1..Len(q) : k # i => \E j \in 1..(Len(q) - 1) : r[j] = q[k]
  <2> SUFFICES ASSUME NEW k \in 1..Len(q), k # i
               PROVE  \E j \in 1..(Len(q) - 1) : r[j] = q[k]
    OBVIOUS
  <2>1. CASE k < i
    BY <1>1, <2>1
  <2>2. CASE k > i
    <3>1. k - 1 \in 1..(Len(q) - 1) /\ ~(k - 1 < i) /\ (k - 1) + 1 = k
      BY <1>1, <2>2
    <3>2. QED
      BY <1>1, <3>1
  <2>3. QED
    BY <1>1, <2>1, <2>2
<1>5. ToSet(r) = ToSet(q) \ {q[i]}
  <2>1. ASSUME NEW y \in ToSet(r)
        PROVE  y \in ToSet(q) \ {q[i]}
    <3>1. PICK j \in 1..(Len(q) - 1) : y = r[j]
      BY <1>1 DEF ToSet
    <3>2. PICK k \in 1..Len(q) : r[j] = q[k] /\ k # i
      BY <1>3
    <3>3. q[k] \in ToSet(q)
      BY <1>1, <3>2 DEF ToSet
    <3>4. q[k] # q[i]
      BY <1>2, <3>2
    <3>5. QED
      BY <3>1, <3>2, <3>3, <3>4
  <2>2. ASSUME NEW y \in ToSet(q) \ {q[i]}
        PROVE  y \in ToSet(r)
    <3>1. PICK k \in 1..Len(q) : y = q[k]
      BY <1>1 DEF ToSet
    <3>2. QED
      BY <1>1, <1>4, <3>1 DEF ToSet
  <2>3. QED
    BY <2>1, <2>2
<1>6. Distinct(r)
  <2> SUFFICES ASSUME NEW j \in 1..(Len(q) - 1), NEW k \in 1..(Len(q) - 1), r[j] = r[k]
               PROVE  j = k
    BY <1>1 DEF Distinct
  <2>1. CASE j < i /\ k < i
    BY <1>1, <1>2, <2>1
  <2>2. CASE j < i /\ ~(k < i)
    BY <1>1, <1>2, <2>2
  <2>3. CASE ~(j < i) /\ k < i
    BY <1>1, <1>2, <2>3
  <2>4. CASE ~(j < i) /\ ~(k < i)
    BY <1>1, <1>2, <2>4
  <2>5. QED
    BY <2>1, <2>2, <2>3, <2>4
<1>7. Queued(r, H)
  BY <1>1, <1>5, <1>6 DEF Queued
<1>8. ASSUME i # 1
      PROVE  q # <<>> /\ Head(r) = Head(q)
  <2>1. 1 \in 1..(Len(q) - 1) /\ 1 < i
    BY <1>1, <1>8
  <2>2. r[1] = q[1] /\ r # <<>> /\ q # <<>>
    BY <1>1, <2>1
  <2>3. QED
    BY <1>1, <2>2
<1>9. ASSUME NEW x, NEW y \in Before(r, x)
      PROVE  y \in Before(q, x)
  <2>1. PICK j, k \in 1..(Len(q) - 1) : j < k /\ r[j] = y /\ r[k] = x
    BY <1>1, <1>9 DEF Before
  <2>2. y \in ToSet(q)
    BY <1>5, <1>9 DEF Before
  <2>3. \E m, n \in 1..Len(q) : m < n /\ q[m] = y /\ q[n] = x
    <3>1. CASE j < i /\ k < i
      BY <1>1, <2>1, <3>1
    <3>2. CASE j < i /\ ~(k < i)
      BY <1>1, <2>1, <3>2
    <3>3. CASE ~(j < i)
      <4>1. r[j] = q[j + 1] /\ r[k] = q[k + 1]
        BY <1>1, <2>1, <3>3
      <4>2. j + 1 \in 1..Len(q) /\ k + 1 \in 1..Len(q) /\ j + 1 < k + 1
        BY <1>1, <2>1
      <4>3. QED
        BY <4>1, <4>2, <2>1
    <3>4. QED
      BY <3>1, <3>2, <3>3
  <2>4. QED
    BY <1>1, <2>2, <2>3 DEF Before
<1>10. q[i] \in ToSet(q) /\ q[i] \in Waiter /\ q[i] \notin H
  BY <1>1, <1>2 DEF ToSet
<1>11. QED
  BY <1>5, <1>7, <1>8, <1>9, <1>10 DEF r

\* The first n of a queue were before each of those that remain.
LEMMA FirstShape ==
  ASSUME NEW q \in Seq(Waiter), Distinct(q), NEW n \in 0..Len(q)
  PROVE  LET rest == SubSeq(q, n + 1, Len(q)) IN
         /\ First(q, n) \subseteq ToSet(q) /\ First(q, n) \subseteq Waiter
         /\ rest \in Seq(Waiter) /\ Distinct(rest)
         /\ ToSet(rest) = ToSet(q) \ First(q, n)
         /\ rest # <<>> => /\ n < Len(q) /\ Head(rest) = q[n + 1]
                           /\ q[n + 1] \notin First(q, n)
                           /\ First(q, n + 1) = First(q, n) \cup {q[n + 1]}
         /\ \A x \in ToSet(rest) : First(q, n) \subseteq Before(q, x)
<1> DEFINE rest == SubSeq(q, n + 1, Len(q))
<1>1. /\ Len(q) \in Nat /\ DOMAIN q = 1..Len(q) /\ \A j \in 1..Len(q) : q[j] \in Waiter
      /\ \A j, k \in 1..Len(q) : q[j] = q[k] => j = k
  BY ElementOfSeq, LenProperties DEF Distinct
<1>2. /\ rest \in Seq(Waiter) /\ Len(rest) = Len(q) - n /\ DOMAIN rest = 1..(Len(q) - n)
      /\ \A j \in 1..(Len(q) - n) : rest[j] = q[n + j]
  <2>1. n + 1 \in 1..(Len(q) + 1)
    BY <1>1
  <2>2. QED
    BY <1>1, <2>1, SubSeqProperties
<1> HIDE DEF rest
<1>3. First(q, n) \subseteq ToSet(q) /\ First(q, n) \subseteq Waiter
  BY <1>1 DEF First, ToSet
<1>4. Distinct(rest)
  <2> SUFFICES ASSUME NEW j \in 1..(Len(q) - n), NEW k \in 1..(Len(q) - n), rest[j] = rest[k]
               PROVE  j = k
    BY <1>2 DEF Distinct
  <2>1. n + j \in 1..Len(q) /\ n + k \in 1..Len(q) /\ q[n + j] = q[n + k]
    BY <1>1, <1>2
  <2>2. n + j = n + k
    BY <1>1, <2>1
  <2>3. QED
    BY <2>2
<1>5. \A y \in ToSet(rest) : \E k \in 1..Len(q) : k > n /\ q[k] = y
  <2> TAKE y \in ToSet(rest)
  <2>1. PICK j \in 1..(Len(q) - n) : rest[j] = y
    BY <1>2 DEF ToSet
  <2>2. n + j \in 1..Len(q) /\ n + j > n /\ q[n + j] = y
    BY <1>1, <1>2, <2>1
  <2>3. QED
    BY <2>2
<1>6. \A y \in First(q, n) : \E j \in 1..Len(q) : j <= n /\ q[j] = y
  BY <1>1 DEF First
<1>7. ToSet(rest) = ToSet(q) \ First(q, n)
  <2>1. ASSUME NEW y \in ToSet(rest)
        PROVE  y \in ToSet(q) \ First(q, n)
    <3>1. PICK k \in 1..Len(q) : k > n /\ q[k] = y
      BY <1>5
    <3>2. y \in ToSet(q)
      BY <1>1, <3>1 DEF ToSet
    <3>3. y \notin First(q, n)
      BY <1>1, <1>6, <3>1
    <3>4. QED
      BY <3>2, <3>3
  <2>2. ASSUME NEW y \in ToSet(q) \ First(q, n)
        PROVE  y \in ToSet(rest)
    <3>1. PICK k \in 1..Len(q) : y = q[k]
      BY <1>1 DEF ToSet
    <3>2. k > n
      BY <1>1, <3>1 DEF First
    <3>3. k - n \in 1..(Len(q) - n) /\ n + (k - n) = k
      BY <1>1, <3>2
    <3>4. rest[k - n] = y
      BY <1>2, <3>1, <3>3
    <3>5. QED
      BY <1>2, <3>3, <3>4 DEF ToSet
  <2>3. QED
    BY <2>1, <2>2
<1>8. ASSUME rest # <<>>
      PROVE  /\ n < Len(q) /\ Head(rest) = q[n + 1]
             /\ q[n + 1] \notin First(q, n)
             /\ First(q, n + 1) = First(q, n) \cup {q[n + 1]}
  <2>1. Len(rest) # 0
    BY <1>2, <1>8, EmptySeq
  <2>2. n < Len(q) /\ 1 \in 1..(Len(q) - n) /\ n + 1 \in 1..Len(q)
    <3>1. Len(q) - n # 0
      BY <1>2, <2>1
    <3>2. Len(q) \in Nat /\ n \in Nat /\ n <= Len(q)
      BY <1>1
    <3>3. QED
      BY <3>1, <3>2
  <2>3. Head(rest) = rest[1] /\ rest[1] = q[n + 1]
    BY <1>2, <1>8, <2>2, HeadTailProperties
  <2>4. q[n + 1] \notin First(q, n)
    BY <1>1, <1>6, <2>2
  <2>5. 1..(n + 1) = (1..n) \cup {n + 1}
    BY <2>2
  <2>6. First(q, n + 1) = First(q, n) \cup {q[n + 1]}
    BY <2>5 DEF First
  <2>7. QED
    BY <2>2, <2>3, <2>4, <2>6
<1>9. ASSUME NEW x \in ToSet(rest), NEW y \in First(q, n)
      PROVE  y \in Before(q, x)
  <2>1. PICK k \in 1..Len(q) : k > n /\ q[k] = x
    BY <1>5
  <2>2. PICK j \in 1..Len(q) : j <= n /\ q[j] = y
    BY <1>6
  <2>3. j < k
    BY <1>1, <2>1, <2>2
  <2>4. QED
    BY <1>1, <1>3, <2>1, <2>2, <2>3 DEF Before
<1>10. QED
  BY <1>2, <1>3, <1>4, <1>7, <1>8, <1>9 DEF rest

-----------------------------------------------------------------------------
(* The semaphore: each call keeps SlotInv, and changes in a known way who  *)
(* waits and who holds.                                                    *)

SlotInv ==
  /\ Queued(waiters, holders)
  /\ SlotsAccounted
  /\ NoneWaitsInVain

\* SlotInv types the variables of the semaphore.
LEMMA SlotInvType ==
  ASSUME SlotInv
  PROVE  cur \in Nat /\ SemTypeOK
BY SlotsOfType DEF SlotInv, SlotsAccounted, Queued, SemTypeOK

\* notifyWaiters grants slots from the front, up to a waiter that does not fit.
LEMMA NotifyLemma ==
  ASSUME NEW inUse, NEW rest, NEW held,
         Queued(rest, held), inUse = SlotsOf(held), inUse <= MaxWorkers,
         Notify(inUse, rest, held)
  PROVE  /\ SlotInv'
         /\ ToSet(waiters') \cup holders' = ToSet(rest) \cup held
         /\ held \subseteq holders'
         /\ \A x \in ToSet(waiters') : holders' \ held \subseteq Before(rest, x)
<1>1. PICK n \in 0..Len(rest) :
        /\ inUse + SlotsOf(First(rest, n)) <= MaxWorkers
        /\ n < Len(rest) => inUse + SlotsOf(First(rest, n + 1)) > MaxWorkers
        /\ cur' = inUse + SlotsOf(First(rest, n))
        /\ waiters' = SubSeq(rest, n + 1, Len(rest))
        /\ holders' = held \cup First(rest, n)
  BY DEF Notify
<1>2. rest \in Seq(Waiter) /\ Distinct(rest) /\ held \subseteq Waiter /\ ToSet(rest) \cap held = {}
  BY DEF Queued
<1>3. /\ First(rest, n) \subseteq ToSet(rest) /\ First(rest, n) \subseteq Waiter
      /\ waiters' \in Seq(Waiter) /\ Distinct(waiters')
      /\ ToSet(waiters') = ToSet(rest) \ First(rest, n)
      /\ waiters' # <<>> => /\ n < Len(rest) /\ Head(waiters') = rest[n + 1]
                            /\ rest[n + 1] \notin First(rest, n)
                            /\ First(rest, n + 1) = First(rest, n) \cup {rest[n + 1]}
      /\ \A x \in ToSet(waiters') : First(rest, n) \subseteq Before(rest, x)
  BY <1>1, <1>2, FirstShape
<1>4. held \cap First(rest, n) = {}
  BY <1>2, <1>3
<1>5. cur' = SlotsOf(holders') /\ cur' <= MaxWorkers
  BY <1>1, <1>4, SlotsOfUnion
<1>6. Queued(waiters', holders')
  BY <1>1, <1>2, <1>3, <1>4 DEF Queued
<1>7. ASSUME waiters' # <<>>
      PROVE  ~(cur' + SlotsOf({Head(waiters')}) <= MaxWorkers)
  <2>1. SlotsOf(First(rest, n + 1)) = SlotsOf(First(rest, n)) + SlotsOf({rest[n + 1]})
    BY <1>3, <1>7, SlotsOfUnion
  <2>2. inUse + SlotsOf(First(rest, n + 1)) > MaxWorkers
    BY <1>1, <1>3, <1>7
  <2>3. inUse \in Nat /\ SlotsOf(First(rest, n)) \in Nat /\ SlotsOf({rest[n + 1]}) \in Nat
    BY SlotsOfType
  <2>4. cur' + SlotsOf({rest[n + 1]}) = inUse + SlotsOf(First(rest, n + 1))
    BY <1>1, <2>1, <2>3
  <2>5. cur' + SlotsOf({rest[n + 1]}) > MaxWorkers /\ cur' + SlotsOf({rest[n + 1]}) \in Nat
    BY <1>1, <2>2, <2>3, <2>4
  <2>6. SlotsOf({Head(waiters')}) = SlotsOf({rest[n + 1]})
    BY <1>3, <1>7
  <2>7. ~(cur' + SlotsOf({rest[n + 1]}) <= MaxWorkers)
    BY <2>5, ListWorksAssumption
  <2>8. QED
    BY <2>6, <2>7
<1>8. SlotInv'
  BY <1>5, <1>6, <1>7 DEF SlotInv, SlotsAccounted, NoneWaitsInVain, Fits
<1>9. QED
  BY <1>1, <1>2, <1>3, <1>8

\* Acquire takes a slot at once only if nobody waits.
LEMMA AcquireLemma ==
  ASSUME SlotInv, NEW x \in Waiter, x \notin ToSet(waiters), x \notin holders, Acquire(x)
  PROVE  /\ SlotInv'
         /\ ToSet(waiters') \cup holders' = (ToSet(waiters) \cup holders) \cup {x}
         /\ ToSet(waiters) \subseteq ToSet(waiters')
         /\ holders \subseteq holders'
         /\ waiters # <<>> => holders' = holders
<1>0. cur \in Nat /\ SlotsOf({x}) \in Nat /\ MaxWorkers \in Nat /\ Queued(waiters, holders)
  BY SlotInvType, SlotsOfType, ListWorksAssumption DEF SlotInv
<1>1. CASE Fits(x) /\ waiters = <<>>
  <2>1. cur' = cur + SlotsOf({x}) /\ holders' = holders \cup {x} /\ waiters' = waiters
    BY <1>1 DEF Acquire
  <2>2. cur' = SlotsOf(holders') /\ cur' <= MaxWorkers
    BY <1>1, <2>1, SlotsOfUnion DEF SlotInv, SlotsAccounted, Fits
  <2>3. Queued(waiters', holders')
    BY <1>0, <2>1 DEF Queued
  <2>4. QED
    BY <1>1, <2>1, <2>2, <2>3 DEF SlotInv, SlotsAccounted, NoneWaitsInVain
<1>2. CASE ~(Fits(x) /\ waiters = <<>>)
  <2>1. waiters' = Append(waiters, x) /\ cur' = cur /\ holders' = holders
    BY <1>2 DEF Acquire
  <2>2. /\ Queued(waiters', holders') /\ ToSet(waiters') = ToSet(waiters) \cup {x}
        /\ waiters' # <<>> /\ Head(waiters') = IF waiters = <<>> THEN x ELSE Head(waiters)
    BY <1>0, <2>1, AppendQueued
  <2>3. NoneWaitsInVain'
    BY <1>2, <2>1, <2>2 DEF SlotInv, NoneWaitsInVain, Fits
  <2>4. QED
    BY <2>1, <2>2, <2>3 DEF SlotInv, SlotsAccounted
<1>3. QED
  BY <1>1, <1>2

\* Release hands the freed slots to the front of the queue.
LEMMA ReleaseLemma ==
  ASSUME SlotInv, NEW x, Release(x)
  PROVE  /\ SlotInv'
         /\ x \in holders
         /\ ToSet(waiters') \cup holders' = (ToSet(waiters) \cup holders) \ {x}
         /\ holders \ {x} \subseteq holders'
         /\ \A y \in ToSet(waiters') : holders' \ holders \subseteq Before(waiters, y)
<1> DEFINE H == holders \ {x}
<1>1. x \in holders /\ Notify(cur - SlotsOf({x}), waiters, H)
  BY DEF Release
<1>2. Queued(waiters, H) /\ ToSet(waiters) \cap holders = {}
  BY DEF SlotInv, Queued
<1>3. SlotsOf(holders) = SlotsOf(H) + SlotsOf({x})
  <2>1. holders = H \cup {x} /\ H \cap {x} = {}
    BY <1>1
  <2>2. QED
    BY <2>1, SlotsOfUnion
<1>4. cur - SlotsOf({x}) = SlotsOf(H) /\ cur - SlotsOf({x}) <= MaxWorkers
  BY <1>3, SlotsOfType, ListWorksAssumption DEF SlotInv, SlotsAccounted
<1> HIDE DEF H
<1>5. /\ SlotInv'
      /\ ToSet(waiters') \cup holders' = ToSet(waiters) \cup H
      /\ H \subseteq holders'
      /\ \A y \in ToSet(waiters') : holders' \ H \subseteq Before(waiters, y)
  BY <1>1, <1>2, <1>4, NotifyLemma
<1>6. QED
  BY <1>1, <1>2, <1>5 DEF H

\* A waiter that gives up lets those behind it through if it was the first.
LEMMA CancelLemma ==
  ASSUME SlotInv, NEW x, Cancel(x)
  PROVE  /\ SlotInv'
         /\ x \in ToSet(waiters) /\ x \notin holders
         /\ ToSet(waiters') \cup holders' = (ToSet(waiters) \cup holders) \ {x}
         /\ holders \subseteq holders'
         /\ \A y \in ToSet(waiters') : holders' \ holders \subseteq Before(waiters, y)
<1>0. Queued(waiters, holders) /\ cur = SlotsOf(holders) /\ cur <= MaxWorkers /\ cur \in Nat
  BY SlotInvType DEF SlotInv, SlotsAccounted
<1>1. PICK i \in DOMAIN waiters :
        /\ waiters[i] = x
        /\ IF i = 1 /\ MaxWorkers > cur
           THEN Notify(cur, RemoveAt(waiters, i), holders)
           ELSE waiters' = RemoveAt(waiters, i) /\ UNCHANGED <<cur, holders>>
  BY DEF Cancel
<1> DEFINE rest == RemoveAt(waiters, i)
<1>2. i \in 1..Len(waiters)
  BY <1>0, <1>1 DEF Queued
<1>3. /\ Queued(rest, holders)
      /\ ToSet(rest) = ToSet(waiters) \ {x}
      /\ x \in ToSet(waiters) /\ x \notin holders
      /\ i # 1 => waiters # <<>> /\ Head(rest) = Head(waiters)
      /\ \A y : Before(rest, y) \subseteq Before(waiters, y)
  BY <1>0, <1>1, <1>2, RemoveAtQueued
<1> HIDE DEF rest
<1>4. CASE i = 1 /\ MaxWorkers > cur
  <2>1. Notify(cur, rest, holders)
    BY <1>1, <1>4 DEF rest
  <2>2. /\ SlotInv'
        /\ ToSet(waiters') \cup holders' = ToSet(rest) \cup holders
        /\ holders \subseteq holders'
        /\ \A y \in ToSet(waiters') : holders' \ holders \subseteq Before(rest, y)
    BY <1>0, <1>3, <2>1, NotifyLemma
  <2>3. QED
    BY <1>3, <2>2
<1>5. CASE ~(i = 1 /\ MaxWorkers > cur)
  <2>1. waiters' = rest /\ cur' = cur /\ holders' = holders
    BY <1>1, <1>5 DEF rest
  <2>2. ASSUME rest # <<>>
        PROVE  ~(cur + SlotsOf({Head(rest)}) <= MaxWorkers)
    <3>1. CASE i # 1
      BY <1>3, <3>1 DEF SlotInv, NoneWaitsInVain, Fits
    <3>2. CASE i = 1
      <4>1. cur = MaxWorkers
        BY <1>0, <1>5, <3>2, ListWorksAssumption
      <4>2. Head(rest) \in Waiter
        BY <1>3, <2>2, HeadTailProperties DEF Queued
      <4>3. SlotsOf({Head(rest)}) \in Nat /\ SlotsOf({Head(rest)}) > 0
        BY <4>2, SlotsOfOne, SlotsOfType, ListWorksAssumption DEF Waiter
      <4>4. QED
        BY <4>1, <4>3, ListWorksAssumption
    <3>3. QED
      BY <3>1, <3>2
  <2>3. SlotInv'
    BY <1>0, <1>3, <2>1, <2>2 DEF SlotInv, SlotsAccounted, NoneWaitsInVain, Fits
  <2>4. QED
    BY <1>3, <2>1, <2>3
<1>6. QED
  BY <1>4, <1>5

-----------------------------------------------------------------------------
(* The inductive invariant.                                                *)

\* Who is in the semaphore, and how far they are there.
Owners ==
  /\ \A c \in Calls :
       /\ c \in ToSet(waiters) => call[c] = "acquiring"
       /\ c \in ToSet(waiters) \cup holders <=> call[c] = "acquiring" \/ worker[c] # "none"
       /\ worker[c] # "none" => call[c] \in {"await", "done", "failed"}
  /\ Stopper \in ToSet(waiters) => stop = "acquiring"
  /\ Stopper \in ToSet(waiters) \cup holders <=> stop \in {"acquiring", "stopped"}

\* What the goroutines of a request have done so far.
Progress ==
  /\ \A r \in Requests : request[r] = "query" =>
       records[r] = "none" /\ \A c \in CallsOf(r) : call[c] = "none" /\ worker[c] = "none"
  /\ \A c \in Calls :
       /\ call[c] = "done" => c \in sent
       /\ call[c] = "failed" => ctx[c[1]] = "done"

LocalTypeOK ==
  /\ request \in [Requests -> {"idle", "query", "running", "ok", "error", "panicked"}]
  /\ ctx \in [Requests -> {"live", "done"}]
  /\ records \in [Requests -> {"none", "asking", "ok", "error"}]
  /\ call \in [Calls -> {"none", "start", "acquiring", "await", "done", "failed"}]
  /\ worker \in [Calls -> {"none", "fetching", "fetched", "leaving"}]
  /\ sent \subseteq Calls
  /\ stop \in {"idle", "acquiring", "stopped", "timedout"}

IInv == LocalTypeOK /\ SlotInv /\ Owners /\ Progress /\ AnswerIsComplete

\* A call belongs to one request.
LEMMA CallShape ==
  \A c \in Calls : /\ c[1] \in Requests /\ c \in Waiter /\ c # Stopper
                   /\ \A r \in Requests : c \in CallsOf(r) <=> c[1] = r
BY StopperIsNoCall DEF Calls, CallsOf, Waiter

\* The calls of a request are calls.
LEMMA CallsOfRequest ==
  \A r \in Requests : CallsOf(r) \subseteq Calls /\ \A c \in CallsOf(r) : c[1] = r
BY DEF Calls, CallsOf

\* The invariant holds at the start, with every slot free.
LEMMA InitIInv == Init => IInv
<1> SUFFICES ASSUME Init PROVE IInv
  OBVIOUS
<1>1. LocalTypeOK
  BY DEF Init, LocalTypeOK
<1>2. waiters = <<>> /\ holders = {} /\ cur = 0 /\ ToSet(waiters) = {}
  BY DEF Init, SemInit, ToSet
<1>3. SlotsOf({}) = 0
  BY FS_EmptySet DEF SlotsOf
<1>4. SlotInv
  BY <1>2, <1>3, ListWorksAssumption
     DEF SlotInv, Queued, Distinct, SlotsAccounted, NoneWaitsInVain
<1>5. Owners
  BY <1>2 DEF Init, Owners
<1>6. Progress
  BY DEF Init, Progress
<1>7. AnswerIsComplete
  BY DEF Init, AnswerIsComplete
<1>8. QED
  BY <1>1, <1>4, <1>5, <1>6, <1>7 DEF IInv

\* A step that does not touch the semaphore keeps what is said of it.
LEMMA SlotStutter ==
  ASSUME SlotInv, UNCHANGED slotVars
  PROVE  SlotInv' /\ ToSet(waiters') = ToSet(waiters) /\ holders' = holders
BY DEF SlotInv, Queued, SlotsAccounted, NoneWaitsInVain, Fits, slotVars

\* A step of the handler that only records how far the request is.
LEMMA FinishStep ==
  ASSUME IInv, NEW r \in Requests, NEW result \in {"ok", "error"}, Finish(r, result),
         request[r] \in {"query", "running"},
         result = "ok" =>
           /\ records[r] \in {"none", "ok"}
           /\ \A c \in CallsOf(r) : call[c] = "none" \/ (call[c] = "done" /\ c \in sent),
         result = "error" => records[r] \in {"none", "error"} \/ ctx[r] = "done"
  PROVE  IInv'
<1>0. LocalTypeOK /\ SlotInv /\ Owners /\ Progress /\ AnswerIsComplete
  BY DEF IInv
<1>1. /\ request' = [request EXCEPT ![r] = result]
      /\ UNCHANGED <<ctx, records, call, worker, sent, stop, cur, waiters, holders>>
  BY DEF Finish, callVars, slotVars
<1>2. LocalTypeOK'
  BY <1>0, <1>1 DEF LocalTypeOK
<1>3. SlotInv'
  BY <1>0, <1>1, SlotStutter DEF slotVars
<1>4. Owners'
  BY <1>0, <1>1 DEF Owners
<1>5. Progress'
  BY <1>0, <1>1 DEF Progress, LocalTypeOK
<1>6. AnswerIsComplete'
  BY <1>0, <1>1 DEF AnswerIsComplete, LocalTypeOK
<1>7. QED
  BY <1>2, <1>3, <1>4, <1>5, <1>6 DEF IInv

\* The steps that only move requests and the listing of records.
LEMMA RequestStep ==
  ASSUME IInv, NEW r \in Requests,
         Arrive(r) \/ ContextDone(r) \/ Handle(r) \/ ListRecordsEnds(r)
  PROVE  IInv'
<1>0. LocalTypeOK /\ SlotInv /\ Owners /\ Progress /\ AnswerIsComplete
  BY DEF IInv
<1> USE CallShape, CallsOfRequest
<1>1. CASE Arrive(r)
  <2>1. LocalTypeOK'
    BY <1>0, <1>1 DEF Arrive, LocalTypeOK
  <2>2. SlotInv' /\ ToSet(waiters') = ToSet(waiters) /\ holders' = holders
    BY <1>0, <1>1, SlotStutter DEF Arrive, slotVars
  <2>3. \A c \in Calls : c[1] = r =>
          worker[c] = "none" /\ call[c] \in {"none", "done", "failed"} /\ call'[c] = "none"
    BY <1>0, <1>1 DEF Arrive, Over, LocalTypeOK
  <2>4. \A c \in Calls : c[1] # r => call'[c] = call[c]
    BY <1>1 DEF Arrive
  <2>5. Owners'
    BY <1>0, <1>1, <2>2, <2>3, <2>4 DEF Arrive, Owners
  <2>6. Progress'
    BY <1>0, <1>1, <2>3, <2>4 DEF Arrive, Progress, LocalTypeOK
  <2>7. AnswerIsComplete'
    BY <1>0, <1>1, <2>3, <2>4 DEF Arrive, AnswerIsComplete, LocalTypeOK
  <2>8. QED
    BY <2>1, <2>2, <2>5, <2>6, <2>7 DEF IInv
<1>2. CASE ContextDone(r)
  <2>1. LocalTypeOK'
    BY <1>0, <1>2 DEF ContextDone, callVars, LocalTypeOK
  <2>2. SlotInv' /\ Owners'
    BY <1>0, <1>2, SlotStutter DEF ContextDone, callVars, slotVars, Owners
  <2>3. Progress'
    BY <1>0, <1>2 DEF ContextDone, callVars, Progress, LocalTypeOK
  <2>4. AnswerIsComplete'
    BY <1>0, <1>2 DEF ContextDone, callVars, AnswerIsComplete, LocalTypeOK
  <2>5. QED
    BY <2>1, <2>2, <2>3, <2>4 DEF IInv
<1>3. CASE QueryFails(r)
  <2>1. request[r] = "query" /\ records[r] = "none" /\ Finish(r, "error")
    BY <1>0, <1>3 DEF QueryFails, Progress
  <2>2. QED
    BY <2>1, FinishStep
<1>4. CASE NothingListed(r)
  <2>1. /\ request[r] = "query" /\ records[r] = "none" /\ Finish(r, "ok")
        /\ \A c \in CallsOf(r) : call[c] = "none"
    BY <1>0, <1>4 DEF NothingListed, Progress
  <2>2. QED
    BY <2>1, FinishStep
<1>5. ASSUME NEW ws \in SUBSET Works, NEW next \in {"running", "panicked"},
             StartGoroutines(r, ws, next)
      PROVE  IInv'
  <2>1. /\ {r} \X ws \subseteq CallsOf(r)
        /\ request[r] = "query"
        /\ request' = [request EXCEPT ![r] = next]
        /\ records' = [records EXCEPT ![r] = "asking"]
        /\ call' = [c \in Calls |-> IF c \in {r} \X ws THEN "start" ELSE call[c]]
        /\ UNCHANGED <<ctx, worker, sent, stop, cur, waiters, holders>>
    BY <1>5 DEF StartGoroutines, slotVars, CallsOf
  <2>2. \A c \in Calls : /\ c[1] = r => call[c] = "none" /\ worker[c] = "none"
                                        /\ call'[c] \in {"none", "start"}
                         /\ c[1] # r => call'[c] = call[c]
    BY <1>0, <2>1 DEF Progress
  <2>3. LocalTypeOK'
    BY <1>0, <2>1 DEF LocalTypeOK
  <2>4. SlotInv' /\ ToSet(waiters') = ToSet(waiters) /\ holders' = holders
    BY <1>0, <2>1, SlotStutter DEF slotVars
  <2>5. Owners'
    BY <1>0, <2>1, <2>2, <2>4 DEF Owners
  <2>6. Progress'
    BY <1>0, <2>1, <2>2 DEF Progress, LocalTypeOK
  <2>7. AnswerIsComplete'
    BY <1>0, <2>1, <2>2 DEF AnswerIsComplete, LocalTypeOK
  <2>8. QED
    BY <2>3, <2>4, <2>5, <2>6, <2>7 DEF IInv
<1>6. CASE PageListed(r)
  BY <1>5, <1>6 DEF PageListed
<1>7. CASE NilPanics(r)
  BY <1>5, <1>7 DEF NilPanics
<1>8. CASE ListRecordsEnds(r)
  <2>1. PICK result \in {"ok", "error"} :
          /\ records[r] = "asking"
          /\ records' = [records EXCEPT ![r] = result]
          /\ UNCHANGED <<request, ctx, call, worker, sent, stop, cur, waiters, holders>>
    BY <1>8 DEF ListRecordsEnds, callVars, slotVars
  <2>2. LocalTypeOK'
    BY <1>0, <2>1 DEF LocalTypeOK
  <2>3. SlotInv' /\ Owners'
    BY <1>0, <2>1, SlotStutter DEF slotVars, Owners
  <2>4. Progress'
    BY <1>0, <2>1 DEF Progress, LocalTypeOK
  <2>5. AnswerIsComplete'
    BY <1>0, <2>1 DEF AnswerIsComplete, LocalTypeOK
  <2>6. QED
    BY <2>2, <2>3, <2>4, <2>5 DEF IInv
<1>9. CASE Wait(r)
  <2>1. /\ request[r] = "running" /\ records[r] \in {"none", "ok", "error"}
        /\ \A c \in CallsOf(r) : call[c] \in {"none", "done", "failed"}
    BY <1>0, <1>9 DEF Wait, GroupEnded, LocalTypeOK
  <2>2. CASE records[r] = "error" \/ \E c \in CallsOf(r) : call[c] = "failed"
    <3>1. Finish(r, "error")
      BY <1>9, <2>2 DEF Wait
    <3>2. records[r] = "error" \/ ctx[r] = "done"
      BY <1>0, <2>2 DEF Progress
    <3>3. QED
      BY <2>1, <3>1, <3>2, FinishStep
  <2>3. CASE ~(records[r] = "error" \/ \E c \in CallsOf(r) : call[c] = "failed")
    <3>1. Finish(r, "ok")
      BY <1>9, <2>3 DEF Wait
    <3>2. \A c \in CallsOf(r) : call[c] = "none" \/ (call[c] = "done" /\ c \in sent)
      BY <1>0, <2>1, <2>3 DEF Progress
    <3>3. QED
      BY <2>1, <2>3, <3>1, <3>2, FinishStep
  <2>4. QED
    BY <2>2, <2>3
<1>10. QED
  BY <1>1, <1>2, <1>3, <1>4, <1>6, <1>7, <1>8, <1>9 DEF Handle

\* The steps that leave the requests alone: an answer that was complete stays so
\* while calls that have not ended go on and channels are filled.
LEMMA AnswerStep ==
  ASSUME IInv, NEW c \in Calls, UNCHANGED requestVars,
         sent \subseteq sent',
         \A d \in Calls : d # c => call'[d] = call[d],
         call'[c] = call[c] \/ call[c] \notin {"none", "done"}
  PROVE  AnswerIsComplete'
<1>1. AnswerIsComplete /\ \A r \in Requests : CallsOf(r) \subseteq Calls
  BY CallsOfRequest DEF IInv
<1>2. QED
  BY <1>1 DEF AnswerIsComplete, requestVars, CallsOf

\* The steps of the goroutine for a work, from process to its channel.
LEMMA CallStep ==
  ASSUME IInv, NEW c \in Calls, Proceed(c)
  PROVE  IInv'
<1>0. LocalTypeOK /\ SlotInv /\ Owners /\ Progress /\ AnswerIsComplete
  BY DEF IInv
<1>a. /\ c[1] \in Requests /\ c \in Waiter /\ c # Stopper
      /\ ToSet(waiters) \cap holders = {}
  BY <1>0, CallShape DEF SlotInv, Queued
<1>1. CASE AcquireSlot(c)
  <2>1. /\ call[c] = "start" /\ call' = [call EXCEPT ![c] = "acquiring"] /\ Acquire(c)
        /\ UNCHANGED <<request, ctx, records, worker, sent, stop>>
    BY <1>1 DEF AcquireSlot, SetCall, requestVars
  <2>2. c \notin ToSet(waiters) \cup holders /\ worker[c] = "none"
    BY <1>0, <2>1 DEF Owners, LocalTypeOK
  <2>3. /\ SlotInv'
        /\ ToSet(waiters') \cup holders' = (ToSet(waiters) \cup holders) \cup {c}
        /\ ToSet(waiters) \subseteq ToSet(waiters') /\ holders \subseteq holders'
    BY <1>0, <1>a, <2>1, <2>2, AcquireLemma
  <2>4. ToSet(waiters') \cap holders' = {}
    BY <2>3 DEF SlotInv, Queued
  <2>5. LocalTypeOK'
    BY <1>0, <2>1 DEF LocalTypeOK
  <2>6. Owners'
    BY <1>0, <1>a, <2>1, <2>2, <2>3, <2>4 DEF Owners, LocalTypeOK
  <2>7. Progress'
    BY <1>0, <2>1, CallsOfRequest DEF Progress, LocalTypeOK
  <2>8. AnswerIsComplete'
    BY <1>0, <2>1, AnswerStep DEF LocalTypeOK, requestVars
  <2>9. QED
    BY <2>3, <2>5, <2>6, <2>7, <2>8 DEF IInv
<1>2. CASE StartWorker(c)
  <2>1. /\ call[c] = "acquiring" /\ c \in holders
        /\ call' = [call EXCEPT ![c] = "await"]
        /\ worker' = [worker EXCEPT ![c] = "fetching"]
        /\ UNCHANGED <<request, ctx, records, sent, stop, cur, waiters, holders>>
    BY <1>2 DEF StartWorker, SetCall, requestVars, slotVars
  <2>2. SlotInv' /\ ToSet(waiters') = ToSet(waiters) /\ holders' = holders
    BY <1>0, <2>1, SlotStutter DEF slotVars
  <2>3. LocalTypeOK'
    BY <1>0, <2>1 DEF LocalTypeOK
  <2>4. Owners'
    BY <1>0, <1>a, <2>1, <2>2 DEF Owners, LocalTypeOK
  <2>5. Progress'
    BY <1>0, <2>1, CallsOfRequest DEF Progress, LocalTypeOK
  <2>6. AnswerIsComplete'
    BY <1>0, <2>1, AnswerStep DEF LocalTypeOK, requestVars
  <2>7. QED
    BY <2>2, <2>3, <2>4, <2>5, <2>6 DEF IInv
<1>3. CASE AcquireFails(c)
  <2>1. /\ call[c] = "acquiring" /\ ctx[c[1]] = "done" /\ Cancel(c)
        /\ call' = [call EXCEPT ![c] = "failed"]
        /\ UNCHANGED <<request, ctx, records, worker, sent, stop>>
    BY <1>3 DEF AcquireFails, SetCall, requestVars
  <2>2. /\ SlotInv'
        /\ ToSet(waiters') \cup holders' = (ToSet(waiters) \cup holders) \ {c}
        /\ holders \subseteq holders'
    BY <1>0, <2>1, CancelLemma
  <2>3. ToSet(waiters') \cap holders' = {}
    BY <2>2 DEF SlotInv, Queued
  <2>4. LocalTypeOK'
    BY <1>0, <2>1 DEF LocalTypeOK
  <2>5. worker[c] = "none"
    BY <1>0, <2>1 DEF Owners
  <2>6. Owners'
    BY <1>0, <1>a, <2>1, <2>2, <2>3, <2>5 DEF Owners, LocalTypeOK
  <2>7. Progress'
    BY <1>0, <2>1, CallsOfRequest DEF Progress, LocalTypeOK
  <2>8. AnswerIsComplete'
    BY <1>0, <2>1, AnswerStep DEF LocalTypeOK, requestVars
  <2>9. QED
    BY <2>2, <2>4, <2>6, <2>7, <2>8 DEF IInv
<1>4. ASSUME call[c] = "await", NEW s \in {"done", "failed"}, SetCall(c, s),
             UNCHANGED <<request, ctx, records, worker, sent, stop, cur, waiters, holders>>,
             s = "done" => c \in sent, s = "failed" => ctx[c[1]] = "done"
      PROVE  IInv'
  <2>1. call' = [call EXCEPT ![c] = s]
    BY <1>4 DEF SetCall
  <2>2. SlotInv' /\ ToSet(waiters') = ToSet(waiters) /\ holders' = holders
    BY <1>0, <1>4, SlotStutter DEF slotVars
  <2>3. LocalTypeOK'
    BY <1>0, <1>4, <2>1 DEF LocalTypeOK
  <2>4. Owners'
    BY <1>0, <1>4, <2>1, <2>2 DEF Owners, LocalTypeOK
  <2>5. Progress'
    BY <1>0, <1>4, <2>1, CallsOfRequest DEF Progress, LocalTypeOK
  <2>6. AnswerIsComplete'
    BY <1>0, <1>4, <2>1, AnswerStep DEF LocalTypeOK, requestVars
  <2>7. QED
    BY <2>2, <2>3, <2>4, <2>5, <2>6 DEF IInv
<1>5. CASE Receive(c)
  BY <1>4, <1>5 DEF Receive, requestVars, slotVars
<1>6. CASE GiveUp(c)
  BY <1>4, <1>6 DEF GiveUp, requestVars, slotVars
<1>7. QED
  BY <1>1, <1>2, <1>3, <1>5, <1>6 DEF Proceed

\* The steps of the worker that fetches an image.
LEMMA WorkStep ==
  ASSUME IInv, NEW c \in Calls, Work(c)
  PROVE  IInv'
<1>0. LocalTypeOK /\ SlotInv /\ Owners /\ Progress /\ AnswerIsComplete
  BY DEF IInv
<1>a. /\ c[1] \in Requests /\ c \in Waiter /\ c # Stopper
      /\ ToSet(waiters) \cap holders = {}
  BY <1>0, CallShape DEF SlotInv, Queued
<1>1. ASSUME worker[c] # "none", NEW s \in {"fetched", "leaving"}, SetWorker(c, s),
             sent \subseteq sent', sent' \subseteq Calls,
             UNCHANGED <<request, ctx, records, call, stop, cur, waiters, holders>>
      PROVE  IInv'
  <2>1. worker' = [worker EXCEPT ![c] = s]
    BY <1>1 DEF SetWorker
  <2>2. SlotInv' /\ ToSet(waiters') = ToSet(waiters) /\ holders' = holders
    BY <1>0, <1>1, SlotStutter DEF slotVars
  <2>3. LocalTypeOK'
    BY <1>0, <1>1, <2>1 DEF LocalTypeOK
  <2>4. Owners'
    BY <1>0, <1>1, <2>1, <2>2 DEF Owners, LocalTypeOK
  <2>5. Progress'
    BY <1>0, <1>1, <2>1, CallsOfRequest DEF Progress, LocalTypeOK
  <2>6. AnswerIsComplete'
    BY <1>1, AnswerStep DEF requestVars
  <2>7. QED
    BY <2>2, <2>3, <2>4, <2>5, <2>6 DEF IInv
<1>2. CASE FetchEnds(c)
  BY <1>0, <1>1, <1>2 DEF FetchEnds, requestVars, slotVars, LocalTypeOK
<1>3. CASE Send(c)
  BY <1>0, <1>1, <1>3 DEF Send, requestVars, slotVars, LocalTypeOK
<1>4. CASE Abandon(c)
  BY <1>0, <1>1, <1>4 DEF Abandon, requestVars, slotVars, LocalTypeOK
<1>5. CASE ReleaseSlot(c)
  <2>1. /\ worker[c] = "leaving" /\ worker' = [worker EXCEPT ![c] = "none"] /\ Release(c)
        /\ UNCHANGED <<request, ctx, records, call, sent, stop>>
    BY <1>5 DEF ReleaseSlot, SetWorker, requestVars
  <2>2. /\ SlotInv'
        /\ ToSet(waiters') \cup holders' = (ToSet(waiters) \cup holders) \ {c}
        /\ holders \ {c} \subseteq holders'
    BY <1>0, <2>1, ReleaseLemma
  <2>3. ToSet(waiters') \cap holders' = {}
    BY <2>2 DEF SlotInv, Queued
  <2>4. ToSet(waiters') \subseteq ToSet(waiters)
    BY <1>a, <2>2, <2>3
  <2>5. LocalTypeOK'
    BY <1>0, <2>1 DEF LocalTypeOK
  <2>6. call[c] \in {"await", "done", "failed"}
    BY <1>0, <2>1 DEF Owners
  <2>7. Owners'
    BY <1>0, <1>a, <2>1, <2>2, <2>3, <2>4, <2>6 DEF Owners, LocalTypeOK
  <2>8. Progress'
    BY <1>0, <2>1, CallsOfRequest DEF Progress, LocalTypeOK
  <2>9. AnswerIsComplete'
    BY <2>1, AnswerStep DEF requestVars
  <2>10. QED
    BY <2>2, <2>5, <2>7, <2>8, <2>9 DEF IInv
<1>6. QED
  BY <1>2, <1>3, <1>4, <1>5 DEF Work

\* The steps of Service.Stop.
LEMMA StopStep ==
  ASSUME IInv, Stop
  PROVE  IInv'
<1>0. LocalTypeOK /\ SlotInv /\ Owners /\ Progress /\ AnswerIsComplete
  BY DEF IInv
<1>a. Stopper \notin Calls /\ Stopper \in Waiter /\ ToSet(waiters) \cap holders = {}
  BY <1>0, StopperIsNoCall DEF SlotInv, Queued, Waiter
<1>b. UNCHANGED <<request, ctx, records, call, worker, sent>>
  BY DEF Stop, StopAcquires, StopReturns, StopTimesOut, requestVars, callVars, slotVars
<1>c. stop' \in {"acquiring", "stopped", "timedout"}
  BY DEF Stop, StopAcquires, StopReturns, StopTimesOut
<1>d. LocalTypeOK' /\ Progress' /\ AnswerIsComplete'
  BY <1>0, <1>b, <1>c DEF LocalTypeOK, Progress, AnswerIsComplete
<1>1. CASE StopAcquires
  <2>1. stop = "idle" /\ stop' = "acquiring" /\ Acquire(Stopper)
    BY <1>1 DEF StopAcquires
  <2>2. Stopper \notin ToSet(waiters) \cup holders
    BY <1>0, <2>1 DEF Owners
  <2>3. /\ SlotInv'
        /\ ToSet(waiters') \cup holders' = (ToSet(waiters) \cup holders) \cup {Stopper}
        /\ ToSet(waiters) \subseteq ToSet(waiters') /\ holders \subseteq holders'
    BY <1>0, <1>a, <2>1, <2>2, AcquireLemma
  <2>4. ToSet(waiters') \cap holders' = {}
    BY <2>3 DEF SlotInv, Queued
  <2>5. Owners'
    BY <1>0, <1>a, <1>b, <2>1, <2>2, <2>3, <2>4 DEF Owners
  <2>6. QED
    BY <1>d, <2>3, <2>5 DEF IInv
<1>2. CASE StopReturns
  <2>1. /\ stop = "acquiring" /\ Stopper \in holders /\ stop' = "stopped"
        /\ UNCHANGED <<cur, waiters, holders>>
    BY <1>2 DEF StopReturns, slotVars
  <2>2. SlotInv' /\ ToSet(waiters') = ToSet(waiters) /\ holders' = holders
    BY <1>0, <2>1, SlotStutter DEF slotVars
  <2>3. Owners'
    BY <1>0, <1>a, <1>b, <2>1, <2>2 DEF Owners
  <2>4. QED
    BY <1>d, <2>2, <2>3 DEF IInv
<1>3. CASE StopTimesOut
  <2>1. stop = "acquiring" /\ Cancel(Stopper) /\ stop' = "timedout"
    BY <1>3 DEF StopTimesOut
  <2>2. /\ SlotInv'
        /\ ToSet(waiters') \cup holders' = (ToSet(waiters) \cup holders) \ {Stopper}
        /\ holders \subseteq holders'
    BY <1>0, <2>1, CancelLemma
  <2>3. ToSet(waiters') \cap holders' = {}
    BY <2>2 DEF SlotInv, Queued
  <2>4. Owners'
    BY <1>0, <1>a, <1>b, <2>1, <2>2, <2>3 DEF Owners
  <2>5. QED
    BY <1>d, <2>2, <2>4 DEF IInv
<1>4. QED
  BY <1>1, <1>2, <1>3 DEF Stop

\* Every step keeps the invariant.
LEMMA NextIInv == IInv /\ [Next]_vars => IInv'
<1> SUFFICES ASSUME IInv, [Next]_vars PROVE IInv'
  OBVIOUS
<1>1. CASE Next
  BY <1>1, RequestStep, CallStep, WorkStep, StopStep DEF Next
<1>2. CASE UNCHANGED vars
  <2>1. UNCHANGED <<request, ctx, records, call, worker, sent, stop, cur, waiters, holders>>
    BY <1>2 DEF vars
  <2>2. LocalTypeOK' /\ Owners' /\ Progress' /\ AnswerIsComplete'
    BY <2>1 DEF IInv, LocalTypeOK, Owners, Progress, AnswerIsComplete
  <2>3. SlotInv'
    BY <2>1, SlotStutter DEF IInv, slotVars
  <2>4. QED
    BY <2>2, <2>3 DEF IInv
<1>3. QED
  BY <1>1, <1>2

\* The strengthening from which the properties follow: who waits, who holds and
\* how far each is fit together, at every step of any number of requests.
THEOREM Invariant == Spec => []IInv
<1>1. QED
  BY InitIInv, NextIInv, PTL DEF Spec

-----------------------------------------------------------------------------
(* The properties that TLC checks on a small instance.                     *)

\* Every variable, the semaphore's included, keeps to its values.
THEOREM TypeCorrect == Spec => []TypeOK
<1>1. IInv => TypeOK
  BY SlotInvType DEF IInv, LocalTypeOK, TypeOK, SemTypeOK
<1>2. QED
  BY <1>1, Invariant, PTL

\* However many requests and works there are, cur counts the held slots and
\* stays within maxWorkers: process and stop never release what they do not hold.
THEOREM SlotsAreAccounted == Spec => []SlotsAccounted
<1>1. IInv => SlotsAccounted
  BY DEF IInv, SlotInv
<1>2. QED
  BY <1>1, Invariant, PTL

\* Whatever becomes of the request, the slot of a call is held by its running
\* worker, or was just granted to a process that is about to start it.
THEOREM SlotsDoNotLeak == Spec => []NoSlotLeaks
<1>1. IInv => NoSlotLeaks
  BY DEF IInv, SlotInv, Queued, Owners, NoSlotLeaks
<1>2. QED
  BY <1>1, Invariant, PTL

\* The first waiter of the semaphore never sleeps beside slots that suffice.
THEOREM WakeUpsAreNotLost == Spec => []NoneWaitsInVain
<1>1. IInv => NoneWaitsInVain
  BY DEF IInv, SlotInv
<1>2. QED
  BY <1>1, Invariant, PTL

\* ListWorks succeeds only with the records and an answer for every image, and
\* fails only through Annict or the client.
THEOREM AnswersAreComplete == Spec => []AnswerIsComplete
<1>1. IInv => AnswerIsComplete
  BY DEF IInv
<1>2. QED
  BY <1>1, Invariant, PTL

\* While stop waits, a slot goes only to a process that was in Acquire before it.
THEOREM ShutdownIsNotOvertaken == Spec => StopIsNotOvertaken
<1> DEFINE Kept == (Stopper \in ToSet(waiters) \cap ToSet(waiters')) =>
                     holders' \ holders \subseteq AheadOf(Stopper)
<1>0. AheadOf(Stopper) = Before(waiters, Stopper)
  BY DEF AheadOf, Before
<1>1. ASSUME IInv, [Next]_vars PROVE Kept
  <2> SUFFICES ASSUME Stopper \in ToSet(waiters), Stopper \in ToSet(waiters')
               PROVE  holders' \ holders \subseteq Before(waiters, Stopper)
    BY <1>0
  <2>0. SlotInv /\ Owners /\ waiters # <<>>
    BY <1>1 DEF IInv, ToSet
  <2>1. CASE UNCHANGED holders
    BY <2>1
  <2>2. ASSUME NEW x \in Waiter, x \notin ToSet(waiters), x \notin holders, Acquire(x)
        PROVE  holders' = holders
    BY <2>0, <2>2, AcquireLemma
  <2>3. ASSUME NEW x, Release(x) \/ Cancel(x)
        PROVE  holders' \ holders \subseteq Before(waiters, Stopper)
    BY <2>0, <2>3, ReleaseLemma, CancelLemma
  <2>4. ASSUME NEW c \in Calls, AcquireSlot(c)
        PROVE  holders' = holders
    <3>1. c \in Waiter /\ c \notin ToSet(waiters) /\ c \notin holders /\ Acquire(c)
      BY <1>1, <2>0, <2>4 DEF AcquireSlot, Owners, Waiter, IInv, LocalTypeOK
    <3>2. QED
      BY <2>2, <3>1
  <2>5. ASSUME StopAcquires
        PROVE  FALSE
    BY <2>0, <2>5 DEF StopAcquires, Owners
  <2>6. ASSUME NEW c \in Calls, Proceed(c) \/ Work(c)
        PROVE  holders' \ holders \subseteq Before(waiters, Stopper)
    BY <2>1, <2>3, <2>4, <2>6
       DEF Proceed, Work, StartWorker, AcquireFails, Receive, GiveUp, FetchEnds, Send,
           Abandon, ReleaseSlot, slotVars
  <2>7. ASSUME NEW r \in Requests, Arrive(r) \/ ContextDone(r) \/ Handle(r) \/ ListRecordsEnds(r)
        PROVE  UNCHANGED holders
    BY <2>7 DEF Arrive, ContextDone, Handle, ListRecordsEnds, QueryFails, NothingListed,
                PageListed, NilPanics, Wait, Finish, StartGoroutines, slotVars
  <2>8. ASSUME Stop
        PROVE  holders' \ holders \subseteq Before(waiters, Stopper)
    BY <2>1, <2>3, <2>5, <2>8 DEF Stop, StopReturns, StopTimesOut, slotVars
  <2>9. QED
    BY <1>1, <2>1, <2>6, <2>7, <2>8 DEF Next, vars
<1>2. QED
  BY <1>1, Invariant, PTL DEF Spec, StopIsNotOvertaken

-----------------------------------------------------------------------------
(* The fetcher implements the bounded pool of WorkerPool.                  *)

Running == {c \in Calls : worker[c] # "none"}

\* Every worker holds a slot, and none does when stop holds them all.
LEMMA RunningHold ==
  ASSUME IInv
  PROVE  /\ Running \subseteq holders \cap Calls
         /\ Cardinality(holders \cap Calls) \in Nat
         /\ Stopper \in holders => holders \cap Calls = {}
         /\ Cardinality(holders \cap Calls) <= MaxWorkers
<1>1. Running \subseteq holders \cap Calls
  BY DEF IInv, Owners, Running
<1>2. IsFiniteSet(holders \cap Calls) /\ Cardinality(holders \cap Calls) \in Nat
  BY CallsFinite, FS_Intersection, FS_CardinalityType
<1>3. /\ SlotsOf(holders) <= MaxWorkers /\ MaxWorkers \in Nat
      /\ SlotsOf(holders) = Cardinality(holders \cap Calls)
                            + (IF Stopper \in holders THEN MaxWorkers ELSE 0)
  BY ListWorksAssumption DEF IInv, SlotInv, SlotsAccounted, SlotsOf
<1>4. ASSUME Stopper \in holders PROVE holders \cap Calls = {}
  <2>1. Cardinality(holders \cap Calls) = 0
    BY <1>2, <1>3, <1>4
  <2>2. QED
    BY <1>2, <2>1, FS_EmptySet
<1>5. QED
  BY <1>1, <1>2, <1>3, <1>4

\* The abstract pool counts as the fetcher does.
LEMMA PoolCardinality ==
  \A S : Pool!Cardinality(S) = Cardinality(S)
BY DEF Pool!Cardinality, Cardinality

\* At most maxWorkers workers fetch at a time, and none is running or begins
\* once stop has returned nil.
THEOREM ImplementsWorkerPool == Spec => PoolSpec
<1>1. ASSUME Init PROVE Pool!Init
  BY <1>1 DEF Init, Pool!Init
<1>2. ASSUME IInv, [Next]_vars PROVE [Pool!Next]_(Pool!poolVars)
  <2>0. /\ worker \in [Calls -> {"none", "fetching", "fetched", "leaving"}]
        /\ stop = "stopped" => Stopper \in holders
        /\ Stopper \in holders => Running = {}
    <3>1. stop = "stopped" => Stopper \in holders
      BY <1>2 DEF IInv, Owners
    <3>2. QED
      BY <1>2, <3>1, RunningHold DEF IInv, LocalTypeOK
  <2>1. ASSUME Running' = Running, stop' = stop
        PROVE  [Pool!Next]_(Pool!poolVars)
    BY <2>1 DEF Running, Pool!poolVars
  <2>2. ASSUME UNCHANGED <<worker, stop>>
        PROVE  [Pool!Next]_(Pool!poolVars)
    BY <2>1, <2>2 DEF Running
  <2>3. ASSUME NEW c \in Calls, StartWorker(c)
        PROVE  [Pool!Next]_(Pool!poolVars)
    <3>1. /\ c \in holders /\ call[c] = "acquiring" /\ UNCHANGED stop
          /\ worker' = [worker EXCEPT ![c] = "fetching"]
      BY <2>3 DEF StartWorker
    <3>2. c \notin Running /\ c \in holders \cap Calls
      BY <1>2, <3>1 DEF IInv, Owners, Running
    <3>3. Cardinality(Running) < MaxWorkers
      <4>1. IsFiniteSet(holders \cap Calls) /\ holders \cap Calls # Running
        BY <3>2, CallsFinite, FS_Intersection
      <4>2. Cardinality(Running) < Cardinality(holders \cap Calls) /\ Cardinality(Running) \in Nat
        BY <1>2, <4>1, RunningHold, FS_Subset, FS_CardinalityType
      <4>3. QED
        BY <1>2, <4>2, RunningHold, ListWorksAssumption
    <3>4. Running' = Running \cup {c}
      BY <2>0, <3>1 DEF Running
    <3>5. stop # "stopped"
      BY <1>2, <2>0, <3>2, RunningHold
    <3>6. Pool!Begin(c)
      <4>1. /\ ~(stop = "stopped") /\ (stop' = "stopped") = (stop = "stopped")
            /\ Cardinality({d \in Calls : worker[d] # "none"}) < MaxWorkers
            /\ c \notin {d \in Calls : worker[d] # "none"}
        BY <3>1, <3>2, <3>3, <3>5 DEF Running
      <4>2. {d \in Calls : worker'[d] # "none"} = {d \in Calls : worker[d] # "none"} \cup {c}
        BY <3>4 DEF Running
      <4>3. QED
        BY <4>1, <4>2, PoolCardinality DEF Pool!Begin
    <3>7. QED
      BY <3>6 DEF Pool!Next
  <2>4. ASSUME NEW c \in Calls, ReleaseSlot(c)
        PROVE  [Pool!Next]_(Pool!poolVars)
    <3>1. worker[c] = "leaving" /\ worker' = [worker EXCEPT ![c] = "none"] /\ UNCHANGED stop
      BY <2>4 DEF ReleaseSlot, SetWorker
    <3>2. c \in Running /\ Running' = Running \ {c}
      BY <2>0, <3>1 DEF Running
    <3>3. Pool!End(c)
      BY <3>1, <3>2 DEF Pool!End, Running
    <3>4. QED
      BY <3>3 DEF Pool!Next
  <2>5. ASSUME NEW c \in Calls, FetchEnds(c) \/ Send(c) \/ Abandon(c)
        PROVE  [Pool!Next]_(Pool!poolVars)
    <3>1. /\ worker[c] # "none" /\ UNCHANGED stop
          /\ \E s \in {"fetched", "leaving"} : worker' = [worker EXCEPT ![c] = s]
      BY <2>5 DEF FetchEnds, Send, Abandon, SetWorker
    <3>2. Running' = Running
      BY <2>0, <3>1 DEF Running
    <3>3. QED
      BY <2>1, <3>1, <3>2
  <2>6. ASSUME NEW c \in Calls, Proceed(c) \/ Work(c)
        PROVE  [Pool!Next]_(Pool!poolVars)
    <3>1. CASE AcquireSlot(c) \/ AcquireFails(c) \/ Receive(c) \/ GiveUp(c)
      BY <2>2, <3>1 DEF AcquireSlot, AcquireFails, Receive, GiveUp
    <3>2. QED
      BY <2>3, <2>4, <2>5, <2>6, <3>1 DEF Proceed, Work
  <2>7. ASSUME NEW r \in Requests, Arrive(r) \/ ContextDone(r) \/ Handle(r) \/ ListRecordsEnds(r)
        PROVE  UNCHANGED <<worker, stop>>
    BY <2>7 DEF Arrive, ContextDone, Handle, ListRecordsEnds, QueryFails, NothingListed,
                PageListed, NilPanics, Wait, Finish, StartGoroutines, callVars
  <2>8. CASE StopReturns
    <3>1. Stopper \in holders /\ stop' = "stopped" /\ UNCHANGED worker
      BY <2>8 DEF StopReturns, callVars
    <3>2. Running = {} /\ Running' = Running
      BY <2>0, <3>1 DEF Running
    <3>3. Pool!Drained
      BY <3>1, <3>2 DEF Pool!Drained, Running
    <3>4. QED
      BY <3>3 DEF Pool!Next
  <2>9. CASE StopAcquires \/ StopTimesOut
    <3>1. stop # "stopped" /\ stop' # "stopped" /\ UNCHANGED worker
      BY <2>9 DEF StopAcquires, StopTimesOut, callVars
    <3>2. UNCHANGED Pool!poolVars
      BY <3>1 DEF Pool!poolVars
    <3>3. QED
      BY <3>2
  <2>10. CASE UNCHANGED vars
    BY <2>2, <2>10 DEF vars
  <2>11. QED
    BY <1>2, <2>2, <2>6, <2>7, <2>8, <2>9, <2>10 DEF Next, Stop
<1>3. QED
  BY <1>1, <1>2, Invariant, PTL DEF Spec, PoolSpec, Pool!Spec
=============================================================================
