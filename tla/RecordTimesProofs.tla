-------------------------- MODULE RecordTimesProofs --------------------------
(***************************************************************************)
(* What the loop of listRecords computes, for every log and every order of *)
(* its records, and what the sort makes of it.  The loop is a recursive    *)
(* function; facts about it are proved by induction over sets of indices.  *)
(***************************************************************************)
EXTENDS RecordTimes, FunctionTheorems, WellFoundedInduction, TLAPS

\* Every set of natural numbers that is not empty has a least element.
LEMMA LeastNumber ==
  ASSUME NEW T, T \subseteq Nat, T # {}
  PROVE  \E n \in T : \A m \in T : n <= m
<1>1. IsWellFoundedOn(OpToRel(<, Nat), Nat)
  BY NatLessThanWellFounded
<1>2. PICK n \in T : \A m \in T : ~ (<<m, n>> \in OpToRel(<, Nat))
  BY <1>1, WFMin
<1>3. \A m \in T : ~(m < n)
  BY <1>2 DEF OpToRel
<1>4. QED
  BY <1>3

\* Induction up to n, for a set of indices.
LEMMA IndexInduction ==
  ASSUME NEW n \in Nat, NEW S, 0 \in S, \A i \in 1..n : i - 1 \in S => i \in S
  PROVE  n \in S
<1> DEFINE T == {i \in 0..n : i \notin S}
<1>1. SUFFICES ASSUME T # {} PROVE FALSE
  OBVIOUS
<1>2. PICK i \in T : \A j \in T : i <= j
  <2>1. T \subseteq Nat
    OBVIOUS
  <2> HIDE DEF T
  <2>2. QED
    BY <1>1, <2>1, LeastNumber
<1>3. i \in 1..n /\ i - 1 \in 0..n /\ i - 1 \in S
  BY <1>2
<1>4. QED
  BY <1>2, <1>3

-----------------------------------------------------------------------------
(* The loop.                                                               *)

Titles == {Title[w] : w \in Works}
TimesUpTo(n) == [begin : 0..n, finish : 0..n]

LEMMA RecordFields ==
  ASSUME NEW r \in Record
  PROVE  /\ r.work \in Works /\ r.episode \in Episodes(r.work)
         /\ r = [work |-> r.work, episode |-> r.episode]
         /\ Title[r.work] \in Titles
BY DEF Record, Titles

\* The title of the i-th record in the order o, and whether it finishes its work.
TitleAt(log, o, i) == Title[log[o[i]].work]
LastAt(log, o, i) == log[o[i]].episode = EpisodeCount[log[o[i]].work]

\* What the first k records make of the times of title t: they begin with the
\* first record of that title and finish with the latest one of a last episode.
TimesAfter(log, o, k, t, times) ==
  \/ /\ \A i \in 1..k : TitleAt(log, o, i) # t
     /\ times = NoTimes
  \/ \E i \in 1..k :
       /\ TitleAt(log, o, i) = t /\ \A j \in 1..i - 1 : TitleAt(log, o, j) # t
       /\ times.begin = o[i]
       /\ \/ /\ \A j \in i + 1..k : ~(TitleAt(log, o, j) = t /\ LastAt(log, o, j))
             /\ times.finish = NoTime
          \/ \E j \in i + 1..k :
               /\ TitleAt(log, o, j) = t /\ LastAt(log, o, j)
               /\ \A l \in j + 1..k : ~(TitleAt(log, o, l) = t /\ LastAt(log, o, l))
               /\ times.finish = o[j]

\* One turn of the loop changes the times of the record's title.
LEMMA MeetChanges ==
  ASSUME NEW n \in Nat, NEW m \in [Titles -> TimesUpTo(n)], NEW r \in Record, NEW p \in 1..n
  PROVE  LET t == Title[r.work]
             x == IF m[t] = NoTimes THEN [begin |-> p, finish |-> m[t].finish]
                  ELSE IF r.episode = EpisodeCount[r.work] THEN [begin |-> m[t].begin, finish |-> p]
                  ELSE m[t]
         IN  /\ Meet(m, r, p) = [m EXCEPT ![t] = x]
             /\ x \in TimesUpTo(n)
<1> DEFINE t == Title[r.work]
<1>1. t \in Titles
  BY RecordFields
<1>2. m[t] \in TimesUpTo(n)
  BY <1>1
<1>3. /\ m[t].begin \in 0..n /\ m[t].finish \in 0..n /\ p \in 0..n
      /\ [m[t] EXCEPT !.begin = p] = [begin |-> p, finish |-> m[t].finish]
      /\ [m[t] EXCEPT !.finish = p] = [begin |-> m[t].begin, finish |-> p]
  BY <1>2 DEF TimesUpTo
<1>4. m = [m EXCEPT ![t] = m[t]]
  BY <1>1
<1> HIDE DEF t
<1>5. QED
  BY <1>2, <1>3, <1>4 DEF Meet, TimesUpTo, t

\* Records of other titles, and all but those of last episodes once a title has
\* times, leave what TimesAfter says as it is.
LEMMA OtherRecordsChangeNothing ==
  ASSUME NEW log, NEW o, NEW k \in Nat \ {0}, NEW t, NEW x, TimesAfter(log, o, k - 1, t, x),
         TitleAt(log, o, k) # t \/ (x # NoTimes /\ ~LastAt(log, o, k))
  PROVE  TimesAfter(log, o, k, t, x)
<1>1. CASE x = NoTimes /\ \A i \in 1..k - 1 : TitleAt(log, o, i) # t
  <2>1. \A i \in 1..k : TitleAt(log, o, i) # t
    BY <1>1
  <2>2. QED
    BY <1>1, <2>1 DEF TimesAfter
<1>2. ASSUME NEW i \in 1..k - 1,
             TitleAt(log, o, i) = t, \A j \in 1..i - 1 : TitleAt(log, o, j) # t,
             x.begin = o[i]
      PROVE  (/\ \A j \in i + 1..k - 1 : ~(TitleAt(log, o, j) = t /\ LastAt(log, o, j))
              /\ x.finish = NoTime) => TimesAfter(log, o, k, t, x)
  <2>1. SUFFICES ASSUME \A j \in i + 1..k - 1 : ~(TitleAt(log, o, j) = t /\ LastAt(log, o, j)),
                        x.finish = NoTime
                 PROVE  TimesAfter(log, o, k, t, x)
    OBVIOUS
  <2>2. i \in 1..k /\ \A j \in i + 1..k : ~(TitleAt(log, o, j) = t /\ LastAt(log, o, j))
    BY <2>1
  <2>3. QED
    BY <1>2, <2>1, <2>2 DEF TimesAfter
<1>3. ASSUME NEW i \in 1..k - 1,
             TitleAt(log, o, i) = t, \A j \in 1..i - 1 : TitleAt(log, o, j) # t,
             x.begin = o[i],
             NEW j \in i + 1..k - 1, TitleAt(log, o, j) = t, LastAt(log, o, j),
             \A l \in j + 1..k - 1 : ~(TitleAt(log, o, l) = t /\ LastAt(log, o, l)),
             x.finish = o[j]
      PROVE  TimesAfter(log, o, k, t, x)
  <2>1. /\ i \in 1..k /\ j \in i + 1..k
        /\ \A l \in j + 1..k : ~(TitleAt(log, o, l) = t /\ LastAt(log, o, l))
    BY <1>3
  <2>2. QED
    BY <1>3, <2>1 DEF TimesAfter
<1>4. QED
  BY <1>1, <1>2, <1>3 DEF TimesAfter

\* One turn of the loop.
LEMMA MeetKeepsTimes ==
  ASSUME NEW log \in Seq(Record), NEW o \in [DOMAIN log -> DOMAIN log], NEW k \in 1..Len(log),
         NEW m \in [Titles -> TimesUpTo(Len(log))],
         \A t \in Titles : TimesAfter(log, o, k - 1, t, m[t])
  PROVE  LET mm == Meet(m, log[o[k]], o[k]) IN
         /\ mm \in [Titles -> TimesUpTo(Len(log))]
         /\ \A t \in Titles : TimesAfter(log, o, k, t, mm[t])
<1> DEFINE r == log[o[k]]
           mm == Meet(m, r, o[k])
<1>1. /\ Len(log) \in Nat /\ o[k] \in 1..Len(log) /\ r \in Record
      /\ Title[r.work] \in Titles /\ TitleAt(log, o, k) = Title[r.work]
  BY RecordFields, SMTT(30) DEF TitleAt
<1> DEFINE u == Title[r.work]
           x == IF m[u] = NoTimes THEN [begin |-> o[k], finish |-> m[u].finish]
                ELSE IF r.episode = EpisodeCount[r.work] THEN [begin |-> m[u].begin, finish |-> o[k]]
                ELSE m[u]
<1>a. mm = [m EXCEPT ![u] = x] /\ x \in TimesUpTo(Len(log))
  BY <1>1, MeetChanges
<1>b. \A t \in Titles : mm[t] = IF t = u THEN x ELSE m[t]
  BY <1>a
<1>2. mm \in [Titles -> TimesUpTo(Len(log))]
  BY <1>a
<1> HIDE DEF mm
<1>3. ASSUME NEW t \in Titles
      PROVE  TimesAfter(log, o, k, t, mm[t])
  <2>0. TimesAfter(log, o, k - 1, t, m[t]) /\ m[t] \in TimesUpTo(Len(log))
    OBVIOUS
  <2>1. CASE t # Title[r.work]
    <3>1. mm[t] = m[t] /\ TitleAt(log, o, k) # t
      BY <1>1, <1>b, <2>1
    <3>2. QED
      BY <2>0, <3>1, OtherRecordsChangeNothing
  <2>2. CASE t = Title[r.work] /\ m[t] = NoTimes
    <3>1. mm[t].begin = o[k] /\ mm[t].finish = NoTime
      BY <1>b, <2>2 DEF NoTimes
    <3>2. \A i \in 1..k - 1 : TitleAt(log, o, i) # t
      BY <1>1, <2>0, <2>2, SMTT(30) DEF TimesAfter, NoTimes, NoTime
    <3>3. QED
      BY <1>1, <2>2, <3>1, <3>2 DEF TimesAfter
  <2>3. CASE t = Title[r.work] /\ m[t] # NoTimes
    <3>1. PICK i \in 1..k - 1 :
            /\ TitleAt(log, o, i) = t /\ \A j \in 1..i - 1 : TitleAt(log, o, j) # t
            /\ m[t].begin = o[i]
            /\ \/ /\ \A j \in i + 1..k - 1 : ~(TitleAt(log, o, j) = t /\ LastAt(log, o, j))
                  /\ m[t].finish = NoTime
               \/ \E j \in i + 1..k - 1 :
                    /\ TitleAt(log, o, j) = t /\ LastAt(log, o, j)
                    /\ \A l \in j + 1..k - 1 : ~(TitleAt(log, o, l) = t /\ LastAt(log, o, l))
                    /\ m[t].finish = o[j]
      BY <2>0, <2>3, ZenonT(40) DEF TimesAfter
    <3>2. CASE LastAt(log, o, k)
      <4>0. mm[t] = [begin |-> m[t].begin, finish |-> o[k]]
        BY <1>b, <2>3, <3>2 DEF LastAt
      <4>1. mm[t].begin = o[i] /\ mm[t].finish = o[k]
        BY <3>1, <4>0
      <4>2. i \in 1..k /\ k \in i + 1..k /\ \A l \in k + 1..k : FALSE
        OBVIOUS
      <4>3. QED
        BY <1>1, <2>3, <3>1, <3>2, <4>1, <4>2 DEF TimesAfter
    <3>3. CASE ~LastAt(log, o, k)
      <4>1. mm[t] = m[t]
        BY <1>b, <2>3, <3>3 DEF LastAt
      <4>2. QED
        BY <2>0, <2>3, <3>3, <4>1, OtherRecordsChangeNothing
    <3>4. QED
      BY <3>2, <3>3
  <2>4. QED
    BY <2>1, <2>2, <2>3
<1>4. QED
  BY <1>2, <1>3 DEF mm

\* The function by which the loop is written exists.
LEMMA LoopExists ==
  ASSUME NEW log \in Seq(Record), NEW o
  PROVE  \E after : after = [i \in 0..Len(log) |->
           IF i = 0 THEN [t \in {Title[w] : w \in Works} |-> NoTimes]
           ELSE Meet(after[i - 1], log[o[i]], o[i])]
<1> DEFINE n == Len(log)
           first == [t \in {Title[w] : w \in Works} |-> NoTimes]
           IsLoop(f, k) ==
             f = [i \in 0..k |-> IF i = 0 THEN first ELSE Meet(f[i - 1], log[o[i]], o[i])]
           S == {k \in 0..n : \E f : IsLoop(f, k)}
<1>0. n \in Nat
  OBVIOUS
<1> HIDE DEF first, n, IsLoop
<1>1. 0 \in S
  <2> DEFINE f == [i \in 0..0 |-> first]
  <2>1. IsLoop(f, 0)
    BY DEF IsLoop
  <2> HIDE DEF f
  <2>2. QED
    BY <1>0, <2>1
<1>2. ASSUME NEW k \in 1..n, k - 1 \in S
      PROVE  k \in S
  <2>1. PICK f : IsLoop(f, k - 1)
    BY <1>0, <1>2
  <2> DEFINE g == [i \in 0..k |-> IF i = k THEN Meet(f[k - 1], log[o[k]], o[k]) ELSE f[i]]
  <2>2. ASSUME NEW i \in 0..k
        PROVE  g[i] = IF i = 0 THEN first ELSE Meet(g[i - 1], log[o[i]], o[i])
    <3>1. CASE i = k
      <4>1. k - 1 \in 0..k /\ k - 1 # k /\ k # 0
        BY <1>0
      <4>2. QED
        BY <3>1, <4>1
    <3>2. CASE i # k
      <4>1. /\ i \in 0..k - 1 /\ g[i] = f[i]
            /\ i # 0 => i - 1 \in 0..k /\ i - 1 # k /\ g[i - 1] = f[i - 1]
        BY <3>2
      <4>2. QED
        BY <2>1, <4>1 DEF IsLoop
    <3>3. QED
      BY <3>1, <3>2
  <2>3. IsLoop(g, k)
    BY <2>2 DEF IsLoop
  <2> HIDE DEF g
  <2>4. QED
    BY <1>0, <2>3
<1>3. n \in S
  <2> HIDE DEF S
  <2>1. QED
    BY <1>0, <1>1, <1>2, IndexInduction
<1>4. QED
  BY <1>3 DEF first, n, IsLoop

\* The loop as a function of the number of turns, and what it returns.
LEMMA Loop ==
  ASSUME NEW log \in Seq(Record), NEW o
  PROVE  \E after :
           /\ after[0] = [t \in Titles |-> NoTimes]
           /\ \A i \in 1..Len(log) : after[i] = Meet(after[i - 1], log[o[i]], o[i])
           /\ TimesIn(log, o) = after[Len(log)]
<1> DEFINE after[i \in 0..Len(log)] ==
             IF i = 0 THEN [t \in {Title[w] : w \in Works} |-> NoTimes]
             ELSE Meet(after[i - 1], log[o[i]], o[i])
<1>0. Len(log) \in Nat
  OBVIOUS
<1>a. \E f : f = [i \in 0..Len(log) |->
                 IF i = 0 THEN [t \in {Title[w] : w \in Works} |-> NoTimes]
                 ELSE Meet(f[i - 1], log[o[i]], o[i])]
  BY LoopExists, Zenon
<1>1. after = [i \in 0..Len(log) |->
                 IF i = 0 THEN [t \in {Title[w] : w \in Works} |-> NoTimes]
                 ELSE Meet(after[i - 1], log[o[i]], o[i])]
  BY <1>a, Zenon
<1>2. TimesIn(log, o) = after[Len(log)]
  BY DEF TimesIn
<1> HIDE DEF after
<1>3. after[0] = [t \in Titles |-> NoTimes]
  <2> DEFINE first == [t \in {Title[w] : w \in Works} |-> NoTimes]
             other == Meet(after[0 - 1], log[o[0]], o[0])
  <2>1. 0 \in 0..Len(log)
    BY <1>0
  <2>2. after[0] = IF 0 = 0 THEN first ELSE other
    BY <1>1, <2>1, Zenon
  <2>3. first = [t \in Titles |-> NoTimes]
    BY DEF Titles
  <2> HIDE DEF first, other
  <2>4. QED
    BY <2>2, <2>3
<1>4. ASSUME NEW i \in 1..Len(log)
      PROVE  after[i] = Meet(after[i - 1], log[o[i]], o[i])
  <2>1. i \in 0..Len(log) /\ i # 0
    BY <1>0
  <2>2. QED
    BY <1>1, <2>1, Zenon
<1>5. QED
  BY <1>2, <1>3, <1>4

\* For every log and every order of its records, the loop returns for each title
\* the time of the first record met and that of the latest last episode after it.
THEOREM LoopFindsFirstAndLast ==
  ASSUME NEW log \in Seq(Record), NEW o \in [DOMAIN log -> DOMAIN log]
  PROVE  /\ TimesIn(log, o) \in [Titles -> TimesUpTo(Len(log))]
         /\ \A t \in Titles : TimesAfter(log, o, Len(log), t, TimesIn(log, o)[t])
<1>1. PICK after :
        /\ after[0] = [t \in Titles |-> NoTimes]
        /\ \A i \in 1..Len(log) : after[i] = Meet(after[i - 1], log[o[i]], o[i])
        /\ TimesIn(log, o) = after[Len(log)]
  BY Loop
<1> DEFINE S == {k \in 0..Len(log) :
                   /\ after[k] \in [Titles -> TimesUpTo(Len(log))]
                   /\ \A t \in Titles : TimesAfter(log, o, k, t, after[k][t])}
<1>2. Len(log) \in Nat
  OBVIOUS
<1>3. 0 \in S
  <2>1. NoTimes \in TimesUpTo(Len(log))
    BY <1>2 DEF NoTimes, NoTime, TimesUpTo
  <2>2. QED
    BY <1>1, <1>2, <2>1 DEF TimesAfter
<1>4. ASSUME NEW k \in 1..Len(log), k - 1 \in S
      PROVE  k \in S
  <2>1. after[k] = Meet(after[k - 1], log[o[k]], o[k])
    BY <1>1
  <2>2. QED
    BY <1>4, <2>1, MeetKeepsTimes
<1>5. Len(log) \in S
  <2> HIDE DEF S
  <2>1. QED
    BY <1>2, <1>3, <1>4, IndexInduction
<1>6. QED
  BY <1>1, <1>5
-----------------------------------------------------------------------------
(* The sort.                                                               *)

\* Sort numbers grow along the episodes of a work.
SortNumbersIncrease ==
  \A w \in Works : \A e \in Episodes(w) : e > 1 => SortNumber[w][e - 1] < SortNumber[w][e]

\* A record follows one of the episode before.
Follows(log, i) ==
  log[i].episode > 1 =>
    \E j \in 1..i - 1 : log[j] = [work |-> log[i].work, episode |-> log[i].episode - 1]

\* An order is a permutation of the positions: none comes twice.
LEMMA OrdersPermute ==
  ASSUME NEW log \in Seq(Record), NEW o \in Orders(log)
  PROVE  /\ o \in [DOMAIN log -> DOMAIN log]
         /\ \A p \in DOMAIN log : \E i \in DOMAIN log : o[i] = p
         /\ \A i, j \in DOMAIN log : i # j => o[i] # o[j]
<1>1. o \in Bijection(DOMAIN log, DOMAIN log)
  BY DEF Orders
<1>2. QED
  BY <1>1, Fun_BijectionProperties

\* In an order, the record of an episode comes after one of the episode before.
LEMMA OrdersFollow ==
  ASSUME SortNumbersIncrease,
         NEW log \in Seq(Record), \A i \in DOMAIN log : Follows(log, i),
         NEW o \in Orders(log), NEW k \in DOMAIN log, log[o[k]].episode > 1
  PROVE  \E j \in 1..k - 1 : log[o[j]].work = log[o[k]].work
<1> DEFINE r == log[o[k]]
<1>1. Len(log) \in Nat /\ DOMAIN log = 1..Len(log) /\ o[k] \in DOMAIN log /\ r \in Record
  BY OrdersPermute
<1>2. PICK p \in DOMAIN log : log[p] = [work |-> r.work, episode |-> r.episode - 1]
  BY <1>1 DEF Follows
<1>3. PICK j \in DOMAIN log : o[j] = p
  BY OrdersPermute
<1>4. Key(log[p]) < Key(r) /\ Key(log[p]) \in Int /\ Key(r) \in Int
  <2>1. r.work \in Works /\ r.episode \in Episodes(r.work) /\ r.episode - 1 \in Episodes(r.work)
    <3>1. r.work \in Works /\ r.episode \in Episodes(r.work)
      BY <1>1, RecordFields
    <3>2. EpisodeCount[r.work] \in Nat
      BY <3>1, TimesAssumption
    <3>3. QED
      BY <3>1, <3>2 DEF Episodes
  <2>2. SortNumber[r.work] \in [Episodes(r.work) -> Int]
    BY <2>1, TimesAssumption
  <2>3. QED
    BY <1>2, <2>1, <2>2 DEF Key, SortNumbersIncrease
<1>5. ~(k <= j)
  <2>1. CASE k = j
    BY <1>3, <1>4, <2>1
  <2>2. CASE k < j
    BY <1>3, <1>4, <2>2 DEF Orders
  <2>3. QED
    BY <1>1, <2>1, <2>2
<1>6. j \in 1..k - 1
  BY <1>1, <1>5
<1>7. QED
  BY <1>2, <1>3, <1>6

\* What a listing says of the times of work w, if every record follows one of the
\* episode before: they are those of a first and, in another record, of a last
\* episode among the works of one title, and a last episode that is not also a
\* first one is not overlooked.
THEOREM ListedTimesAreTrue ==
  ASSUME SortNumbersIncrease,
         NEW log \in Seq(Record), \A i \in DOMAIN log : Follows(log, i),
         NEW m \in ListedTimes(log), NEW w \in Works
  PROVE  LET x == m[Title[w]]
             same == {v \in Works : Title[v] = Title[w]}
         IN
         /\ x \in TimesUpTo(Len(log))
         /\ x.begin # NoTime => \E v \in same : log[x.begin] = [work |-> v, episode |-> 1]
         /\ x.finish # NoTime =>
              /\ x.begin # NoTime /\ x.begin # x.finish
              /\ \E v \in same : log[x.finish] = [work |-> v, episode |-> EpisodeCount[v]]
         /\ \A p \in DOMAIN log :
              EpisodeCount[w] > 1 /\ log[p] = [work |-> w, episode |-> EpisodeCount[w]] =>
                x.finish # NoTime
<1> DEFINE t == Title[w]
           x == m[t]
           same == {v \in Works : Title[v] = t}
<1>0. Len(log) \in Nat /\ DOMAIN log = 1..Len(log)
  OBVIOUS
<1>1. PICK o \in Orders(log) : m = TimesIn(log, o)
  BY DEF ListedTimes
<1>2. /\ o \in [DOMAIN log -> DOMAIN log]
      /\ \A p \in DOMAIN log : \E i \in DOMAIN log : o[i] = p
      /\ \A i, j \in DOMAIN log : i # j => o[i] # o[j]
  BY OrdersPermute
<1>3. t \in Titles
  BY DEF Titles
<1>4. x \in TimesUpTo(Len(log)) /\ TimesAfter(log, o, Len(log), t, x)
  BY <1>1, <1>2, <1>3, LoopFindsFirstAndLast
<1> HIDE DEF x
<1>5. CASE x = NoTimes /\ \A i \in 1..Len(log) : TitleAt(log, o, i) # t
  <2>1. x.begin = NoTime /\ x.finish = NoTime
    BY <1>5 DEF NoTimes
  <2>2. ASSUME NEW p \in DOMAIN log PROVE log[p].work # w
    BY <1>0, <1>2, <1>5 DEF TitleAt
  <2>3. QED
    BY <1>4, <2>1, <2>2 DEF x
<1>6. ASSUME NEW i \in 1..Len(log),
             TitleAt(log, o, i) = t, \A j \in 1..i - 1 : TitleAt(log, o, j) # t,
             x.begin = o[i]
      PROVE  /\ x.begin # NoTime
             /\ \E v \in same : log[x.begin] = [work |-> v, episode |-> 1]
  <2>1. o[i] \in 1..Len(log) /\ log[o[i]] \in Record
    BY <1>0, <1>2
  <2>2. ~(log[o[i]].episode > 1)
    <3>1. SUFFICES ASSUME log[o[i]].episode > 1 PROVE FALSE
      OBVIOUS
    <3>2. PICK j \in 1..i - 1 : log[o[j]].work = log[o[i]].work
      BY <1>0, <3>1, OrdersFollow
    <3>3. TitleAt(log, o, j) = t
      BY <1>6, <3>2 DEF TitleAt
    <3>4. QED
      BY <1>6, <3>3
  <2>3. /\ log[o[i]].work \in same /\ log[o[i]].episode = 1
        /\ log[o[i]] = [work |-> log[o[i]].work, episode |-> 1]
    <3> DEFINE r == log[o[i]]
    <3>1. /\ r.work \in Works /\ r.episode \in Episodes(r.work)
          /\ r = [work |-> r.work, episode |-> r.episode]
      BY <2>1, RecordFields
    <3>2. EpisodeCount[r.work] \in Nat /\ Title[r.work] = t
      BY <1>6, <3>1, TimesAssumption DEF TitleAt
    <3>3. r.episode = 1
      BY <2>2, <3>1, <3>2 DEF Episodes
    <3>4. QED
      BY <3>1, <3>2, <3>3
  <2>4. QED
    BY <1>6, <2>1, <2>3 DEF NoTime
<1>7. ASSUME NEW i \in 1..Len(log),
             TitleAt(log, o, i) = t, \A j \in 1..i - 1 : TitleAt(log, o, j) # t,
             x.begin = o[i], x.finish = NoTime,
             \A j \in i + 1..Len(log) : ~(TitleAt(log, o, j) = t /\ LastAt(log, o, j)),
             NEW p \in DOMAIN log, EpisodeCount[w] > 1,
             log[p] = [work |-> w, episode |-> EpisodeCount[w]]
      PROVE  FALSE
  <2>1. PICK k \in DOMAIN log : o[k] = p
    BY <1>2
  <2>2. TitleAt(log, o, k) = t /\ LastAt(log, o, k)
    BY <1>7, <2>1 DEF TitleAt, LastAt
  <2>3. PICK j \in 1..k - 1 : log[o[j]].work = w
    BY <1>7, <2>1, OrdersFollow
  <2>4. TitleAt(log, o, j) = t /\ j \in 1..Len(log)
    BY <1>0, <2>3 DEF TitleAt
  <2>5. i <= j
    BY <1>7, <2>4
  <2>6. k \in i + 1..Len(log)
    BY <1>0, <2>5
  <2>7. QED
    BY <1>7, <2>2, <2>6
<1>8. ASSUME NEW i \in 1..Len(log), x.begin = o[i],
             NEW j \in i + 1..Len(log),
             TitleAt(log, o, j) = t, LastAt(log, o, j), x.finish = o[j]
      PROVE  /\ x.finish # NoTime /\ x.begin # x.finish
             /\ \E v \in same : log[x.finish] = [work |-> v, episode |-> EpisodeCount[v]]
  <2>1. j \in 1..Len(log) /\ i # j /\ o[j] \in 1..Len(log) /\ log[o[j]] \in Record
    BY <1>0, <1>2
  <2>2. /\ log[o[j]].work \in same
        /\ log[o[j]] = [work |-> log[o[j]].work, episode |-> EpisodeCount[log[o[j]].work]]
    BY <1>8, <2>1, RecordFields DEF TitleAt, LastAt
  <2>3. QED
    BY <1>0, <1>2, <1>8, <2>1, <2>2 DEF NoTime
<1>9. QED
  <2>1. CASE \E i \in 1..Len(log) :
               /\ TitleAt(log, o, i) = t /\ \A j \in 1..i - 1 : TitleAt(log, o, j) # t
               /\ x.begin = o[i]
               /\ \A j \in i + 1..Len(log) : ~(TitleAt(log, o, j) = t /\ LastAt(log, o, j))
               /\ x.finish = NoTime
    BY <1>4, <1>6, <1>7, <2>1 DEF x
  <2>2. CASE \E i \in 1..Len(log) :
               /\ TitleAt(log, o, i) = t /\ \A j \in 1..i - 1 : TitleAt(log, o, j) # t
               /\ x.begin = o[i]
               /\ \E j \in i + 1..Len(log) :
                    TitleAt(log, o, j) = t /\ LastAt(log, o, j) /\ x.finish = o[j]
    BY <1>4, <1>6, <1>8, <2>2 DEF x
  <2>3. QED
    BY <1>4, <1>5, <2>1, <2>2 DEF TimesAfter
=============================================================================
