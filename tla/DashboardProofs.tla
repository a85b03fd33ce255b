--------------------------- MODULE DashboardProofs ---------------------------
(***************************************************************************)
(* What clients of the dashboard can rely on, for any works, titles, page  *)
(* sizes and numbers of records: paging passes over nothing, and times are *)
(* those of a first and of a last episode.                                 *)
(***************************************************************************)
EXTENDS Dashboard, RecordTimesProofs, FiniteSetTheorems, SequenceTheorems

\* What is known of a request under way and of the page it has got.
RequestInv ==
  /\ ~Idle => response = "none" /\ pc["WATCHED"] # "idle" /\ size > 0 /\ offset = token
  /\ pc["WATCHED"] = "query" => page["WATCHED"] = {}

\* The page of watched works has been read.
PageRead == pc["WATCHED"] \in {"records", "done"}

\* A page ends within the works.
PageFits == PageRead => offset + Cardinality(page["WATCHED"]) <= Cardinality(Works)

\* Works that the client has seen or is about to see are still WATCHED, if steady.
ShownInv == \A w \in steady \cap (shown \cup page["WATCHED"]) : status[w] = "WATCHED"

\* Place i is one of a work that has been WATCHED all the time.
StaysAt(i) == Season[i] \in steady /\ status[Season[i]] = "WATCHED"

\* The works up to the client's token have been shown; with a page that has been
\* read, those up to its end, and with an empty one all of them.
PassedInv ==
  ~shifted =>
    /\ \A i \in DOMAIN Season : StaysAt(i) /\ Place("WATCHED", i) <= token => Season[i] \in shown
    /\ PageRead => \A i \in DOMAIN Season :
         StaysAt(i) /\ Place("WATCHED", i) <= offset + Cardinality(page["WATCHED"])
           => Season[i] \in shown \cup page["WATCHED"]
    /\ (PageRead /\ page["WATCHED"] = {}) \/ (response = "ok" /\ token = 0) =>
         \A i \in DOMAIN Season : StaysAt(i) => Season[i] \in shown

PagingInv == TypeOK /\ RequestInv /\ PageFits /\ ShownInv /\ PassedInv

\* Records come in the order of the episodes; WATCHED works and those of a page of
\* them have a record of their last episode, or were marked by the owner.
AccountInv ==
  /\ \A i \in DOMAIN log : Follows(log, i)
  /\ \A w \in Works :
       status[w] = "WATCHED" \/ w \in page["WATCHED"] => w \in byHand \/ Recorded(w, EpisodeCount[w])

\* What is known of the times x of work w, if r are the records.
TrueTimes(r, w, x) ==
  /\ x.begin # NoTime =>
       x.begin \in DOMAIN r /\ \E v \in Namesakes(w) : r[x.begin] = [work |-> v, episode |-> 1]
  /\ x.finish # NoTime =>
       /\ x.begin # NoTime /\ x.begin # x.finish /\ x.finish \in DOMAIN r
       /\ \E v \in Namesakes(w) : r[x.finish] = [work |-> v, episode |-> EpisodeCount[v]]

\* Once the records have been read for a page, every work of it that the owner has
\* not marked has its time.
TimesInv ==
  /\ \A s \in Section : \A w \in Works : TrueTimes(log, w, times[s][w])
  /\ pc["WATCHED"] = "done" \/ response = "ok" =>
       \A w \in page["WATCHED"] :
         EpisodeCount[w] > 1 /\ w \notin byHand => times["WATCHED"][w].finish # NoTime

-----------------------------------------------------------------------------
(* Places.                                                                 *)

Positions == 1..Cardinality(Works)

LEMMA SeasonFacts ==
  /\ Cardinality(Works) \in Nat
  /\ DOMAIN Season = Positions /\ Season \in [Positions -> Works]
  /\ \A w \in Works : \E i \in Positions : Season[i] = w
BY DashboardAssumption, FS_CardinalityType DEF Positions

\* The places of a section count its works.
LEMMA PlaceStep ==
  ASSUME NEW s, NEW i \in Nat
  PROVE  /\ Place(s, 0) = 0
         /\ Place(s, i) \in 0..i
         /\ Place(s, i + 1) = IF status[Season[i + 1]] = s THEN Place(s, i) + 1 ELSE Place(s, i)
<1> DEFINE Upto(n) == {j \in 1..n : status[Season[j]] = s}
<1>1. Upto(0) = {} /\ Cardinality({}) = 0
  BY FS_EmptySet
<1>2. IsFiniteSet(1..i) /\ Cardinality(1..i) = i
  BY FS_Interval
<1>3. IsFiniteSet(Upto(i)) /\ Cardinality(Upto(i)) \in Nat /\ Cardinality(Upto(i)) <= i
  BY <1>2, FS_Subset, FS_CardinalityType
<1>4. CASE status[Season[i + 1]] = s
  <2>1. Upto(i + 1) = Upto(i) \cup {i + 1} /\ i + 1 \notin Upto(i)
    BY <1>4
  <2> HIDE DEF Upto
  <2>2. Cardinality(Upto(i + 1)) = Cardinality(Upto(i)) + 1
    BY <1>3, <2>1, FS_AddElement
  <2>3. QED
    BY <1>1, <1>3, <1>4, <2>2 DEF Place, Upto
<1>5. CASE status[Season[i + 1]] # s
  <2>1. Upto(i + 1) = Upto(i)
    BY <1>5
  <2>2. QED
    BY <1>1, <1>3, <1>5, <2>1 DEF Place
<1>6. QED
  BY <1>4, <1>5

\* Different works of a section have different places, beginning with 1.
LEMMA PlacesDiffer ==
  ASSUME NEW s, NEW i \in Nat, NEW j \in Nat \ {0}, i < j, status[Season[j]] = s
  PROVE  /\ Place(s, i) < Place(s, j) /\ Place(s, j) >= 1
         /\ Place(s, i) \in Nat /\ Place(s, j) \in Nat
<1> DEFINE Upto(n) == {k \in 1..n : status[Season[k]] = s}
<1>1. IsFiniteSet(Upto(j - 1)) /\ IsFiniteSet(Upto(i)) /\ Upto(i) \subseteq Upto(j - 1)
  <2>1. IsFiniteSet(1..i) /\ IsFiniteSet(1..j - 1)
    BY FS_Interval
  <2>2. QED
    BY <2>1, FS_Subset
<1>2. Place(s, i) <= Place(s, j - 1)
  <2> HIDE DEF Upto
  <2>1. Cardinality(Upto(i)) <= Cardinality(Upto(j - 1))
    BY <1>1, FS_Subset
  <2>2. QED
    BY <2>1 DEF Place, Upto
<1>3. j - 1 \in Nat /\ (j - 1) + 1 = j
  OBVIOUS
<1>4. Place(s, i) \in Nat /\ Place(s, j - 1) \in Nat /\ Place(s, j) = Place(s, j - 1) + 1
  BY <1>3, PlaceStep
<1>5. QED
  BY <1>2, <1>4

\* Every place up to the last one is that of some work.
LEMMA PlacesAreFilled ==
  ASSUME NEW s, NEW i \in Nat, NEW k \in Nat \ {0}, k <= Place(s, i)
  PROVE  \E j \in 1..i : status[Season[j]] = s /\ Place(s, j) = k
<1> DEFINE T == {j \in 0..i : k <= Place(s, j)}
<1>1. PICK j \in T : \A l \in T : j <= l
  <2>1. T \subseteq Nat /\ i \in T
    OBVIOUS
  <2> HIDE DEF T
  <2>2. QED
    BY <2>1, LeastNumber
<1>2. j \in Nat \ {0} /\ j \in 1..i
  <2>1. Place(s, 0) = 0
    BY PlaceStep
  <2>2. j # 0
    BY <1>1, <2>1
  <2>3. QED
    BY <2>2
<1>3. j - 1 \in Nat /\ (j - 1) + 1 = j /\ j - 1 \notin T /\ j - 1 \in 0..i
  BY <1>1, <1>2
<1>4. /\ Place(s, j - 1) \in Nat /\ ~(k <= Place(s, j - 1)) /\ k <= Place(s, j)
      /\ Place(s, j) = IF status[Season[j]] = s THEN Place(s, j - 1) + 1 ELSE Place(s, j - 1)
  <2>1. /\ Place(s, j - 1) \in 0..j - 1
        /\ Place(s, j) = IF status[Season[j]] = s THEN Place(s, j - 1) + 1 ELSE Place(s, j - 1)
    BY <1>3, PlaceStep
  <2>2. QED
    BY <1>1, <1>3, <2>1
<1>5. QED
  BY <1>2, <1>4

\* A page has at most as many works as places, and its places exist.
LEMMA PageSize ==
  ASSUME NEW s, Offset(s) \in Nat, Limit(s) \in Nat, Offset(s) <= Cardinality(Works)
  PROVE  /\ PageOf(s) \subseteq Works
         /\ IsFiniteSet(PageOf(s)) /\ Cardinality(PageOf(s)) \in Nat
         /\ Cardinality(PageOf(s)) <= Limit(s)
         /\ Offset(s) + Cardinality(PageOf(s)) <= Cardinality(Works)
<1> DEFINE N == Cardinality(Works)
           P == {j \in DOMAIN Season : status[Season[j]] = s
                                         /\ Place(s, j) \in Offset(s) + 1..Offset(s) + Limit(s)}
           place == [j \in P |-> Place(s, j)]
           work == [j \in P |-> Season[j]]
<1>1. N \in Nat /\ DOMAIN Season = 1..N /\ Season \in [1..N -> Works]
  BY SeasonFacts DEF Positions
<1>2. PageOf(s) = {Season[j] : j \in P} /\ PageOf(s) \subseteq Works
  BY <1>1 DEF PageOf
<1>3. \A i, j \in P : place[i] = place[j] => i = j
  <2>1. ASSUME NEW i \in P, NEW j \in P, i < j
        PROVE  place[i] # place[j]
    <3>1. Place(s, i) < Place(s, j) /\ Place(s, i) \in Nat /\ Place(s, j) \in Nat
      BY <1>1, <2>1, PlacesDiffer
    <3>2. QED
      BY <3>1
  <2>2. P \subseteq Nat
    BY <1>1
  <2> HIDE DEF P, place
  <2>3. QED
    BY <2>1, <2>2
<1>4. ASSUME NEW b \in Nat, Offset(s) <= b, \A j \in P : Place(s, j) <= b
      PROVE  /\ IsFiniteSet(PageOf(s)) /\ Cardinality(PageOf(s)) \in Nat
             /\ Cardinality(PageOf(s)) <= b - Offset(s)
  <2> DEFINE I == Offset(s) + 1..b
  <2>1. place \in [P -> I]
    BY <1>1, <1>4
  <2>2. place \in Injection(P, I)
    BY <1>3, <2>1, Fun_IsInj
  <2>3. IsFiniteSet(I) /\ Cardinality(I) = b - Offset(s)
    <3>1. Offset(s) + 1 \in Int /\ b \in Int
      OBVIOUS
    <3>2. IsFiniteSet(I) /\ Cardinality(I) = IF Offset(s) + 1 > b THEN 0 ELSE b - (Offset(s) + 1) + 1
      BY <3>1, FS_Interval
    <3>3. QED
      BY <1>4, <3>2
  <2> HIDE DEF P, place, I
  <2>4. IsFiniteSet(P) /\ Cardinality(P) <= Cardinality(I)
    BY <2>2, <2>3, FS_Injection
  <2>5. work \in Surjection(P, PageOf(s))
    <3>1. work \in [P -> PageOf(s)] /\ \A w \in PageOf(s) : \E j \in P : work[j] = w
      BY <1>2
    <3>2. QED
      BY <3>1, Fun_IsSurj
  <2>6. IsFiniteSet(PageOf(s)) /\ Cardinality(PageOf(s)) <= Cardinality(P)
    BY <2>4, <2>5, FS_Surjection
  <2>7. Cardinality(PageOf(s)) \in Nat /\ Cardinality(P) \in Nat
    BY <2>4, <2>6, FS_CardinalityType
  <2>8. QED
    BY <2>3, <2>4, <2>6, <2>7
<1>5. Cardinality(PageOf(s)) <= Limit(s) /\ IsFiniteSet(PageOf(s)) /\ Cardinality(PageOf(s)) \in Nat
  <2>1. \A j \in P : Place(s, j) <= Offset(s) + Limit(s)
    OBVIOUS
  <2> HIDE DEF P
  <2>2. QED
    BY <1>4, <2>1
<1>6. Cardinality(PageOf(s)) <= N - Offset(s)
  <2>1. ASSUME NEW j \in P PROVE Place(s, j) <= N
    <3>1. j \in 1..N /\ j \in Nat
      BY <1>1
    <3>2. Place(s, j) \in 0..j
      BY <3>1, PlaceStep
    <3>3. QED
      BY <1>1, <3>1, <3>2
  <2> HIDE DEF P
  <2>2. QED
    BY <1>1, <1>4, <2>1
<1>7. QED
  BY <1>1, <1>2, <1>5, <1>6

-----------------------------------------------------------------------------
(* Paging.                                                                 *)

\* Places depend on the statuses only.
LEMMA SamePlaces ==
  ASSUME UNCHANGED status
  PROVE  \A s, i : Place(s, i)' = Place(s, i)
BY DEF Place

LEMMA InitPagingInv == Init => PagingInv
<1> SUFFICES ASSUME Init PROVE PagingInv
  OBVIOUS
<1> USE DEF Init
<1>1. TypeOK
  <2>1. NoTimes \in [begin : 0..MaxRecords, finish : 0..MaxRecords]
    BY DashboardAssumption DEF NoTimes, NoTime
  <2>2. times \in [Section -> [Works -> [begin : 0..MaxRecords, finish : 0..MaxRecords]]]
    BY <2>1 DEF Untimed
  <2>3. log \in Seq(Record) /\ Len(log) <= MaxRecords
    BY DashboardAssumption
  <2>4. offset \in 0..Cardinality(Works) /\ token \in 0..Cardinality(Works)
    BY SeasonFacts
  <2>5. QED
    BY <2>2, <2>3, <2>4 DEF TypeOK, NoPage
<1>2. RequestInv /\ PageFits /\ ShownInv
  BY DEF RequestInv, Idle, PageFits, PageRead, ShownInv, Goroutine, Section
<1>3. PassedInv
  BY DEF PassedInv, StaysAt, PageRead, Goroutine, Section
<1>4. QED
  BY <1>1, <1>2, <1>3 DEF PagingInv

\* What a request does neither see nor change.
requestState == <<pc, size, offset, page, times, response, token, shown>>

LEMMA SameRequest ==
  ASSUME PagingInv, UNCHANGED requestState
  PROVE  /\ RequestInv' /\ PageFits' /\ (PageRead' <=> PageRead)
         /\ UNCHANGED <<pc, size, offset, page, times, response, token, shown>>
<1> USE DEF requestState
<1>1. UNCHANGED <<pc, size, offset, page, times, response, token, shown>>
  OBVIOUS
<1>2. RequestInv'
  BY <1>1 DEF PagingInv, RequestInv, Idle
<1>3. PageFits' /\ (PageRead' <=> PageRead)
  BY <1>1 DEF PagingInv, PageFits, PageRead
<1>4. QED
  BY <1>1, <1>2, <1>3

\* The pairs of which the Account has a record are those recorded in the log.
LEMMA SeenIsRecorded ==
  ASSUME TypeOK, NEW w, NEW e,
         <<w, e>> \in {<<log[i].work, log[i].episode>> : i \in DOMAIN log}
  PROVE  Recorded(w, e)
<1>1. PICK i \in DOMAIN log : log[i].work = w /\ log[i].episode = e
  OBVIOUS
<1>2. log[i] \in Record
  BY DEF TypeOK
<1>3. log[i] = [work |-> w, episode |-> e]
  BY <1>1, <1>2 DEF Record
<1>4. QED
  BY <1>3 DEF Recorded

\* An account's See, Finish and so on, in terms of the log.
LEMMA CreateRecordSteps ==
  ASSUME TypeOK, NEW w \in Works, NEW e \in Episodes(w), CreateRecord(w, e)
  PROVE  /\ Len(log) < MaxRecords /\ log' = Append(log, [work |-> w, episode |-> e])
         /\ e = 1 \/ Recorded(w, e - 1)
         /\ UNCHANGED <<status, steady, byHand, shifted, requestVars, clientVars>>
<1>1. Accounts!Follows(w, e) /\ UNCHANGED status
  BY DEF CreateRecord, Accounts!See
<1>2. e = 1 \/ Recorded(w, e - 1)
  <2>1. SUFFICES ASSUME e # 1 PROVE Recorded(w, e - 1)
    OBVIOUS
  <2>2. <<w, e - 1>> \in {<<log[i].work, log[i].episode>> : i \in DOMAIN log}
    BY <1>1, <2>1 DEF Accounts!Follows
  <2>3. QED
    BY <2>2, SeenIsRecorded
<1>3. QED
  BY <1>1, <1>2 DEF CreateRecord

LEMMA StatusSteps ==
  ASSUME TypeOK, NEW w \in Works,
         FinishWork(w) \/ AddWork(w) \/ ShelveWork(w) \/ MarkWatched(w)
  PROVE  \E s \in {"WATCHING", "WATCHED", "OTHER"} :
           /\ status' = [status EXCEPT ![w] = s]
           /\ byHand \subseteq byHand' /\ byHand' \subseteq Works
           /\ s = "WATCHED" => w \in byHand' \/ Recorded(w, EpisodeCount[w])
           /\ UNCHANGED log /\ UpdateStatus(w)
<1> byHand \subseteq Works
  BY DEF TypeOK
<1>1. CASE FinishWork(w)
  <2>1. <<w, EpisodeCount[w]>> \in {<<log[i].work, log[i].episode>> : i \in DOMAIN log}
    BY <1>1 DEF FinishWork, Accounts!Finish
  <2>2. Recorded(w, EpisodeCount[w])
    BY <2>1, SeenIsRecorded
  <2>3. QED
    BY <1>1, <2>2 DEF FinishWork, Accounts!Finish
<1>2. CASE AddWork(w)
  BY <1>2 DEF AddWork, Accounts!TakeUp
<1>3. CASE ShelveWork(w)
  BY <1>3 DEF ShelveWork, Accounts!PutAside
<1>4. CASE MarkWatched(w)
  BY <1>4 DEF MarkWatched, Accounts!MarkByHand
<1>5. QED
  BY <1>1, <1>2, <1>3, <1>4

LEMMA CreateRecordKeepsPaging ==
  ASSUME PagingInv, NEW w \in Works, NEW e \in Episodes(w), CreateRecord(w, e)
  PROVE  PagingInv'
<1> DEFINE r == [work |-> w, episode |-> e]
<1>1. /\ UNCHANGED requestState /\ UNCHANGED <<status, steady, byHand, shifted>>
      /\ log' = Append(log, r) /\ Len(log) < MaxRecords
  BY CreateRecordSteps DEF PagingInv, requestVars, clientVars, requestState
<1>2. RequestInv' /\ PageFits' /\ (PageRead' <=> PageRead)
      /\ UNCHANGED <<pc, size, offset, page, times, response, token, shown>>
  BY <1>1, SameRequest
<1>3. TypeOK'
  <2>1. r \in Record
    BY DEF Record
  <2>2. log \in Seq(Record)
    BY DEF PagingInv, TypeOK
  <2>3. log' \in Seq(Record) /\ Len(log') = Len(log) + 1
    BY <1>1, <2>1, <2>2, AppendProperties
  <2>4. Len(log') <= MaxRecords
    BY <1>1, <2>2, <2>3, DashboardAssumption
  <2>5. QED
    BY <1>1, <1>2, <2>3, <2>4 DEF PagingInv, TypeOK
<1>4. ShownInv'
  BY <1>1, <1>2 DEF PagingInv, ShownInv
<1>5. PassedInv'
  <2>1. \A i : StaysAt(i)' <=> StaysAt(i)
    BY <1>1 DEF StaysAt
  <2>2. QED
    BY <1>1, <1>2, <2>1, SamePlaces DEF PagingInv, PassedInv
<1>6. QED
  BY <1>2, <1>3, <1>4, <1>5 DEF PagingInv

\* When works become WATCHED and none ceases to be, places only grow.
LEMMA PlacesGrow ==
  ASSUME NEW s, NEW i \in Nat, \A w \in Works : status[w] = s => status'[w] = s,
         i \in DOMAIN Season
  PROVE  Place(s, i) <= Place(s, i)' /\ Place(s, i) \in Nat /\ Place(s, i)' \in Nat
<1> DEFINE old == {j \in 1..i : status[Season[j]] = s}
           new == {j \in 1..i : status'[Season[j]] = s}
<1>1. IsFiniteSet(1..i)
  BY FS_Interval
<1>2. IsFiniteSet(old) /\ IsFiniteSet(new)
  BY <1>1, FS_Subset
<1>3. old \subseteq new
  BY SeasonFacts DEF Positions
<1>4. Place(s, i) = Cardinality(old) /\ Place(s, i)' = Cardinality(new)
  BY DEF Place
<1> HIDE DEF old, new
<1>5. QED
  BY <1>2, <1>3, <1>4, FS_Subset, FS_CardinalityType

LEMMA UpdateStatusKeepsPaging ==
  ASSUME PagingInv, NEW w \in Works, NEW s \in {"WATCHING", "WATCHED", "OTHER"},
         status' = [status EXCEPT ![w] = s], byHand' \subseteq Works, UNCHANGED log, UpdateStatus(w)
  PROVE  PagingInv'
<1>1. /\ UNCHANGED requestState /\ UNCHANGED log
      /\ status' = [status EXCEPT ![w] = s] /\ steady' = steady \ {w}
      /\ shifted' = (shifted \/ status[w] = "WATCHED")
      /\ status \in [Works -> Section \cup {"OTHER"}]
  BY DEF UpdateStatus, requestVars, clientVars, requestState, PagingInv, TypeOK
<1>2. RequestInv' /\ PageFits' /\ (PageRead' <=> PageRead)
      /\ UNCHANGED <<pc, size, offset, page, times, response, token, shown>>
  BY <1>1, SameRequest
<1>3. TypeOK'
  BY <1>1, <1>2 DEF PagingInv, TypeOK, Section
<1>4. ShownInv'
  BY <1>1, <1>2 DEF PagingInv, ShownInv
<1>5. PassedInv'
  <2>1. SUFFICES ASSUME ~shifted' PROVE PassedInv'
    BY DEF PassedInv
  <2>2. ~shifted /\ \A v \in Works : status[v] = "WATCHED" => status'[v] = "WATCHED"
    BY <1>1, <2>1
  <2>3. ASSUME NEW i \in DOMAIN Season
        PROVE  /\ StaysAt(i)' => StaysAt(i)
               /\ Place("WATCHED", i) <= Place("WATCHED", i)'
               /\ Place("WATCHED", i) \in Nat /\ Place("WATCHED", i)' \in Nat
    <3>1. i \in Nat /\ Season[i] \in Works
      BY SeasonFacts DEF Positions
    <3>2. QED
      BY <1>1, <2>2, <3>1, PlacesGrow DEF StaysAt
  <2>4. token \in Nat /\ (PageRead => offset + Cardinality(page["WATCHED"]) \in Nat)
    <3>1. IsFiniteSet(page["WATCHED"])
      BY DashboardAssumption, FS_Subset DEF PagingInv, TypeOK, Section
    <3>2. token \in Nat /\ offset \in Nat
      BY SeasonFacts DEF PagingInv, TypeOK
    <3>3. QED
      BY <3>1, <3>2, FS_CardinalityType
  <2> DEFINE end == offset + Cardinality(page["WATCHED"])
  <2>5. ASSUME NEW i \in DOMAIN Season, NEW n \in Nat, StaysAt(i)', Place("WATCHED", i)' <= n
        PROVE  StaysAt(i) /\ Place("WATCHED", i) <= n
    BY <2>3, <2>5
  <2>6. \A i \in DOMAIN Season : StaysAt(i)' /\ Place("WATCHED", i)' <= token => Season[i] \in shown
    BY <2>2, <2>4, <2>5 DEF PagingInv, PassedInv
  <2>7. PageRead => \A i \in DOMAIN Season :
          StaysAt(i)' /\ Place("WATCHED", i)' <= end => Season[i] \in shown \cup page["WATCHED"]
    <3> HIDE DEF end
    <3>1. PageRead => end \in Nat
      BY <2>4 DEF end
    <3>2. PageRead => \A i \in DOMAIN Season :
            StaysAt(i) /\ Place("WATCHED", i) <= end => Season[i] \in shown \cup page["WATCHED"]
      BY <2>2 DEF PagingInv, PassedInv, end
    <3>3. QED
      BY <2>5, <3>1, <3>2
  <2>8. (PageRead /\ page["WATCHED"] = {}) \/ (response = "ok" /\ token = 0) =>
          \A i \in DOMAIN Season : StaysAt(i)' => Season[i] \in shown
    BY <2>2, <2>3 DEF PagingInv, PassedInv
  <2>9. QED
    BY <1>2, <2>6, <2>7, <2>8 DEF PassedInv
<1>6. QED
  BY <1>2, <1>3, <1>4, <1>5 DEF PagingInv

\* The numbers and sets of a request are what they seem.
LEMMA RequestTypes ==
  ASSUME PagingInv
  PROVE  /\ token \in Nat /\ offset \in Nat /\ size \in Nat
         /\ \A s \in Section : page[s] \subseteq Works /\ IsFiniteSet(page[s])
         /\ \A s \in Section : Cardinality(page[s]) \in Nat
         /\ Untimed \in [Section -> [Works -> [begin : 0..MaxRecords, finish : 0..MaxRecords]]]
         /\ NoPage \in [Section -> SUBSET Works]
<1>1. token \in Nat /\ offset \in Nat /\ size \in Nat
  BY SeasonFacts, DashboardAssumption DEF PagingInv, TypeOK
<1>2. ASSUME NEW s \in Section
      PROVE  page[s] \subseteq Works /\ IsFiniteSet(page[s]) /\ Cardinality(page[s]) \in Nat
  <2>1. page[s] \subseteq Works
    BY DEF PagingInv, TypeOK
  <2>2. IsFiniteSet(page[s])
    BY <2>1, DashboardAssumption, FS_Subset
  <2>3. QED
    BY <2>1, <2>2, FS_CardinalityType
<1>3. NoTimes \in [begin : 0..MaxRecords, finish : 0..MaxRecords]
  BY DashboardAssumption DEF NoTimes, NoTime
<1>4. QED
  BY <1>1, <1>2, <1>3 DEF Untimed, NoPage

LEMMA RejectKeepsPaging ==
  ASSUME PagingInv, NEW n \in PageSizes, Reject(n)
  PROVE  PagingInv'
<1>1. /\ UNCHANGED <<log, status, steady, byHand, shifted, pc, size, offset, token, shown>>
      /\ response' = "error" /\ page' = NoPage /\ times' = Untimed /\ Idle
  BY DEF Reject, accountVars
<1>2. page'["WATCHED"] = {} /\ pc'["WATCHED"] = "idle" /\ Idle'
  BY <1>1 DEF Idle, NoPage, Section, Goroutine
<1>3. TypeOK'
  BY <1>1, RequestTypes DEF PagingInv, TypeOK
<1>4. RequestInv' /\ PageFits' /\ ~PageRead'
  BY <1>2 DEF RequestInv, PageFits, PageRead
<1>5. ShownInv'
  BY <1>1, <1>2 DEF PagingInv, ShownInv
<1>6. PassedInv'
  <2>1. \A i : StaysAt(i)' <=> StaysAt(i)
    BY <1>1 DEF StaysAt
  <2>2. QED
    BY <1>1, <1>4, <2>1, SamePlaces DEF PagingInv, PassedInv
<1>7. QED
  BY <1>3, <1>4, <1>5, <1>6 DEF PagingInv

LEMMA GetDashboardKeepsPaging ==
  ASSUME PagingInv, NEW n \in PageSizes, GetDashboard(n)
  PROVE  PagingInv'
<1>1. /\ UNCHANGED <<log, status>> /\ byHand' \subseteq byHand
      /\ steady' = Works /\ shifted' = FALSE /\ token' = 0 /\ shown' = {}
      /\ size' = n /\ offset' = 0 /\ response' = "none" /\ page' = NoPage /\ times' = Untimed
      /\ pc' = [g \in Goroutine |-> "query"] /\ n \in Nat /\ n > 0
  BY DashboardAssumption DEF GetDashboard, Call
<1>2. page'["WATCHED"] = {} /\ pc'["WATCHED"] = "query"
  BY <1>1 DEF NoPage, Section, Goroutine
<1>3. TypeOK'
  <2>1. 0 \in 0..Cardinality(Works)
    BY SeasonFacts
  <2>2. QED
    BY <1>1, <2>1, RequestTypes DEF PagingInv, TypeOK
<1>4. RequestInv' /\ PageFits' /\ ~PageRead'
  BY <1>1, <1>2 DEF RequestInv, PageFits, PageRead
<1>5. ShownInv'
  BY <1>1, <1>2 DEF ShownInv
<1>6. PassedInv'
  <2>1. ASSUME NEW i \in DOMAIN Season, StaysAt(i)', Place("WATCHED", i)' <= 0
        PROVE  FALSE
    <3>1. 0 \in Nat /\ i \in Nat \ {0} /\ 0 < i /\ status[Season[i]] = "WATCHED"
      BY <1>1, <2>1, SeasonFacts DEF StaysAt, Positions
    <3>2. Place("WATCHED", i) >= 1 /\ Place("WATCHED", i) \in Nat
      BY <3>1, PlacesDiffer
    <3>3. QED
      BY <1>1, <2>1, <3>2, SamePlaces
  <2>2. QED
    BY <1>1, <1>4, <2>1 DEF PassedInv
<1>7. QED
  BY <1>3, <1>4, <1>5, <1>6 DEF PagingInv

LEMMA ListWorksKeepsPaging ==
  ASSUME PagingInv, NEW n \in PageSizes, ListWorks(n)
  PROVE  PagingInv'
<1>1. /\ UNCHANGED <<log, status, steady, byHand, shifted, token, shown>>
      /\ size' = n /\ offset' = token /\ response' = "none" /\ page' = NoPage /\ times' = Untimed
      /\ pc' = [g \in Goroutine |-> IF g \in {"WATCHED"} THEN "query" ELSE "idle"]
      /\ n \in Nat /\ n > 0
  BY DashboardAssumption DEF ListWorks, Call, accountVars
<1>2. page'["WATCHED"] = {} /\ pc'["WATCHED"] = "query"
  BY <1>1 DEF NoPage, Section, Goroutine
<1>3. TypeOK'
  BY <1>1, RequestTypes DEF PagingInv, TypeOK
<1>4. RequestInv' /\ PageFits' /\ ~PageRead'
  BY <1>1, <1>2 DEF RequestInv, PageFits, PageRead
<1>5. ShownInv'
  BY <1>1, <1>2 DEF PagingInv, ShownInv
<1>6. PassedInv'
  <2>1. \A i : StaysAt(i)' <=> StaysAt(i)
    BY <1>1 DEF StaysAt
  <2>2. QED
    BY <1>1, <1>4, <2>1, SamePlaces DEF PagingInv, PassedInv
<1>7. QED
  BY <1>3, <1>4, <1>5, <1>6 DEF PagingInv

\* What a query sees, and what none changes.
LEMMA UnderWay ==
  ASSUME PagingInv, NEW g \in Goroutine, pc[g] # "idle"
  PROVE  /\ ~Idle /\ response = "none" /\ pc["WATCHED"] # "idle" /\ size > 0 /\ offset = token
BY DEF PagingInv, RequestInv, Idle

\* The next page of watched works goes on where the client's last one ended, and
\* it is empty only if none is left.
LEMMA PageGoesOn ==
  ASSUME PagingInv, pc["WATCHED"] = "query", ~shifted, NEW i \in DOMAIN Season, StaysAt(i)
  PROVE  /\ Place("WATCHED", i) <= offset + Cardinality(PageOf("WATCHED")) =>
              Season[i] \in shown \cup PageOf("WATCHED")
         /\ PageOf("WATCHED") = {} => Season[i] \in shown
<1> DEFINE P == PageOf("WATCHED")
<1>1. offset = token /\ offset \in Nat /\ size \in Nat /\ size > 0
      /\ Limit("WATCHED") = size /\ Offset("WATCHED") = offset /\ offset <= Cardinality(Works)
  <2>1. "WATCHED" \in Goroutine /\ pc["WATCHED"] # "idle"
    BY DEF Goroutine, Section
  <2>2. offset = token /\ size > 0
    BY <2>1, UnderWay
  <2>3. offset \in Nat /\ size \in Nat /\ offset <= Cardinality(Works)
    BY RequestTypes, SeasonFacts DEF PagingInv, TypeOK
  <2>4. Limit("WATCHED") = size /\ Offset("WATCHED") = offset
    BY DEF Limit, Offset
  <2>5. QED
    BY <2>2, <2>3, <2>4
<1>2. Cardinality(P) \in Nat /\ Cardinality(P) <= size
  BY <1>1, PageSize
<1>3. i \in Nat \ {0} /\ 0 < i /\ status[Season[i]] = "WATCHED" /\ DOMAIN Season = Positions
  BY SeasonFacts DEF StaysAt, Positions
<1>4. Place("WATCHED", i) \in Nat /\ Place("WATCHED", i) >= 1
  BY <1>3, PlacesDiffer
<1>5. Place("WATCHED", i) <= offset => Season[i] \in shown
  BY <1>1 DEF PagingInv, PassedInv
<1>6. ASSUME NEW j \in DOMAIN Season, status[Season[j]] = "WATCHED",
             Place("WATCHED", j) \in offset + 1..offset + size
      PROVE  Season[j] \in P
  BY <1>1, <1>6 DEF PageOf
<1> HIDE DEF P
<1>7. Place("WATCHED", i) <= offset + Cardinality(P) => Season[i] \in shown \cup P
  BY <1>1, <1>2, <1>3, <1>4, <1>5, <1>6
<1>8. ASSUME P = {}, ~(Place("WATCHED", i) <= offset)
      PROVE  FALSE
  <2>1. offset + 1 \in Nat \ {0} /\ offset + 1 <= Place("WATCHED", i) /\ i \in Nat
    BY <1>1, <1>3, <1>4, <1>8
  <2>2. PICK j \in 1..i : status[Season[j]] = "WATCHED" /\ Place("WATCHED", j) = offset + 1
    BY <2>1, PlacesAreFilled
  <2>3. j \in DOMAIN Season
    BY <1>3, SeasonFacts DEF Positions
  <2>4. offset + 1 \in offset + 1..offset + size
    BY <1>1
  <2>5. QED
    BY <1>6, <1>8, <2>2, <2>3, <2>4
<1>9. QED
  BY <1>5, <1>7, <1>8 DEF P

LEMMA QueryWorksKeepsPaging ==
  ASSUME PagingInv, NEW s \in Section, QueryWorks(s)
  PROVE  PagingInv'
<1>1. /\ UNCHANGED <<log, status, steady, byHand, shifted, response, token, shown, size, offset, times>>
      /\ page' = [page EXCEPT ![s] = PageOf(s)] /\ pc[s] = "query"
      /\ pc' = [pc EXCEPT ![s] = IF page'[s] = {} THEN "done" ELSE "records"]
  BY DEF QueryWorks, accountVars, clientVars
<1>2. /\ page \in [Section -> SUBSET Works] /\ s \in Goroutine /\ "WATCHED" \in Section
      /\ pc \in [Goroutine -> {"idle", "query", "records", "done", "failed"}]
      /\ "WATCHED" \in Goroutine
  BY DEF PagingInv, TypeOK, Goroutine, Section
<1>3. ~Idle /\ response = "none" /\ pc["WATCHED"] # "idle" /\ size > 0 /\ offset = token
  BY <1>1, <1>2, UnderWay
<1>4. PageOf(s) \subseteq Works
  BY SeasonFacts DEF PageOf, Positions
<1>5. TypeOK'
  BY <1>1, <1>2, <1>4 DEF PagingInv, TypeOK
<1>6. CASE s # "WATCHED"
  <2>1. page'["WATCHED"] = page["WATCHED"] /\ pc'["WATCHED"] = pc["WATCHED"]
    BY <1>1, <1>2, <1>6
  <2>2. RequestInv' /\ PageFits' /\ ShownInv' /\ (PageRead' <=> PageRead)
    BY <1>1, <1>3, <2>1 DEF PagingInv, RequestInv, PageFits, ShownInv, PageRead
  <2>3. PassedInv'
    <3>1. \A i : StaysAt(i)' <=> StaysAt(i)
      BY <1>1 DEF StaysAt
    <3>2. QED
      BY <1>1, <2>1, <2>2, <3>1, SamePlaces DEF PagingInv, PassedInv
  <2>4. QED
    BY <1>5, <2>2, <2>3 DEF PagingInv
<1>7. CASE s = "WATCHED"
  <2> DEFINE P == PageOf("WATCHED")
  <2>1. page'["WATCHED"] = P /\ pc'["WATCHED"] \in {"records", "done"}
    BY <1>1, <1>2, <1>7
  <2>2. RequestInv'
    BY <1>1, <1>3, <2>1 DEF RequestInv
  <2>3. offset + Cardinality(P) <= Cardinality(Works)
    <3>1. offset \in Nat /\ size \in Nat /\ offset <= Cardinality(Works)
      BY RequestTypes, SeasonFacts DEF PagingInv, TypeOK
    <3>2. Limit("WATCHED") = size /\ Offset("WATCHED") = offset
      BY DEF Limit, Offset
    <3>3. QED
      BY <3>1, <3>2, PageSize
  <2>4. PageFits'
    BY <1>1, <2>1, <2>3 DEF PageFits
  <2>5. ShownInv'
    <3>1. \A w \in P : status[w] = "WATCHED"
      BY DEF PageOf
    <3>2. QED
      BY <1>1, <2>1, <3>1 DEF PagingInv, ShownInv
  <2>6. PassedInv'
    <3>1. SUFFICES ASSUME ~shifted PROVE PassedInv'
      BY <1>1 DEF PassedInv
    <3>2. \A i : (StaysAt(i)' <=> StaysAt(i)) /\ Place("WATCHED", i)' = Place("WATCHED", i)
      BY <1>1, SamePlaces DEF StaysAt
    <3>3. \A i \in DOMAIN Season : StaysAt(i) /\ Place("WATCHED", i) <= token => Season[i] \in shown
      BY <3>1 DEF PagingInv, PassedInv
    <3>4. ASSUME NEW i \in DOMAIN Season, StaysAt(i)
          PROVE  /\ Place("WATCHED", i) <= offset + Cardinality(P) => Season[i] \in shown \cup P
                 /\ P = {} => Season[i] \in shown
      BY <1>1, <1>7, <3>1, <3>4, PageGoesOn
    <3> HIDE DEF P
    <3>5. QED
      BY <1>1, <1>3, <2>1, <3>2, <3>3, <3>4 DEF PassedInv
  <2>7. QED
    BY <1>5, <2>2, <2>4, <2>5, <2>6 DEF PagingInv
<1>8. QED
  BY <1>6, <1>7

\* A goroutine that ends or fails without reading a page of watched works.
LEMMA GoroutineEndKeepsPaging ==
  ASSUME PagingInv, NEW g \in Goroutine, pc[g] \in {"query", "records"},
         UNCHANGED <<log, status, steady, byHand, shifted, response, token, shown, size, offset, page>>,
         NEW x \in {"done", "failed"}, pc' = [pc EXCEPT ![g] = x],
         g = "WATCHED" /\ x = "done" => pc[g] = "records",
         times' \in [Section -> [Works -> [begin : 0..MaxRecords, finish : 0..MaxRecords]]]
  PROVE  PagingInv'
<1>1. /\ pc \in [Goroutine -> {"idle", "query", "records", "done", "failed"}]
      /\ "WATCHED" \in Goroutine
  BY DEF PagingInv, TypeOK, Goroutine, Section
<1>2. ~Idle /\ response = "none" /\ pc["WATCHED"] # "idle" /\ size > 0 /\ offset = token
  BY UnderWay
<1>3. /\ pc'["WATCHED"] # "idle" /\ (pc'["WATCHED"] = "query" => pc["WATCHED"] = "query")
      /\ (PageRead' => PageRead)
  BY <1>1, <1>2 DEF PageRead
<1>4. TypeOK'
  BY <1>1 DEF PagingInv, TypeOK
<1>5. RequestInv' /\ PageFits' /\ ShownInv'
  BY <1>2, <1>3 DEF PagingInv, RequestInv, PageFits, ShownInv
<1>6. PassedInv'
  <2>1. \A i : StaysAt(i)' <=> StaysAt(i)
    BY DEF StaysAt
  <2>2. QED
    BY <1>2, <1>3, <2>1, SamePlaces DEF PagingInv, PassedInv
<1>7. QED
  BY <1>4, <1>5, <1>6 DEF PagingInv

\* The times of a title are those of two of the records.
LEMMA ListedTimesTypes ==
  ASSUME PagingInv, NEW m \in ListedTimes(log), NEW w \in Works
  PROVE  m[Title[w]] \in [begin : 0..MaxRecords, finish : 0..MaxRecords]
<1>1. PICK o \in Orders(log) : m = TimesIn(log, o)
  BY DEF ListedTimes
<1>2. log \in Seq(Record) /\ Len(log) \in Nat /\ Len(log) <= MaxRecords /\ MaxRecords \in Nat
  BY DashboardAssumption DEF PagingInv, TypeOK
<1>3. o \in [DOMAIN log -> DOMAIN log]
  BY <1>1, <1>2, OrdersPermute
<1>4. m \in [Titles -> TimesUpTo(Len(log))]
  BY <1>1, <1>2, <1>3, LoopFindsFirstAndLast
<1>5. m[Title[w]] \in TimesUpTo(Len(log))
  BY <1>4 DEF Titles
<1>6. TimesUpTo(Len(log)) \subseteq [begin : 0..MaxRecords, finish : 0..MaxRecords]
  BY <1>2 DEF TimesUpTo
<1>7. QED
  BY <1>5, <1>6

LEMMA QueryKeepsPaging ==
  ASSUME PagingInv, NEW g \in Goroutine, Query(g)
  PROVE  PagingInv'
<1>1. times \in [Section -> [Works -> [begin : 0..MaxRecords, finish : 0..MaxRecords]]]
  BY DEF PagingInv, TypeOK
<1>2. CASE g = "profile" /\ QueryProfile
  <2>1. /\ UNCHANGED <<log, status, steady, byHand, shifted, response, token, shown, size, offset, page>>
        /\ UNCHANGED times /\ pc[g] = "query" /\ pc' = [pc EXCEPT ![g] = "done"]
        /\ g # "WATCHED"
    BY <1>2 DEF QueryProfile, accountVars, clientVars
  <2>2. QED
    BY <1>1, <2>1, GoroutineEndKeepsPaging
<1>3. CASE g \in Section /\ QueryWorks(g)
  BY <1>3, QueryWorksKeepsPaging
<1>4. CASE g \in Section /\ QueryRecords(g)
  <2>1. /\ UNCHANGED <<log, status, steady, byHand, shifted, response, token, shown, size, offset, page>>
        /\ pc[g] = "records" /\ pc' = [pc EXCEPT ![g] = "done"]
    BY <1>4 DEF QueryRecords, accountVars, clientVars
  <2>2. PICK m \in ListedTimes(log) :
          times' = [times EXCEPT ![g] = [w \in Works |->
                      IF w \in page[g] THEN m[Title[w]] ELSE NoTimes]]
    BY <1>4 DEF QueryRecords
  <2>3. \A w \in Works : m[Title[w]] \in [begin : 0..MaxRecords, finish : 0..MaxRecords]
    BY ListedTimesTypes
  <2>4. NoTimes \in [begin : 0..MaxRecords, finish : 0..MaxRecords]
    BY DashboardAssumption DEF NoTimes, NoTime
  <2>5. times' \in [Section -> [Works -> [begin : 0..MaxRecords, finish : 0..MaxRecords]]]
    BY <1>1, <2>2, <2>3, <2>4
  <2>6. QED
    BY <2>1, <2>5, GoroutineEndKeepsPaging
<1>5. CASE QueryFails(g)
  <2>1. /\ UNCHANGED <<log, status, steady, byHand, shifted, response, token, shown, size, offset, page>>
        /\ UNCHANGED times /\ pc[g] \in {"query", "records"} /\ pc' = [pc EXCEPT ![g] = "failed"]
    BY <1>5 DEF QueryFails, accountVars, clientVars
  <2>2. QED
    BY <1>1, <2>1, GoroutineEndKeepsPaging
<1>6. QED
  BY <1>2, <1>3, <1>4, <1>5 DEF Query

LEMMA WaitKeepsPaging ==
  ASSUME PagingInv, Wait
  PROVE  PagingInv'
<1>1. /\ UNCHANGED <<log, status, steady, byHand, shifted>>
      /\ pc' = [g \in Goroutine |-> "idle"] /\ size' = 0 /\ offset' = 0
  BY DEF Wait, Answer, Finish, accountVars
<1>2. Idle' /\ pc'["WATCHED"] = "idle" /\ ~PageRead'
  BY <1>1 DEF Idle, Goroutine, Section, PageRead
<1>3. RequestInv' /\ PageFits'
  BY <1>2 DEF RequestInv, PageFits
<1>4. \A i : (StaysAt(i)' <=> StaysAt(i)) /\ Place("WATCHED", i)' = Place("WATCHED", i)
  BY <1>1, SamePlaces DEF StaysAt
<1>5. 0 \in 0..Cardinality(Works)
  BY SeasonFacts
<1>6. CASE \A g \in Goroutine : pc[g] # "failed"
  <2>1. /\ ~Idle /\ \A g \in Goroutine : pc[g] \in {"idle", "done", "failed"}
        /\ UNCHANGED <<page, times>> /\ response' = "ok"
        /\ token' = NextToken /\ shown' = shown \cup page["WATCHED"]
    BY <1>6 DEF Wait, Answer
  <2>2. pc["WATCHED"] = "done" /\ PageRead
    <3>1. pc["WATCHED"] # "idle" /\ "WATCHED" \in Goroutine
      BY <2>1 DEF PagingInv, RequestInv, Goroutine, Section
    <3>2. QED
      BY <1>6, <2>1, <3>1 DEF PageRead
  <2> DEFINE P == page["WATCHED"]
             end == offset + Cardinality(P)
  <2>3. /\ token' = IF P = {} THEN 0 ELSE end
        /\ P # {} => end > 0
        /\ end \in 0..Cardinality(Works) /\ P \subseteq Works
    <3>1. offset \in Nat /\ Cardinality(P) \in Nat /\ IsFiniteSet(P) /\ P \subseteq Works
      BY RequestTypes DEF Section
    <3>2. P # {} => Cardinality(P) # 0
      BY <3>1, FS_EmptySet
    <3>3. end <= Cardinality(Works) /\ Cardinality(Works) \in Nat
      BY <2>2, SeasonFacts DEF PagingInv, PageFits
    <3>4. QED
      BY <2>1, <3>1, <3>2, <3>3 DEF NextToken
  <2>4. TypeOK'
    BY <1>1, <1>5, <2>1, <2>3 DEF PagingInv, TypeOK
  <2>5. ShownInv'
    BY <1>1, <2>1 DEF PagingInv, ShownInv
  <2>6. PassedInv'
    <3>1. SUFFICES ASSUME ~shifted PROVE PassedInv'
      BY <1>1 DEF PassedInv
    <3>2. /\ \A i \in DOMAIN Season :
               StaysAt(i) /\ Place("WATCHED", i) <= end => Season[i] \in shown \cup P
          /\ P = {} => \A i \in DOMAIN Season : StaysAt(i) => Season[i] \in shown
      BY <2>2, <3>1 DEF PagingInv, PassedInv
    <3> HIDE DEF end, P
    <3>3. \A i \in DOMAIN Season :
            StaysAt(i) /\ Place("WATCHED", i) <= token' => Season[i] \in shown \cup P
      BY <2>3, <3>2
    <3>4. token' = 0 => P = {}
      BY <2>3
    <3>5. QED
      BY <1>2, <1>4, <2>1, <3>2, <3>3, <3>4 DEF PassedInv, P
  <2>7. QED
    BY <1>3, <2>4, <2>5, <2>6 DEF PagingInv
<1>7. CASE \E g \in Goroutine : pc[g] = "failed"
  <2>1. /\ response' = "error" /\ page' = NoPage /\ times' = Untimed
        /\ UNCHANGED <<token, shown>>
    BY <1>7 DEF Wait
  <2>2. page'["WATCHED"] = {}
    BY <2>1 DEF NoPage, Section
  <2>3. TypeOK'
    BY <1>1, <1>5, <2>1, RequestTypes DEF PagingInv, TypeOK
  <2>4. ShownInv'
    BY <1>1, <2>1, <2>2 DEF PagingInv, ShownInv
  <2>5. PassedInv'
    BY <1>1, <1>2, <1>4, <2>1 DEF PagingInv, PassedInv
  <2>6. QED
    BY <1>3, <2>3, <2>4, <2>5 DEF PagingInv
<1>8. QED
  BY <1>6, <1>7

LEMMA NextKeepsPagingInv == PagingInv /\ [Next]_vars => PagingInv'
<1> SUFFICES ASSUME PagingInv, [Next]_vars PROVE PagingInv'
  OBVIOUS
<1>1. ASSUME NEW w \in Works, NEW e \in Episodes(w), CreateRecord(w, e) PROVE PagingInv'
  BY <1>1, CreateRecordKeepsPaging
<1>2. ASSUME NEW w \in Works, FinishWork(w) \/ AddWork(w) \/ ShelveWork(w) \/ MarkWatched(w)
      PROVE  PagingInv'
  BY <1>2, StatusSteps, UpdateStatusKeepsPaging DEF PagingInv
<1>3. ASSUME NEW n \in PageSizes, Reject(n) PROVE PagingInv'
  BY <1>3, RejectKeepsPaging
<1>4. ASSUME NEW n \in PageSizes, GetDashboard(n) PROVE PagingInv'
  BY <1>4, GetDashboardKeepsPaging
<1>5. ASSUME NEW n \in PageSizes, ListWorks(n) PROVE PagingInv'
  BY <1>5, ListWorksKeepsPaging
<1>6. CASE Wait
  BY <1>6, WaitKeepsPaging
<1>7. ASSUME NEW g \in Goroutine, Query(g) PROVE PagingInv'
  BY <1>7, QueryKeepsPaging
<1>8. CASE UNCHANGED vars
  <2>1. UNCHANGED requestState /\ UNCHANGED <<log, status, steady, byHand, shifted>>
    BY <1>8 DEF vars, requestState
  <2>2. RequestInv' /\ PageFits' /\ (PageRead' <=> PageRead)
        /\ UNCHANGED <<pc, size, offset, page, times, response, token, shown>>
    BY <2>1, SameRequest
  <2>3. \A i : (StaysAt(i)' <=> StaysAt(i)) /\ Place("WATCHED", i)' = Place("WATCHED", i)
    BY <2>1, SamePlaces DEF StaysAt
  <2>4. TypeOK' /\ ShownInv' /\ PassedInv'
    BY <2>1, <2>2, <2>3 DEF PagingInv, TypeOK, ShownInv, PassedInv
  <2>5. QED
    BY <2>2, <2>4 DEF PagingInv
<1>9. QED
  BY <1>1, <1>2, <1>3, <1>4, <1>5, <1>6, <1>7, <1>8 DEF Next, Commands, Client

\* Every variable keeps to its values.
THEOREM TypeCorrect == Spec => []TypeOK
<1>1. PagingInv => TypeOK
  BY DEF PagingInv
<1>2. QED
  BY <1>1, InitPagingInv, NextKeepsPagingInv, PTL DEF Spec

\* A client that pages on to the empty token has been shown every work that was
\* WATCHED all the time, for any works, page sizes and steps of the commands in
\* between, unless a work ceased to be WATCHED.
THEOREM PagingPassesOverNothing == Spec => []PagingMissesNothing
<1>1. PagingInv => PagingMissesNothing
  <2> SUFFICES ASSUME PagingInv PROVE PagingMissesNothing
    OBVIOUS
  <2>1. \A w \in steady \cap shown : status[w] = "WATCHED"
    BY DEF PagingInv, ShownInv
  <2>2. ASSUME response = "ok", token = 0, ~shifted, NEW w \in steady, status[w] = "WATCHED"
        PROVE  w \in shown
    <3>1. w \in Works
      BY DEF PagingInv, TypeOK
    <3>2. PICK i \in DOMAIN Season : Season[i] = w
      BY <3>1, SeasonFacts
    <3>3. StaysAt(i)
      BY <2>2, <3>2 DEF StaysAt
    <3>4. QED
      BY <2>2, <3>2, <3>3 DEF PagingInv, PassedInv
  <2>3. QED
    BY <2>1, <2>2 DEF PagingMissesNothing
<1>2. QED
  BY <1>1, InitPagingInv, NextKeepsPagingInv, PTL DEF Spec

-----------------------------------------------------------------------------
(* Times.                                                                  *)

\* More records leave what was true of the ones before.
LEMMA TimesStayTrue ==
  ASSUME NEW r, NEW rr, DOMAIN r \subseteq DOMAIN rr, \A i \in DOMAIN r : rr[i] = r[i],
         NEW w, NEW x, TrueTimes(r, w, x)
  PROVE  TrueTimes(rr, w, x)
BY DEF TrueTimes

LEMMA UntimedIsTrue ==
  ASSUME NEW r
  PROVE  \A s \in Section : \A w \in Works : TrueTimes(r, w, Untimed[s][w])
BY DEF Untimed, NoTimes, NoTime, TrueTimes

LEMMA InitTimesInv == Init => AccountInv /\ TimesInv
<1> SUFFICES ASSUME Init PROVE AccountInv /\ TimesInv
  OBVIOUS
<1> USE DEF Init
<1>1. \A i \in DOMAIN log : Follows(log, i)
  OBVIOUS
<1>2. AccountInv
  BY <1>1 DEF AccountInv, NoPage, Section
<1>3. TimesInv
  BY UntimedIsTrue DEF TimesInv, NoPage, Section
<1>4. QED
  BY <1>2, <1>3

\* A new record follows an older one, and what is known stays true.
LEMMA CreateRecordKeepsTimes ==
  ASSUME PagingInv, AccountInv, TimesInv, NEW w \in Works, NEW e \in Episodes(w), CreateRecord(w, e)
  PROVE  AccountInv' /\ TimesInv'
<1> DEFINE r == [work |-> w, episode |-> e]
<1>1. /\ UNCHANGED <<pc, size, offset, page, times, response, token, shown, status, byHand>>
      /\ log' = Append(log, r) /\ (e = 1 \/ Recorded(w, e - 1))
  BY CreateRecordSteps DEF PagingInv, requestVars, clientVars
<1>2. /\ Len(log) \in Nat /\ DOMAIN log = 1..Len(log) /\ DOMAIN log' = 1..Len(log) + 1
      /\ \A i \in DOMAIN log : log'[i] = log[i]
      /\ log'[Len(log) + 1] = r
  <2>1. log \in Seq(Record) /\ r \in Record
    BY DEF PagingInv, TypeOK, Record
  <2>2. log' \in Seq(Record) /\ Len(log') = Len(log) + 1
    BY <1>1, <2>1, AppendProperties
  <2>3. QED
    BY <1>1, <2>1, <2>2, AppendProperties
<1>3. \A i \in DOMAIN log' : Follows(log', i)
  <2>1. ASSUME NEW i \in DOMAIN log PROVE Follows(log', i)
    <3>1. Follows(log, i) /\ \A j \in 1..i - 1 : j \in DOMAIN log
      BY <1>2 DEF AccountInv
    <3>2. QED
      BY <1>2, <3>1 DEF Follows
  <2>2. Follows(log', Len(log) + 1)
    <3>1. ASSUME e > 1
          PROVE  \E j \in 1..(Len(log) + 1) - 1 : log'[j] = [work |-> w, episode |-> e - 1]
      <4>1. PICK j \in DOMAIN log : log[j] = [work |-> w, episode |-> e - 1]
        BY <1>1, <3>1 DEF Recorded
      <4>2. QED
        BY <1>2, <4>1
    <3>2. QED
      BY <1>2, <3>1 DEF Follows
  <2>3. QED
    BY <1>2, <2>1, <2>2
<1>4. \A v \in Works : Recorded(v, EpisodeCount[v]) => Recorded(v, EpisodeCount[v])'
  BY <1>2 DEF Recorded
<1>5. AccountInv'
  BY <1>1, <1>3, <1>4 DEF AccountInv
<1>6. ASSUME NEW s \in Section, NEW v \in Works
      PROVE  TrueTimes(log', v, times[s][v])
  <2>1. TrueTimes(log, v, times[s][v])
    BY DEF TimesInv
  <2>2. DOMAIN log \subseteq DOMAIN log'
    BY <1>2
  <2>3. QED
    BY <1>2, <2>1, <2>2, TimesStayTrue
<1>7. TimesInv'
  BY <1>1, <1>6 DEF TimesInv
<1>8. QED
  BY <1>5, <1>7

\* Only works with a record of their last episode become WATCHED, but by hand.
LEMMA CommandsKeepTimes ==
  ASSUME PagingInv, AccountInv, TimesInv, NEW w \in Works,
         FinishWork(w) \/ AddWork(w) \/ ShelveWork(w) \/ MarkWatched(w)
  PROVE  AccountInv' /\ TimesInv'
<1>1. PICK s \in {"WATCHING", "WATCHED", "OTHER"} :
        /\ UNCHANGED <<pc, size, offset, page, times, response, token, shown, log>>
        /\ status' = [status EXCEPT ![w] = s]
        /\ byHand \subseteq byHand'
        /\ s = "WATCHED" => w \in byHand' \/ Recorded(w, EpisodeCount[w])
  BY StatusSteps DEF PagingInv, UpdateStatus, requestVars, clientVars
<1>2. status \in [Works -> Section \cup {"OTHER"}]
  BY DEF PagingInv, TypeOK
<1>3. \A v \in Works : Recorded(v, EpisodeCount[v])' <=> Recorded(v, EpisodeCount[v])
  BY <1>1 DEF Recorded
<1>4. AccountInv'
  BY <1>1, <1>2, <1>3 DEF AccountInv
<1>5. TimesInv'
  BY <1>1 DEF TimesInv
<1>6. QED
  BY <1>4, <1>5

\* A request that has not read anything knows no times.
LEMMA FreshRequestKeepsTimes ==
  ASSUME AccountInv, UNCHANGED <<log, status>>, page' = NoPage, times' = Untimed,
         \A w \in byHand : status[w] = "WATCHED" => w \in byHand'
  PROVE  AccountInv' /\ TimesInv'
<1>1. page'["WATCHED"] = {}
  BY DEF NoPage, Section
<1>2. \A v \in Works : Recorded(v, EpisodeCount[v])' <=> Recorded(v, EpisodeCount[v])
  BY DEF Recorded
<1>3. AccountInv'
  BY <1>1, <1>2 DEF AccountInv
<1>4. TimesInv'
  BY <1>1, UntimedIsTrue DEF TimesInv
<1>5. QED
  BY <1>3, <1>4

\* A goroutine that reads no records leaves the times; if it reads a page, the
\* works of it have been watched to the end.
LEMMA QueryWorksKeepsTimes ==
  ASSUME PagingInv, AccountInv, TimesInv, NEW s \in Section, QueryWorks(s)
  PROVE  AccountInv' /\ TimesInv'
<1>1. /\ UNCHANGED <<log, status, byHand, response, times>> /\ pc[s] = "query"
      /\ page' = [page EXCEPT ![s] = PageOf(s)]
      /\ pc' = [pc EXCEPT ![s] = IF page'[s] = {} THEN "done" ELSE "records"]
  BY DEF QueryWorks, accountVars, clientVars
<1>2. /\ page \in [Section -> SUBSET Works] /\ s \in Goroutine /\ "WATCHED" \in Section
      /\ pc \in [Goroutine -> {"idle", "query", "records", "done", "failed"}]
      /\ "WATCHED" \in Goroutine
  BY DEF PagingInv, TypeOK, Goroutine, Section
<1>3. response = "none"
  BY <1>1, <1>2, UnderWay
<1>4. \A v \in Works : Recorded(v, EpisodeCount[v])' <=> Recorded(v, EpisodeCount[v])
  BY <1>1 DEF Recorded
<1>5. \A v \in Works :
        v \in page'["WATCHED"] => status[v] = "WATCHED" \/ v \in page["WATCHED"]
  BY <1>1, <1>2 DEF PageOf
<1>6. AccountInv'
  BY <1>1, <1>4, <1>5 DEF AccountInv
<1>7. pc'["WATCHED"] = "done" => page'["WATCHED"] = {} \/
                                 (pc["WATCHED"] = "done" /\ page'["WATCHED"] = page["WATCHED"])
  BY <1>1, <1>2
<1>8. TimesInv'
  BY <1>1, <1>3, <1>7 DEF TimesInv
<1>9. QED
  BY <1>6, <1>8

\* The records give every work of a page its times.
LEMMA QueryRecordsKeepsTimes ==
  ASSUME SortNumbersIncrease, PagingInv, AccountInv, TimesInv, NEW s \in Section, QueryRecords(s)
  PROVE  AccountInv' /\ TimesInv'
<1>1. /\ UNCHANGED <<log, status, byHand, response, page>> /\ pc[s] = "records"
      /\ pc' = [pc EXCEPT ![s] = "done"]
  BY DEF QueryRecords, accountVars, clientVars
<1>2. PICK m \in ListedTimes(log) :
        times' = [times EXCEPT ![s] = [w \in Works |->
                    IF w \in page[s] THEN m[Title[w]] ELSE NoTimes]]
  BY DEF QueryRecords
<1>3. /\ page \in [Section -> SUBSET Works] /\ s \in Goroutine /\ "WATCHED" \in Section
      /\ pc \in [Goroutine -> {"idle", "query", "records", "done", "failed"}]
      /\ log \in Seq(Record) /\ "WATCHED" \in Goroutine
      /\ times \in [Section -> [Works -> [begin : 0..MaxRecords, finish : 0..MaxRecords]]]
  BY DEF PagingInv, TypeOK, Goroutine, Section
<1>4. response = "none"
  BY <1>1, <1>3, UnderWay
<1>5. \A v \in Works : Recorded(v, EpisodeCount[v])' <=> Recorded(v, EpisodeCount[v])
  BY <1>1 DEF Recorded
<1>6. AccountInv'
  BY <1>1, <1>5 DEF AccountInv
<1>7. ASSUME NEW w \in Works
      PROVE  /\ TrueTimes(log, w, m[Title[w]])
             /\ Recorded(w, EpisodeCount[w]) /\ EpisodeCount[w] > 1 => m[Title[w]].finish # NoTime
  <2> DEFINE x == m[Title[w]]
  <2>1. \A i \in DOMAIN log : Follows(log, i)
    BY DEF AccountInv
  <2>2. /\ x \in TimesUpTo(Len(log))
        /\ x.begin # NoTime => \E v \in Namesakes(w) : log[x.begin] = [work |-> v, episode |-> 1]
        /\ x.finish # NoTime =>
             /\ x.begin # NoTime /\ x.begin # x.finish
             /\ \E v \in Namesakes(w) : log[x.finish] = [work |-> v, episode |-> EpisodeCount[v]]
        /\ \A p \in DOMAIN log :
             EpisodeCount[w] > 1 /\ log[p] = [work |-> w, episode |-> EpisodeCount[w]] =>
               x.finish # NoTime
    BY <1>3, <2>1, ListedTimesAreTrue DEF Namesakes
  <2> HIDE DEF x
  <2>3. Len(log) \in Nat /\ DOMAIN log = 1..Len(log)
    BY <1>3
  <2>4. (x.begin # NoTime => x.begin \in DOMAIN log) /\ (x.finish # NoTime => x.finish \in DOMAIN log)
    <3>1. x.begin \in 0..Len(log) /\ x.finish \in 0..Len(log)
      BY <2>2 DEF TimesUpTo
    <3>2. QED
      BY <2>3, <3>1 DEF NoTime
  <2>5. TrueTimes(log, w, x)
    BY <2>2, <2>4 DEF TrueTimes
  <2>6. Recorded(w, EpisodeCount[w]) /\ EpisodeCount[w] > 1 => x.finish # NoTime
    BY <2>2 DEF Recorded
  <2>7. QED
    BY <2>5, <2>6 DEF x
<1>8. \A w \in Works : TrueTimes(log, w, NoTimes)
  BY DEF TrueTimes, NoTimes, NoTime
<1>9. ASSUME NEW u \in Section, NEW w \in Works
      PROVE  TrueTimes(log, w, times'[u][w])
  <2>1. times'[u][w] = IF u # s THEN times[u][w] ELSE IF w \in page[s] THEN m[Title[w]] ELSE NoTimes
    BY <1>2, <1>3
  <2>2. TrueTimes(log, w, times[u][w])
    BY DEF TimesInv
  <2>3. QED
    BY <1>7, <1>8, <2>1, <2>2
<1>10. ASSUME pc'["WATCHED"] = "done", NEW w \in page["WATCHED"], EpisodeCount[w] > 1, w \notin byHand
       PROVE  times'["WATCHED"][w].finish # NoTime
  <2>1. w \in Works
    BY <1>3
  <2>2. CASE s = "WATCHED"
    <3>1. Recorded(w, EpisodeCount[w])
      BY <1>10, <2>1 DEF AccountInv
    <3>2. times'["WATCHED"][w] = m[Title[w]]
      BY <1>2, <1>3, <2>1, <2>2
    <3>3. QED
      BY <1>7, <1>10, <2>1, <3>1, <3>2
  <2>3. CASE s # "WATCHED"
    <3>1. pc["WATCHED"] = "done" /\ times'["WATCHED"] = times["WATCHED"]
      BY <1>1, <1>2, <1>3, <1>10, <2>3
    <3>2. QED
      BY <1>10, <3>1 DEF TimesInv
  <2>4. QED
    BY <2>2, <2>3
<1>11. TimesInv'
  BY <1>1, <1>4, <1>9, <1>10 DEF TimesInv
<1>12. QED
  BY <1>6, <1>11

LEMMA WaitKeepsTimes ==
  ASSUME PagingInv, AccountInv, TimesInv, Wait
  PROVE  AccountInv' /\ TimesInv'
<1>1. UNCHANGED <<log, status, byHand>> /\ pc' = [g \in Goroutine |-> "idle"]
  BY DEF Wait, Answer, Finish, accountVars
<1>2. CASE \A g \in Goroutine : pc[g] # "failed"
  <2>1. /\ ~Idle /\ \A g \in Goroutine : pc[g] \in {"idle", "done", "failed"}
        /\ UNCHANGED <<page, times>> /\ response' = "ok"
    BY <1>2 DEF Wait, Answer
  <2>2. pc["WATCHED"] = "done"
    <3>1. pc["WATCHED"] # "idle" /\ "WATCHED" \in Goroutine
      BY <2>1 DEF PagingInv, RequestInv, Goroutine, Section
    <3>2. QED
      BY <1>2, <2>1, <3>1
  <2>3. \A v \in Works : Recorded(v, EpisodeCount[v])' <=> Recorded(v, EpisodeCount[v])
    BY <1>1 DEF Recorded
  <2>4. QED
    BY <1>1, <2>1, <2>2, <2>3 DEF AccountInv, TimesInv
<1>3. CASE \E g \in Goroutine : pc[g] = "failed"
  <2>1. page' = NoPage /\ times' = Untimed
    BY <1>3 DEF Wait
  <2>2. QED
    BY <1>1, <2>1, FreshRequestKeepsTimes
<1>4. QED
  BY <1>2, <1>3

LEMMA NextKeepsTimes ==
  ASSUME SortNumbersIncrease
  PROVE  PagingInv /\ AccountInv /\ TimesInv /\ [Next]_vars => AccountInv' /\ TimesInv'
<1> SUFFICES ASSUME PagingInv, AccountInv, TimesInv, [Next]_vars PROVE AccountInv' /\ TimesInv'
  OBVIOUS
<1>1. ASSUME NEW w \in Works, NEW e \in Episodes(w), CreateRecord(w, e)
      PROVE  AccountInv' /\ TimesInv'
  BY <1>1, CreateRecordKeepsTimes
<1>2. ASSUME NEW w \in Works, FinishWork(w) \/ AddWork(w) \/ ShelveWork(w) \/ MarkWatched(w)
      PROVE  AccountInv' /\ TimesInv'
  BY <1>2, CommandsKeepTimes
<1>3. ASSUME NEW n \in PageSizes, Reject(n) \/ GetDashboard(n) \/ ListWorks(n)
      PROVE  AccountInv' /\ TimesInv'
  <2>1. /\ UNCHANGED <<log, status>> /\ page' = NoPage /\ times' = Untimed
        /\ \A w \in byHand : status[w] = "WATCHED" => w \in byHand'
    BY <1>3 DEF Reject, GetDashboard, ListWorks, Call, accountVars
  <2>2. QED
    BY <2>1, FreshRequestKeepsTimes
<1>4. CASE Wait
  BY <1>4, WaitKeepsTimes
<1>5. ASSUME NEW g \in Section, QueryWorks(g) \/ QueryRecords(g)
      PROVE  AccountInv' /\ TimesInv'
  BY <1>5, QueryWorksKeepsTimes, QueryRecordsKeepsTimes
<1>6. ASSUME UNCHANGED <<log, status, byHand, page, times, response>>,
             pc'["WATCHED"] = "done" => pc["WATCHED"] = "done"
      PROVE  AccountInv' /\ TimesInv'
  <2>1. \A v \in Works : Recorded(v, EpisodeCount[v])' <=> Recorded(v, EpisodeCount[v])
    BY <1>6 DEF Recorded
  <2>2. QED
    BY <1>6, <2>1 DEF AccountInv, TimesInv
<1>7. pc \in [Goroutine -> {"idle", "query", "records", "done", "failed"}]
  BY DEF PagingInv, TypeOK
<1>8. CASE QueryProfile
  <2>1. /\ UNCHANGED <<log, status, byHand, page, times, response>>
        /\ pc'["WATCHED"] = "done" => pc["WATCHED"] = "done"
    BY <1>7, <1>8 DEF QueryProfile, accountVars, clientVars, Goroutine, Section
  <2>2. QED
    BY <1>6, <2>1
<1>9. ASSUME NEW g \in Goroutine, QueryFails(g)
      PROVE  AccountInv' /\ TimesInv'
  <2>1. /\ UNCHANGED <<log, status, byHand, page, times, response>>
        /\ pc'["WATCHED"] = "done" => pc["WATCHED"] = "done"
    BY <1>7, <1>9 DEF QueryFails, accountVars, clientVars, Goroutine, Section
  <2>2. QED
    BY <1>6, <2>1
<1>10. CASE UNCHANGED vars
  <2>1. UNCHANGED <<log, status, byHand, page, times, response, pc>>
    BY <1>10 DEF vars
  <2>2. QED
    BY <1>6, <2>1
<1>11. QED
  BY <1>1, <1>2, <1>3, <1>4, <1>5, <1>8, <1>9, <1>10 DEF Next, Commands, Client, Query

\* Times shown are those of a first and a last episode, whatever works share a title.
THEOREM TimesAreTrue ==
  ASSUME SortNumbersIncrease
  PROVE  Spec => []TimesAreOfFirstAndLast
<1>1. PagingInv /\ TimesInv => TimesAreOfFirstAndLast
  <2> SUFFICES ASSUME PagingInv, TimesInv, NEW s \in Section, NEW w \in Listed(s)
      PROVE  LET t == times[s][w] IN
             /\ t.begin # NoTime =>
                  \E v \in Namesakes(w) : log[t.begin] = [work |-> v, episode |-> 1]
             /\ t.finish # NoTime =>
                  t.begin # NoTime
                  /\ \E v \in Namesakes(w) : log[t.finish] = [work |-> v, episode |-> EpisodeCount[v]]
    BY Zenon DEF TimesAreOfFirstAndLast
  <2>1. w \in Works
    BY DEF PagingInv, TypeOK, Listed
  <2>2. TrueTimes(log, w, times[s][w])
    BY <2>1 DEF TimesInv
  <2>3. QED
    BY <2>2 DEF TrueTimes
<1>2. QED
  BY <1>1, InitPagingInv, InitTimesInv, NextKeepsPagingInv, NextKeepsTimes, PTL DEF Spec

\* A work of several episodes that is shown as WATCHED, and that the owner has not
\* marked by hand, is shown with a finish time, although it may have become WATCHED
\* between the two queries.
THEOREM WatchedWorksAreFinished ==
  ASSUME SortNumbersIncrease
  PROVE  Spec => []WatchedWorksHaveFinishTimes
<1>1. TimesInv => WatchedWorksHaveFinishTimes
  BY DEF TimesInv, WatchedWorksHaveFinishTimes, Listed
<1>2. QED
  BY <1>1, InitPagingInv, InitTimesInv, NextKeepsPagingInv, NextKeepsTimes, PTL DEF Spec

\* Up to any record of a work there is one of its first episode.
LEMMA FirstEpisodeBefore ==
  ASSUME PagingInv, AccountInv, NEW p \in DOMAIN log
  PROVE  \E i \in 1..p : log[i] = [work |-> log[p].work, episode |-> 1]
<1> DEFINE T == {i \in 1..p : log[i].work = log[p].work}
<1>1. log \in Seq(Record) /\ p \in 1..Len(log) /\ Len(log) \in Nat /\ DOMAIN log = 1..Len(log)
  BY DEF PagingInv, TypeOK
<1>2. PICK i \in T : \A j \in T : i <= j
  <2>1. T \subseteq Nat /\ p \in T
    BY <1>1
  <2> HIDE DEF T
  <2>2. QED
    BY <2>1, LeastNumber
<1>3. i \in 1..p /\ i \in DOMAIN log /\ log[i].work = log[p].work
  BY <1>1, <1>2
<1>4. log[i] \in Record
  BY <1>1, <1>3
<1>5. ASSUME log[i].episode > 1
      PROVE  FALSE
  <2>1. PICK j \in 1..i - 1 : log[j] = [work |-> log[i].work, episode |-> log[i].episode - 1]
    BY <1>3, <1>5 DEF AccountInv, Follows
  <2>2. j \in T /\ j < i
    BY <1>1, <1>3, <2>1
  <2>3. QED
    BY <1>1, <1>2, <1>3, <2>2
<1>6. log[i].episode \in Episodes(log[i].work) /\ log[i].work \in Works
      /\ log[i] = [work |-> log[i].work, episode |-> log[i].episode]
  BY <1>4, RecordFields
<1>7. log[i].episode = 1
  <2>1. EpisodeCount[log[i].work] \in Nat
    BY <1>6, TimesAssumption
  <2>2. QED
    BY <1>5, <1>6, <2>1 DEF Episodes
<1>8. QED
  BY <1>3, <1>6, <1>7

\* A work is finished after it was begun, unless a first episode of its title was
\* recorded again; one of a single episode, recorded once, is not finished.
THEOREM WorksFinishAfterTheyBegin ==
  ASSUME SortNumbersIncrease
  PROVE  Spec => []FinishedAfterBegun
<1>1. PagingInv /\ AccountInv /\ TimesInv => FinishedAfterBegun
  <2> SUFFICES ASSUME PagingInv, AccountInv, TimesInv, NEW s \in Section, NEW w \in Listed(s),
                      Cardinality({i \in DOMAIN log :
                        log[i].work \in Namesakes(w) /\ log[i].episode = 1}) = 1,
                      times[s][w].finish # NoTime
      PROVE  times[s][w].begin < times[s][w].finish
    BY DEF FinishedAfterBegun
  <2> DEFINE t == times[s][w]
             firsts == {i \in DOMAIN log : log[i].work \in Namesakes(w) /\ log[i].episode = 1}
  <2>1. w \in Works
    BY DEF PagingInv, TypeOK, Listed
  <2>2. log \in Seq(Record) /\ Len(log) \in Nat /\ DOMAIN log = 1..Len(log)
    BY DEF PagingInv, TypeOK
  <2>3. TrueTimes(log, w, t)
    BY <2>1 DEF TimesInv
  <2>4. t.begin # NoTime /\ t.begin # t.finish /\ t.begin \in DOMAIN log /\ t.finish \in DOMAIN log
    BY <2>3 DEF TrueTimes
  <2> HIDE DEF t
  <2>5. t.begin \in firsts
    <3>1. PICK v \in Namesakes(w) : log[t.begin] = [work |-> v, episode |-> 1]
      BY <2>3, <2>4 DEF TrueTimes
    <3>2. log[t.begin].work = v /\ log[t.begin].episode = 1
      BY <3>1
    <3>3. QED
      BY <2>4, <3>2
  <2>6. log[t.finish].work \in Namesakes(w)
    <3>1. t.finish # NoTime
      BY DEF t
    <3>2. PICK v \in Namesakes(w) : log[t.finish] = [work |-> v, episode |-> EpisodeCount[v]]
      BY <2>3, <3>1 DEF TrueTimes
    <3>3. log[t.finish].work = v
      BY <3>2
    <3>4. QED
      BY <3>3
  <2>7. PICK i \in 1..t.finish : log[i] = [work |-> log[t.finish].work, episode |-> 1]
    BY <2>4, FirstEpisodeBefore
  <2>8. i \in DOMAIN log
    BY <2>2, <2>4
  <2>9. i \in firsts
    BY <2>6, <2>7, <2>8
  <2>10. i = t.begin
    <3>1. IsFiniteSet(firsts)
      <4>1. IsFiniteSet(1..Len(log))
        BY <2>2, FS_Interval
      <4>2. QED
        BY <2>2, <4>1, FS_Subset
    <3>2. Cardinality(firsts) = 1
      OBVIOUS
    <3> HIDE DEF firsts
    <3>3. PICK x : firsts = {x}
      BY <3>1, <3>2, FS_Singleton
    <3>4. QED
      BY <2>5, <2>9, <3>3
  <2>11. t.begin < t.finish
    BY <2>2, <2>4, <2>7, <2>10
  <2>12. QED
    BY <2>11 DEF t
<1>2. QED
  BY <1>1, InitPagingInv, InitTimesInv, NextKeepsPagingInv, NextKeepsTimes, PTL DEF Spec
=============================================================================
