------------------------ MODULE EpisodeRecorderProofs ------------------------
(***************************************************************************)
(* What EpisodeRecorder guarantees for every set of works, episodes,       *)
(* commands and faults.                                                    *)
(***************************************************************************)
EXTENDS EpisodeRecorder, FiniteSetTheorems, TLAPS

\* The requests are told apart by their operation, work and episode.
LEMMA MutationFacts ==
  /\ \A w \in Works, e \in Episode : Record(w, e) \in Mutation
  /\ \A w \in Works, s \in {"WATCHED", "WATCHING"} : Mark(w, s) \in Mutation
  /\ \A w, v \in Works, e, d \in Episode : Record(w, e) = Record(v, d) => w = v /\ e = d
  /\ \A w, v \in Works, e \in Episode, s \in {"WATCHED", "WATCHING"} :
       Record(w, e) # Mark(v, s)
<1>1. \A w \in Works, e \in Episode : Record(w, e) \in Mutation
  BY DEF Mutation
<1>2. \A w \in Works, s \in {"WATCHED", "WATCHING"} : Mark(w, s) \in Mutation
  BY DEF Mutation
<1>3. ASSUME NEW w \in Works, NEW v \in Works, NEW e \in Episode, NEW d \in Episode,
             Record(w, e) = Record(v, d)
      PROVE  w = v /\ e = d
  <2>1. Record(w, e).work = w /\ Record(v, d).work = v
    BY DEF Record
  <2>2. Record(w, e).episode = e /\ Record(v, d).episode = d
    BY DEF Record
  <2>3. QED
    BY <1>3, <2>1, <2>2
<1>4. ASSUME NEW w \in Works, NEW v \in Works, NEW e \in Episode,
             NEW s \in {"WATCHED", "WATCHING"}
      PROVE  Record(w, e) # Mark(v, s)
  <2>1. Record(w, e).op = "createRecord" /\ Mark(v, s).op = s
    BY DEF Record, Mark
  <2>2. QED
    BY <2>1
<1>5. QED
  BY <1>1, <1>2, <1>3, <1>4

\* A mutation names a work; a createRecord names an episode, an updateStatus a
\* status of Annict's.
LEMMA MutationShape ==
  ASSUME NEW m \in Mutation
  PROVE  /\ m.work \in Works
         /\ m.op = "createRecord" => m.episode \in Episode /\ m = Record(m.work, m.episode)
         /\ m.op # "createRecord" => m.op \in {"WATCHED", "WATCHING"} /\ m = Mark(m.work, m.op)
<1>1. CASE \E w \in Works, e \in Episode : m = Record(w, e)
  <2>1. PICK w \in Works, e \in Episode : m = Record(w, e)
    BY <1>1
  <2>2. m.work = w /\ m.op = "createRecord" /\ m.episode = e
    BY <2>1 DEF Record
  <2>3. QED
    BY <2>1, <2>2
<1>2. CASE \E w \in Works, s \in {"WATCHED", "WATCHING"} : m = Mark(w, s)
  <2>1. PICK w \in Works, s \in {"WATCHED", "WATCHING"} : m = Mark(w, s)
    BY <1>2
  <2>2. m.work = w /\ m.op = s
    BY <2>1 DEF Mark
  <2>3. QED
    BY <2>1, <2>2
<1>3. QED
  BY <1>1, <1>2 DEF Mutation

-----------------------------------------------------------------------------

LEMMA InitTypeOK == Init => TypeOK
<1> SUFFICES ASSUME Init PROVE TypeOK
  OBVIOUS
<1>1. AnnictTypeOK
  BY DEF Init, AnnictInit, AnnictTypeOK
<1>2. call \in [Commands -> [Mutation -> CallState]]
  BY DEF Init, NoCalls, CallState
<1>3. QED
  BY <1>1, <1>2, RecorderAssumption DEF Init, TypeOK, Command

LEMMA DieTypeOK == TypeOK /\ Die => TypeOK'
BY DEF TypeOK, AnnictTypeOK, Die, lateVars

LEMMA AcceptTypeOK ==
  ASSUME TypeOK, NEW k \in Commands, NEW c \in Command, Accept(k, c)
  PROVE  TypeOK'
BY DEF TypeOK, AnnictTypeOK, Accept, NoCalls, CallState, lateVars

LEMMA StartMutationsTypeOK ==
  ASSUME TypeOK, NEW k \in Commands, NEW ms, StartMutations(k, ms)
  PROVE  TypeOK'
BY DEF TypeOK, AnnictTypeOK, StartMutations, ToDo, CallState, lateVars

LEMMA CarryOutTypeOK ==
  ASSUME AnnictTypeOK, NEW m \in Mutation, CarryOut(m)
  PROVE  AnnictTypeOK'
<1>1. CASE m.op = "createRecord"
  <2>1. CreateRecord(m.work, m.episode)
    BY <1>1 DEF CarryOut
  <2>2. m.work \in Works /\ m.episode \in Episode
    BY <1>1, MutationShape
  <2>3. QED
    BY <2>1, <2>2 DEF CreateRecord, AnnictTypeOK
<1>2. CASE m.op # "createRecord"
  <2>1. UpdateStatus(m.work, m.op)
    BY <1>2 DEF CarryOut
  <2>2. m.work \in Works /\ m.op \in Status
    BY <1>2, MutationShape DEF Status
  <2>3. QED
    BY <2>1, <2>2 DEF UpdateStatus, AnnictTypeOK
<1>3. QED
  BY <1>1, <1>2

LEMMA MutateTypeOK ==
  ASSUME TypeOK, NEW k \in Commands, NEW m \in Mutation, Mutate(k, m)
  PROVE  TypeOK'
<1> USE DEF TypeOK, SetCall, CallState, lateVars
<1>1. CASE Send(k, m)
  BY <1>1 DEF Send, AnnictTypeOK
<1>2. CASE Apply(k, m)
  <2>1. AnnictTypeOK'
    BY <1>2, CarryOutTypeOK DEF Apply
  <2>2. QED
    BY <1>2, <2>1 DEF Apply
<1>3. CASE Acknowledge(k, m)
  BY <1>3 DEF Acknowledge, AnnictTypeOK
<1>4. CASE CallFails(k, m)
  BY <1>4 DEF CallFails, AnnictTypeOK
<1>5. CASE GiveUp(k, m)
  <2>1. late' = [late EXCEPT ![m] = @ + 1] /\ abandoned' = abandoned + 1
        /\ abandoned < MaxAbandoned
    BY <1>5 DEF GiveUp
  <2>2. abandoned' \in 0..MaxAbandoned /\ late' \in [Mutation -> Nat]
    BY <2>1, RecorderAssumption
  <2>3. AnnictTypeOK'
    BY <1>5 DEF GiveUp, AnnictTypeOK
  <2>4. QED
    BY <1>5, <2>2, <2>3 DEF GiveUp
<1>6. QED
  BY <1>1, <1>2, <1>3, <1>4, <1>5 DEF Mutate

LEMMA ApplyLateTypeOK ==
  ASSUME TypeOK, NEW m \in Mutation, ApplyLate(m)
  PROVE  TypeOK'
<1>1. AnnictTypeOK'
  BY CarryOutTypeOK DEF ApplyLate, TypeOK
<1>2. late' \in [Mutation -> Nat]
  BY DEF ApplyLate, TypeOK
<1>3. QED
  BY <1>1, <1>2 DEF ApplyLate, TypeOK

LEMMA ProceedTypeOK ==
  ASSUME TypeOK, NEW k \in Commands, Proceed(k)
  PROVE  TypeOK'
<1>1. CASE NilTitlePanics(k) \/ UnknownWorkPanics(k) \/ NoEpisodePanics(k)
  BY <1>1, DieTypeOK DEF NilTitlePanics, UnknownWorkPanics, NoEpisodePanics
<1>2. CASE ListNextEpisodes(k) \/ GetWork(k)
  BY <1>2, StartMutationsTypeOK DEF ListNextEpisodes, GetWork
<1>3. CASE QueryFails(k)
  BY <1>3 DEF QueryFails, TypeOK, AnnictTypeOK, lateVars
<1>4. CASE Wait(k)
  BY <1>4 DEF Wait, TypeOK, AnnictTypeOK, lateVars
<1>5. CASE PostWebhook(k)
  BY <1>5 DEF PostWebhook, TypeOK, AnnictTypeOK, lateVars
<1>6. QED
  BY <1>1, <1>2, <1>3, <1>4, <1>5 DEF Proceed

LEMMA NextTypeOK == TypeOK /\ [Next]_vars => TypeOK'
<1> SUFFICES ASSUME TypeOK, [Next]_vars PROVE TypeOK'
  OBVIOUS
<1>1. ASSUME NEW k \in Commands, AcceptStart(k) \/ AcceptAdd(k)
      PROVE  TypeOK'
  BY <1>1, AcceptTypeOK, RecorderAssumption DEF AcceptStart, AcceptAdd, Command
<1>2. ASSUME NEW k \in Commands, Proceed(k)
      PROVE  TypeOK'
  BY <1>2, ProceedTypeOK
<1>3. ASSUME NEW k \in Commands, NEW m \in Mutation, Mutate(k, m)
      PROVE  TypeOK'
  BY <1>3, MutateTypeOK
<1>4. CASE Kill
  BY <1>4, DieTypeOK DEF Kill
<1>5. CASE Restart
  BY <1>5, RecorderAssumption DEF Restart, TypeOK, AnnictTypeOK, lateVars
<1>6. ASSUME NEW w \in Works, SetStatusByHand(w)
      PROVE  TypeOK'
  BY <1>6, AnnictAssumption DEF SetStatusByHand, UpdateStatus, TypeOK, AnnictTypeOK, lateVars
<1>7. ASSUME NEW m \in Mutation, ApplyLate(m)
      PROVE  TypeOK'
  BY <1>7, ApplyLateTypeOK
<1>8. CASE UNCHANGED vars
  BY <1>8 DEF vars, TypeOK, AnnictTypeOK
<1>9. QED
  BY <1>1, <1>2, <1>3, <1>4, <1>5, <1>6, <1>7, <1>8 DEF Next

\* The type invariant of EpisodeRecorder.
THEOREM TypeCorrect == Spec => []TypeOK
BY InitTypeOK, NextTypeOK, PTL DEF Spec

-----------------------------------------------------------------------------
(* What a step may do to the account, the calls and the requests under way. *)

\* The account changes by Annict carrying out a request that is under way, or by
\* its owner.
LEMMA AccountChanges ==
  ASSUME TypeOK, [Next]_vars
  PROVE  \/ UNCHANGED <<records, status>>
         \/ \E m \in Mutation : UnderWay(m) /\ CarryOut(m)
         \/ \E w \in Works : SetStatusByHand(w)
<1> DEFINE Goal == \/ UNCHANGED <<records, status>>
                   \/ \E m \in Mutation : UnderWay(m) /\ CarryOut(m)
                   \/ \E w \in Works : SetStatusByHand(w)
<1>1. ASSUME NEW k \in Commands, NEW m \in Mutation, Mutate(k, m)
      PROVE  Goal
  <2>1. CASE Apply(k, m)
    BY <2>1 DEF Apply, UnderWay
  <2>2. CASE Send(k, m) \/ Acknowledge(k, m) \/ CallFails(k, m) \/ GiveUp(k, m)
    BY <2>2 DEF Send, Acknowledge, CallFails, GiveUp
  <2>3. QED
    BY <1>1, <2>1, <2>2 DEF Mutate
<1>2. ASSUME NEW m \in Mutation, ApplyLate(m)
      PROVE  Goal
  BY <1>2 DEF ApplyLate, UnderWay
<1>3. ASSUME NEW k \in Commands, AcceptStart(k) \/ AcceptAdd(k) \/ Proceed(k)
      PROVE  UNCHANGED <<records, status>>
  BY <1>3 DEF AcceptStart, AcceptAdd, Accept, Proceed, ListNextEpisodes, GetWork,
              StartMutations, NilTitlePanics, UnknownWorkPanics, NoEpisodePanics, Die,
              QueryFails, Wait, PostWebhook
<1>4. CASE Kill \/ Restart \/ UNCHANGED vars
  BY <1>4 DEF Kill, Die, Restart, vars
<1>5. QED
  BY <1>1, <1>2, <1>3, <1>4 DEF Next

\* What carrying out a createRecord makes of the records.
LEMMA CreateRecordEffect ==
  ASSUME AnnictTypeOK, NEW m \in Mutation, m.op = "createRecord", CarryOut(m),
         NEW w \in Works, NEW e \in Episode
  PROVE  records'[w][e] = IF m = Record(w, e) THEN records[w][e] + 1 ELSE records[w][e]
<1> DEFINE v == m.work
           d == m.episode
<1>1. v \in Works /\ d \in Episode /\ m = Record(v, d)
  BY MutationShape
<1>2. records' = [records EXCEPT ![v][d] = @ + 1]
  BY DEF CarryOut, CreateRecord
<1>3. m = Record(w, e) <=> v = w /\ d = e
  BY <1>1, MutationFacts
<1> HIDE DEF v, d
<1>4. QED
  BY <1>1, <1>2, <1>3 DEF AnnictTypeOK

\* Annict forgets no record.
LEMMA RecordsGrow ==
  ASSUME TypeOK, [Next]_vars, NEW w \in Works, NEW e \in Episode
  PROVE  /\ records[w][e] \in Nat /\ records'[w][e] \in Nat
         /\ records[w][e] <= records'[w][e]
<1>1. records[w][e] \in Nat /\ records'[w][e] \in Nat
  <2>1. records \in [Works -> [Episode -> Nat]] /\ records' \in [Works -> [Episode -> Nat]]
    BY NextTypeOK DEF TypeOK, AnnictTypeOK
  <2>2. QED
    BY <2>1
<1>2. ASSUME NEW m \in Mutation, CarryOut(m)
      PROVE  records[w][e] <= records'[w][e]
  <2>1. CASE m.op = "createRecord"
    BY <1>1, <1>2, <2>1, CreateRecordEffect DEF TypeOK
  <2>2. CASE m.op # "createRecord"
    BY <1>1, <1>2, <2>2 DEF CarryOut, UpdateStatus
  <2>3. QED
    BY <2>1, <2>2
<1>3. QED
  BY <1>1, <1>2, AccountChanges DEF SetStatusByHand, UpdateStatus

\* What has been watched stays watched.
LEMMA WatchedStays ==
  ASSUME TypeOK, [Next]_vars
  PROVE  /\ \A w \in Works, e \in Episode : Watched(w, e) => Watched(w, e)'
         /\ \A w \in Works : Finished(w) => Finished(w)'
<1>1. \A w \in Works, e \in Episode : Watched(w, e) => Watched(w, e)'
  BY RecordsGrow DEF Watched
<1>2. \A w \in Works : EpisodeCount[w] > 0 => EpisodeCount[w] \in Episode
  BY AnnictAssumption DEF Episode
<1>3. QED
  BY <1>1, <1>2 DEF Finished

\* A call changes by being forgotten, planned, or by a step of its own.
LEMMA CallChanges ==
  ASSUME TypeOK, [Next]_vars, NEW k \in Commands, NEW m \in Mutation
  PROVE  \/ call'[k][m] = call[k][m]
         \/ call'[k][m] = "none"
         \/ call'[k][m] = "todo" /\ (ListNextEpisodes(k) \/ GetWork(k))
         \/ Mutate(k, m)
<1> DEFINE Goal == \/ call'[k][m] = call[k][m]
                   \/ call'[k][m] = "none"
                   \/ call'[k][m] = "todo" /\ (ListNextEpisodes(k) \/ GetWork(k))
                   \/ Mutate(k, m)
<1>1. ASSUME NEW j \in Commands, AcceptStart(j) \/ AcceptAdd(j)
      PROVE  Goal
  <2>1. call' = [call EXCEPT ![j] = NoCalls]
    BY <1>1 DEF AcceptStart, AcceptAdd, Accept
  <2>2. call'[k] = call[k] \/ call'[k] = NoCalls
    BY <2>1 DEF TypeOK
  <2>3. QED
    BY <2>2 DEF NoCalls
<1>2. ASSUME NEW j \in Commands, ListNextEpisodes(j) \/ GetWork(j)
      PROVE  Goal
  <2>1. PICK ms : call' = [call EXCEPT ![j] = ToDo(ms)]
    BY <1>2 DEF ListNextEpisodes, GetWork, StartMutations
  <2>2. j # k => call'[k] = call[k]
    BY <2>1 DEF TypeOK
  <2>3. j = k => call'[k][m] \in {"none", "todo"}
    BY <2>1 DEF TypeOK, ToDo
  <2>4. QED
    BY <1>2, <2>2, <2>3
<1>3. ASSUME NEW j \in Commands, NEW n \in Mutation, Mutate(j, n)
      PROVE  Goal
  <2>1. CASE j = k /\ n = m
    BY <1>3, <2>1
  <2>2. CASE ~(j = k /\ n = m)
    <3>1. PICK s \in CallState : call' = [call EXCEPT ![j][n] = s]
      BY <1>3 DEF Mutate, Send, Apply, Acknowledge, CallFails, GiveUp, SetCall, CallState
    <3>2. call'[k][m] = call[k][m]
      BY <2>2, <3>1 DEF TypeOK
    <3>3. QED
      BY <3>2
  <2>3. QED
    BY <2>1, <2>2
<1>4. CASE UNCHANGED call
  BY <1>4
<1>5. QED
  BY <1>1, <1>2, <1>3, <1>4
     DEF Next, vars, Proceed, NilTitlePanics, UnknownWorkPanics, NoEpisodePanics, Die,
         QueryFails, Wait, PostWebhook, Kill, Restart, SetStatusByHand, ApplyLate

\* A request is given up once: by the command that has sent it.
LEMMA LateChanges ==
  ASSUME TypeOK, [Next]_vars, NEW m \in Mutation
  PROVE  \/ late'[m] = late[m] /\ abandoned' \in {abandoned, abandoned + 1}
         \/ late[m] > 0 /\ late'[m] = late[m] - 1 /\ abandoned' = abandoned /\ ApplyLate(m)
         \/ /\ late'[m] = late[m] + 1 /\ abandoned' = abandoned + 1
            /\ \E k \in Commands : GiveUp(k, m)
<1> USE DEF TypeOK
<1>1. CASE UNCHANGED lateVars
  BY <1>1 DEF lateVars
<1>2. ASSUME NEW k \in Commands, NEW n \in Mutation, GiveUp(k, n)
      PROVE  /\ late'[m] = IF n = m THEN late[m] + 1 ELSE late[m]
             /\ abandoned' = abandoned + 1
  BY <1>2 DEF GiveUp
<1>3. ASSUME NEW n \in Mutation, ApplyLate(n)
      PROVE  /\ n = m => late[m] > 0
             /\ late'[m] = IF n = m THEN late[m] - 1 ELSE late[m]
             /\ abandoned' = abandoned
  BY <1>3 DEF ApplyLate
<1>4. ASSUME NEW k \in Commands, NEW n \in Mutation, Mutate(k, n), ~GiveUp(k, n)
      PROVE  UNCHANGED lateVars
  BY <1>4 DEF Mutate, Send, Apply, Acknowledge, CallFails, lateVars
<1>5. ASSUME NEW k \in Commands, AcceptStart(k) \/ AcceptAdd(k) \/ Proceed(k)
      PROVE  UNCHANGED lateVars
  BY <1>5 DEF AcceptStart, AcceptAdd, Accept, Proceed, ListNextEpisodes, GetWork,
              StartMutations, NilTitlePanics, UnknownWorkPanics, NoEpisodePanics, Die,
              QueryFails, Wait, PostWebhook, lateVars
<1>6. CASE Kill \/ Restart \/ UNCHANGED vars \/ \E w \in Works : SetStatusByHand(w)
  BY <1>6 DEF Kill, Die, Restart, SetStatusByHand, vars, lateVars
<1>7. QED
  BY <1>1, <1>2, <1>3, <1>4, <1>5, <1>6 DEF Next

\* A request comes under way only by being planned.
LEMMA UnderWayChanges ==
  ASSUME TypeOK, [Next]_vars, NEW m \in Mutation, UnderWay(m)'
  PROVE  \/ UnderWay(m)
         \/ \E k \in Commands : call'[k][m] = "todo" /\ (ListNextEpisodes(k) \/ GetWork(k))
<1>1. ASSUME NEW k \in Commands, call'[k][m] \in {"todo", "sent"}, ~UnderWay(m)
      PROVE  call'[k][m] = "todo" /\ (ListNextEpisodes(k) \/ GetWork(k))
  <2>1. call[k][m] \notin {"todo", "sent"}
    BY <1>1 DEF UnderWay
  <2>2. ~Mutate(k, m)
    BY <1>1, <2>1 DEF Mutate, Send, Apply, Acknowledge, CallFails, GiveUp, SetCall, TypeOK
  <2>3. QED
    BY <1>1, <2>1, <2>2, CallChanges
<1>2. ASSUME late'[m] > 0
      PROVE  UnderWay(m)
  <2>1. late[m] \in Nat
    BY DEF TypeOK
  <2>2. CASE \E k \in Commands : GiveUp(k, m)
    BY <2>2 DEF GiveUp, UnderWay
  <2>3. CASE ~\E k \in Commands : GiveUp(k, m)
    BY <1>2, <2>1, <2>3, LateChanges DEF UnderWay
  <2>4. QED
    BY <2>2, <2>3
<1>3. QED
  BY <1>1, <1>2 DEF UnderWay

\* What a start plans to record is next in the listing it has read.
LEMMA StartPlansLatest ==
  ASSUME TypeOK, NEW k \in Commands, ListNextEpisodes(k), NEW w \in Works, NEW e \in Episode,
         call'[k][Record(w, e)] = "todo"
  PROVE  e \in Latest(w)
<1>1. PICK next \in Selections : StartMutations(k, StartCalls(next))
  BY DEF ListNextEpisodes
<1>2. Record(w, e) \in StartCalls(next)
  BY <1>1, MutationFacts DEF StartMutations, ToDo, TypeOK
<1>3. PICK v \in DOMAIN next : Record(w, e) = Record(v, next[v])
  BY <1>2, MutationFacts DEF StartCalls, WorksToFinish
<1>4. v \in Works /\ next[v] \in Latest(v) /\ next[v] \in Episode
  BY DEF Selections, WorksToAdvance
<1>5. PICK d \in Episode : d = next[v]
  BY <1>4
<1>6. v = w /\ d = e
  BY <1>3, <1>4, <1>5, MutationFacts
<1>7. QED
  BY <1>4, <1>5, <1>6

\* An add plans to record what Annict lists first.
LEMMA AddPlansFirst ==
  ASSUME TypeOK, NEW k \in Commands, GetWork(k), NEW w \in Works, NEW e \in Episode,
         call'[k][Record(w, e)] = "todo"
  PROVE  e \in FirstListed(w)
<1> DEFINE v == cmd[k].work
<1>1. v \in Works
  BY DEF GetWork, TypeOK, Command
<1>2. PICK first : /\ first = {} \/ \E d \in FirstListed(v) : first = {d}
                   /\ StartMutations(k, AddCalls(v, first))
  BY DEF GetWork
<1>3. Record(w, e) \in AddCalls(v, first)
  BY <1>2, MutationFacts DEF StartMutations, ToDo, TypeOK
<1> HIDE DEF v
<1>4. PICK d \in first : Record(w, e) = Record(v, d)
  BY <1>1, <1>3, MutationFacts DEF AddCalls
<1>5. d \in FirstListed(v)
  BY <1>2
<1>6. d \in Episode
  BY <1>1, <1>5, AnnictAssumption DEF FirstListed, Episode
<1>7. w = v /\ e = d
  BY <1>1, <1>4, <1>6, MutationFacts
<1>8. QED
  BY <1>5, <1>7

-----------------------------------------------------------------------------
(* The inductive invariant: no hole, and no request under way that would    *)
(* make one.                                                                *)

\* Annict's sort numbers put the first episode of a work first.
FirstEpisodeSortsFirst ==
  \A w \in Works : \A e \in 2..EpisodeCount[w] : SortNumber[w][1] < SortNumber[w][e]

LEMMA FirstListedIsFirst ==
  ASSUME FirstEpisodeSortsFirst, NEW w \in Works, NEW e \in FirstListed(w)
  PROVE  e = 1
<1>1. EpisodeCount[w] \in Nat /\ EpisodeCount[w] <= MaxEpisodes /\ MaxEpisodes \in Nat
  BY AnnictAssumption
<1>2. e \in 1..EpisodeCount[w] /\ 1 \in 1..EpisodeCount[w] /\ SortNumber[w][e] <= SortNumber[w][1]
  BY <1>1 DEF FirstListed
<1>3. SUFFICES ASSUME e # 1 PROVE FALSE
  OBVIOUS
<1>4. SortNumber[w][1] < SortNumber[w][e]
  BY <1>1, <1>2, <1>3 DEF FirstEpisodeSortsFirst
<1>5. SortNumber[w][1] \in Int /\ SortNumber[w][e] \in Int
  BY <1>1, <1>2, AnnictAssumption DEF Episode
<1>6. QED
  BY <1>2, <1>4, <1>5

IInv == TypeOK /\ PendingRecordsFollow /\ NoEpisodeSkipped

\* Whatever a start or an add plans follows what Annict has on record.
LEMMA PlannedRecordsFollow ==
  ASSUME FirstEpisodeSortsFirst, TypeOK, NEW k \in Commands, ListNextEpisodes(k) \/ GetWork(k),
         NEW w \in Works, NEW e \in 2..MaxEpisodes,
         call'[k][Record(w, e)] = "todo"
  PROVE  Watched(w, e - 1)
<1>1. e \in Episode /\ e # 1
  BY DEF Episode
<1>2. ~GetWork(k)
  BY <1>1, AddPlansFirst, FirstListedIsFirst
<1>3. e \in Latest(w)
  BY <1>1, <1>2, StartPlansLatest
<1>4. QED
  BY <1>3 DEF Latest, Eligible, NextEpisodes

LEMMA InitIInv == Init => IInv
<1> SUFFICES ASSUME Init PROVE IInv
  OBVIOUS
<1>1. PendingRecordsFollow
  BY MutationFacts DEF Init, NoCalls, PendingRecordsFollow, UnderWay, Episode
<1>2. NoEpisodeSkipped
  <2>1. PICK watched \in [Works -> 0..MaxEpisodes] :
          records = [w \in Works |-> [e \in Episode |-> IF e <= watched[w] THEN 1 ELSE 0]]
    BY DEF Init, AnnictInit
  <2>2. QED
    BY <2>1, AnnictAssumption DEF NoEpisodeSkipped, Watched, Episode
<1>3. QED
  BY <1>1, <1>2, InitTypeOK DEF IInv

\* A record that is made now was under way, and so follows another one.
LEMMA NextNoEpisodeSkipped ==
  ASSUME IInv, [Next]_vars
  PROVE  NoEpisodeSkipped'
<1> SUFFICES ASSUME NEW w \in Works, NEW e \in 2..MaxEpisodes, Watched(w, e)'
             PROVE  Watched(w, e - 1)'
  BY DEF NoEpisodeSkipped
<1>1. TypeOK /\ AnnictTypeOK /\ e \in Episode /\ e - 1 \in Episode
  BY AnnictAssumption DEF IInv, TypeOK, Episode
<1>2. SUFFICES Watched(w, e - 1)
  BY <1>1, WatchedStays
<1>3. CASE Watched(w, e)
  BY <1>3 DEF IInv, NoEpisodeSkipped
<1>4. CASE ~Watched(w, e)
  <2>1. records'[w][e] # records[w][e]
    BY <1>4 DEF Watched
  <2>2. PICK m \in Mutation : UnderWay(m) /\ CarryOut(m)
    BY <1>1, <2>1, AccountChanges DEF SetStatusByHand, UpdateStatus
  <2>3. m.op = "createRecord"
    BY <2>1, <2>2 DEF CarryOut, UpdateStatus
  <2>4. m = Record(w, e)
    BY <1>1, <2>1, <2>2, <2>3, CreateRecordEffect
  <2>5. QED
    BY <2>2, <2>4 DEF IInv, PendingRecordsFollow
<1>5. QED
  BY <1>3, <1>4

LEMMA NextIInv ==
  ASSUME FirstEpisodeSortsFirst
  PROVE  IInv /\ [Next]_vars => IInv'
<1> SUFFICES ASSUME IInv, [Next]_vars PROVE IInv'
  OBVIOUS
<1>1. TypeOK'
  BY NextTypeOK DEF IInv
<1>2. PendingRecordsFollow'
  <2> SUFFICES ASSUME NEW w \in Works, NEW e \in 2..MaxEpisodes, UnderWay(Record(w, e))'
               PROVE  Watched(w, e - 1)'
    BY DEF PendingRecordsFollow
  <2>1. TypeOK /\ e - 1 \in Episode /\ Record(w, e) \in Mutation
    BY AnnictAssumption, MutationFacts DEF IInv, Episode
  <2>2. Watched(w, e - 1)
    <3>1. CASE UnderWay(Record(w, e))
      BY <3>1 DEF IInv, PendingRecordsFollow
    <3>2. CASE ~UnderWay(Record(w, e))
      BY <2>1, <3>2, UnderWayChanges, PlannedRecordsFollow
    <3>3. QED
      BY <3>1, <3>2
  <2>3. QED
    BY <2>1, <2>2, WatchedStays
<1>3. QED
  BY <1>1, <1>2, NextNoEpisodeSkipped DEF IInv

\* Where Annict sorts the first episode of a work first, the records of a work
\* have no hole, whatever commands overlap, fail, are given up or repeated.
THEOREM NoEpisodeIsSkipped ==
  ASSUME FirstEpisodeSortsFirst
  PROVE  Spec => []NoEpisodeSkipped
<1>1. IInv => NoEpisodeSkipped
  BY DEF IInv
<1>2. QED
  BY <1>1, InitIInv, NextIInv, PTL DEF Spec

\* A record that is still to be created, or on its way, follows one that Annict
\* has, whatever other commands have done since it was planned, and also when
\* the command that planned it is long over.
THEOREM PendingRecordsHaveTheirPredecessor ==
  ASSUME FirstEpisodeSortsFirst
  PROVE  Spec => []PendingRecordsFollow
<1>1. IInv => PendingRecordsFollow
  BY DEF IInv
<1>2. QED
  BY <1>1, InitIInv, NextIInv, PTL DEF Spec

-----------------------------------------------------------------------------
(* What is reported has been recorded, and what is marked is finished.     *)

\* A call that has taken effect has left its record; a command that reports
\* success had each of its calls acknowledged; none reports while it works.
ReportInv ==
  /\ \A k \in Commands, w \in Works, e \in Episode :
       call[k][Record(w, e)] \in {"applied", "acked"} => Watched(w, e)
  /\ \A k \in Commands : outcome[k] = "ok" => \A m \in Mutation : call[k][m] \in {"none", "acked"}
  /\ \A k \in Commands : pc[k] \in {"query", "mutating"} => outcome[k] = "none"

\* A request under way to mark a work WATCHED is about a finished work.
MarkInv == \A w \in Works : UnderWay(Mark(w, "WATCHED")) => Finished(w)

\* A command works in silence: it has an outcome only after its calls.
LEMMA OutcomeChanges ==
  ASSUME TypeOK, ReportInv, [Next]_vars, NEW k \in Commands
  PROVE  /\ pc'[k] \in {"query", "mutating"} => outcome'[k] = "none"
         /\ outcome'[k] = "ok" => outcome[k] = "ok" \/ Wait(k)
<1> USE DEF TypeOK, ReportInv
<1>1. ASSUME NEW j \in Commands, AcceptStart(j) \/ AcceptAdd(j)
      PROVE  /\ pc'[k] \in {"query", "mutating"} => outcome'[k] = "none"
             /\ outcome'[k] = "ok" => outcome[k] = "ok" \/ Wait(k)
  BY <1>1 DEF AcceptStart, AcceptAdd, Accept
<1>2. ASSUME NEW j \in Commands, Proceed(j)
      PROVE  /\ pc'[k] \in {"query", "mutating"} => outcome'[k] = "none"
             /\ outcome'[k] = "ok" => outcome[k] = "ok" \/ Wait(k)
  <2>1. CASE NilTitlePanics(j) \/ UnknownWorkPanics(j) \/ NoEpisodePanics(j)
    BY <2>1 DEF NilTitlePanics, UnknownWorkPanics, NoEpisodePanics, Die
  <2>2. CASE ListNextEpisodes(j) \/ GetWork(j)
    BY <2>2 DEF ListNextEpisodes, GetWork, StartMutations
  <2>3. CASE QueryFails(j)
    BY <2>3 DEF QueryFails
  <2>4. CASE Wait(j)
    BY <2>4 DEF Wait
  <2>5. CASE PostWebhook(j)
    BY <2>5 DEF PostWebhook
  <2>6. QED
    BY <1>2, <2>1, <2>2, <2>3, <2>4, <2>5 DEF Proceed
<1>3. CASE Kill
  BY <1>3 DEF Kill, Die
<1>4. CASE UNCHANGED <<pc, outcome>>
  BY <1>4
<1>5. QED
  BY <1>1, <1>2, <1>3, <1>4
     DEF Next, vars, Mutate, Send, Apply, Acknowledge, CallFails, GiveUp, ApplyLate, Restart,
         SetStatusByHand

\* Every step keeps reports true.
LEMMA NextReportInv == TypeOK /\ ReportInv /\ [Next]_vars => ReportInv'
<1> SUFFICES ASSUME TypeOK, ReportInv, [Next]_vars PROVE ReportInv'
  OBVIOUS
<1>1. ASSUME NEW k \in Commands, NEW w \in Works, NEW e \in Episode,
             call'[k][Record(w, e)] \in {"applied", "acked"}
      PROVE  Watched(w, e)'
  <2> DEFINE m == Record(w, e)
  <2>0. m \in Mutation /\ m.op = "createRecord" /\ m.work = w /\ m.episode = e
    BY MutationFacts DEF Record
  <2>1. CASE call[k][m] \in {"applied", "acked"}
    BY <2>1, WatchedStays DEF ReportInv
  <2>2. CASE call[k][m] \notin {"applied", "acked"}
    <3>1. Mutate(k, m)
      BY <1>1, <2>0, <2>2, CallChanges
    <3>2. Apply(k, m)
      BY <1>1, <2>0, <2>2, <3>1
         DEF Mutate, Send, Acknowledge, CallFails, GiveUp, SetCall, TypeOK
    <3>3. CreateRecord(w, e)
      BY <2>0, <3>2 DEF Apply, CarryOut
    <3>4. records'[w][e] = records[w][e] + 1 /\ records[w][e] \in Nat
      BY <3>3 DEF CreateRecord, TypeOK, AnnictTypeOK
    <3>5. QED
      BY <3>4 DEF Watched
  <2>3. QED
    BY <2>1, <2>2
<1>2. ASSUME NEW k \in Commands, outcome'[k] = "ok", NEW m \in Mutation
      PROVE  call'[k][m] \in {"none", "acked"}
  <2>1. CASE outcome[k] = "ok"
    <3>1. call[k][m] \in {"none", "acked"} /\ pc[k] \notin {"query", "mutating"}
      BY <2>1 DEF ReportInv
    <3>2. ~Mutate(k, m)
      BY <3>1 DEF Mutate, Send, Apply, Acknowledge, CallFails, GiveUp
    <3>3. ~(ListNextEpisodes(k) \/ GetWork(k))
      BY <3>1 DEF ListNextEpisodes, GetWork
    <3>4. QED
      BY <3>1, <3>2, <3>3, CallChanges
  <2>2. CASE Wait(k)
    <3>1. call' = call /\ call[k][m] \notin Unsettled
      BY <2>2 DEF Wait
    <3>2. outcome'[k] = IF \E n \in Mutation : call[k][n] = "failed" THEN "error" ELSE "ok"
      BY <2>2 DEF Wait, TypeOK
    <3>3. call[k][m] # "failed"
      BY <1>2, <3>2
    <3>4. call[k][m] \in CallState
      BY DEF TypeOK
    <3>5. QED
      BY <3>1, <3>3, <3>4 DEF CallState, Unsettled
  <2>3. QED
    BY <1>2, <2>1, <2>2, OutcomeChanges
<1>3. QED
  BY <1>1, <1>2, OutcomeChanges DEF ReportInv

\* Marks of a start are about works that its listing shows as finished.
LEMMA PlannedMarks ==
  ASSUME TypeOK, NEW k \in Commands, ListNextEpisodes(k) \/ GetWork(k), NEW w \in Works,
         call'[k][Mark(w, "WATCHED")] = "todo"
  PROVE  Finished(w)
<1> DEFINE m == Mark(w, "WATCHED")
<1>0. m \in Mutation
  BY MutationFacts
<1>1. CASE ListNextEpisodes(k)
  <2>1. PICK next \in Selections : StartMutations(k, StartCalls(next))
    BY <1>1 DEF ListNextEpisodes
  <2>2. m \in StartCalls(next)
    BY <1>0, <2>1 DEF StartMutations, ToDo, TypeOK
  <2>3. \A v \in DOMAIN next : v \in Works /\ next[v] \in Episode
    BY DEF Selections, WorksToAdvance
  <2>4. PICK v \in WorksToFinish : m = Mark(v, "WATCHED")
    BY <2>2, <2>3, MutationFacts DEF StartCalls
  <2>5. v = w
    BY <2>4 DEF Mark
  <2>6. QED
    BY <2>4, <2>5 DEF WorksToFinish
<1>2. CASE GetWork(k)
  <2>1. PICK v, first : StartMutations(k, AddCalls(v, first))
    BY <1>2 DEF GetWork
  <2>2. m \in AddCalls(v, first)
    BY <1>0, <2>1 DEF StartMutations, ToDo, TypeOK
  <2>3. m.op = "WATCHED" /\ \A n \in AddCalls(v, first) : n.op \in {"WATCHING", "createRecord"}
    BY DEF AddCalls, Mark, Record
  <2>4. QED
    BY <2>2, <2>3
<1>3. QED
  BY <1>1, <1>2

\* Marks are planned for finished works, and works stay finished.
LEMMA NextMarkInv == TypeOK /\ MarkInv /\ [Next]_vars => MarkInv'
<1> SUFFICES ASSUME TypeOK, MarkInv, [Next]_vars,
                    NEW w \in Works, UnderWay(Mark(w, "WATCHED"))'
             PROVE  Finished(w)'
  BY DEF MarkInv
<1>1. Mark(w, "WATCHED") \in Mutation
  BY MutationFacts
<1>2. Finished(w)
  BY <1>1, UnderWayChanges, PlannedMarks DEF MarkInv
<1>3. QED
  BY <1>2, WatchedStays

\* At the start nothing is pending and nothing reported.
LEMMA InitReportInv == Init => ReportInv /\ MarkInv
BY MutationFacts DEF Init, NoCalls, ReportInv, MarkInv, UnderWay

\* A command that posts success has its records at Annict, whichever answers
\* were lost and whatever the other commands did meanwhile.
THEOREM ReportsAreTrue == Spec => []ReportedEpisodesAreRecorded
<1>1. ReportInv => ReportedEpisodesAreRecorded
  BY MutationFacts DEF ReportInv, ReportedEpisodesAreRecorded
<1>2. QED
  BY <1>1, InitTypeOK, NextTypeOK, InitReportInv, NextReportInv, PTL DEF Spec

\* If the owner leaves WATCHED to the server, only finished works get it.
THEOREM OnlyFinishedWorksAreMarked ==
  ASSUME "WATCHED" \notin UserStatuses
  PROVE  Spec => OnlyFinishedWorksBecomeWatched
<1>1. ASSUME TypeOK, MarkInv, Next, NEW w \in Works, status[w] # "WATCHED", status'[w] = "WATCHED"
      PROVE  Finished(w)
  <2>1. ASSUME NEW m \in Mutation, UnderWay(m), CarryOut(m)
        PROVE  Finished(w)
    <3>1. m.op # "createRecord"
      BY <1>1, <2>1 DEF CarryOut, CreateRecord
    <3>2. m.work \in Works /\ m = Mark(m.work, m.op) /\ status' = [status EXCEPT ![m.work] = m.op]
      BY <2>1, <3>1, MutationShape DEF CarryOut, UpdateStatus
    <3>3. m.work = w /\ m.op = "WATCHED"
      BY <1>1, <3>2 DEF TypeOK, AnnictTypeOK
    <3>4. QED
      BY <1>1, <2>1, <3>2, <3>3 DEF MarkInv
  <2>2. ASSUME NEW v \in Works, SetStatusByHand(v)
        PROVE  FALSE
    BY <1>1, <2>2 DEF SetStatusByHand, UpdateStatus, TypeOK, AnnictTypeOK
  <2>3. QED
    BY <1>1, <2>1, <2>2, AccountChanges
<1>2. TypeOK /\ MarkInv /\ [Next]_vars
        => [\A w \in Works : status[w] # "WATCHED" /\ status'[w] = "WATCHED" => Finished(w)]_vars
  BY <1>1
<1>3. QED
  BY <1>2, InitTypeOK, NextTypeOK, InitReportInv, NextMarkInv, PTL
     DEF Spec, OnlyFinishedWorksBecomeWatched

-----------------------------------------------------------------------------
(* The account that readers see.                                           *)

\* Only records of episodes that a work has are under way.
RangeInv ==
  \A w \in Works, e \in Episode : UnderWay(Record(w, e)) => e <= EpisodeCount[w]

\* Records are planned for episodes that exist, and no other call comes under way.
LEMMA NextRangeInv == TypeOK /\ RangeInv /\ [Next]_vars => RangeInv'
<1> SUFFICES ASSUME TypeOK, RangeInv, [Next]_vars,
                    NEW w \in Works, NEW e \in Episode, UnderWay(Record(w, e))'
             PROVE  e <= EpisodeCount[w]
  BY DEF RangeInv
<1>1. Record(w, e) \in Mutation
  BY MutationFacts
<1>2. CASE UnderWay(Record(w, e))
  BY <1>2 DEF RangeInv
<1>3. CASE ~UnderWay(Record(w, e))
  <2>1. PICK k \in Commands : /\ call'[k][Record(w, e)] = "todo"
                              /\ ListNextEpisodes(k) \/ GetWork(k)
    BY <1>1, <1>3, UnderWayChanges
  <2>2. e \in Latest(w) \/ e \in FirstListed(w)
    BY <2>1, StartPlansLatest, AddPlansFirst
  <2>3. e \in 1..EpisodeCount[w] \/ e \in 2..EpisodeCount[w]
    BY <2>2 DEF Latest, Eligible, NextEpisodes, FirstListed
  <2>4. QED
    BY <2>3, AnnictAssumption
<1>4. QED
  BY <1>2, <1>3

\* The account looks as the invariants say when the first command arrives.
LEMMA InitAccount == Init => Accounts!Init /\ RangeInv
<1> SUFFICES ASSUME Init PROVE Accounts!Init /\ RangeInv
  OBVIOUS
<1>1. RangeInv
  BY MutationFacts DEF Init, NoCalls, RangeInv, UnderWay
<1>2. PICK watched \in [Works -> 0..MaxEpisodes] :
        /\ \A w \in Works : watched[w] <= EpisodeCount[w]
        /\ records = [w \in Works |-> [e \in Episode |-> IF e <= watched[w] THEN 1 ELSE 0]]
  BY DEF Init, AnnictInit
<1>3. ASSUME NEW p \in Seen
      PROVE  p[1] \in Works /\ p[2] \in 1..EpisodeCount[p[1]] /\ Accounts!Follows(p[1], p[2])
  <2>1. PICK w \in Works, e \in Episode : p = <<w, e>>
    BY <1>3 DEF Seen
  <2>2. p[1] = w /\ p[2] = e /\ Watched(w, e)
    BY <2>1 DEF Seen
  <2>3. /\ EpisodeCount[w] \in Nat /\ watched[w] \in Nat /\ MaxEpisodes \in Nat
        /\ e \in Nat /\ 1 <= e /\ e <= MaxEpisodes
        /\ watched[w] <= EpisodeCount[w]
    BY <1>2, AnnictAssumption DEF Episode
  <2>4. e <= watched[w]
    BY <1>2, <2>2, <2>3 DEF Watched
  <2>5. ASSUME e # 1 PROVE <<w, e - 1>> \in Seen
    <3>1. e - 1 \in Episode /\ e - 1 <= watched[w]
      BY <2>3, <2>4, <2>5 DEF Episode
    <3>2. Watched(w, e - 1)
      BY <1>2, <3>1 DEF Watched
    <3>3. QED
      BY <3>1, <3>2 DEF Seen
  <2>6. e \in 1..EpisodeCount[w]
    BY <2>3, <2>4
  <2>7. QED
    BY <2>2, <2>5, <2>6 DEF Accounts!Follows
<1>4. QED
  BY <1>1, <1>3 DEF Init, AnnictInit, Status, Accounts!Init

\* Annict's steps are those of an account: a request under way is about an
\* episode that follows, or about a work that has been watched to its end.
LEMMA RequestStepsAccount ==
  ASSUME IInv, MarkInv, RangeInv, NEW m \in Mutation, UnderWay(m), CarryOut(m)
  PROVE  Accounts!Next
<1> DEFINE w == m.work
           e == m.episode
<1>0. w \in Works /\ UnderWay(m)
  BY MutationShape
<1>1. CASE m.op = "createRecord"
  <2>1. e \in Episode /\ m = Record(w, e) /\ CreateRecord(w, e)
    BY <1>1, MutationShape DEF CarryOut
  <2> HIDE DEF w, e
  <2>2. /\ EpisodeCount[w] \in Nat /\ EpisodeCount[w] <= MaxEpisodes
        /\ MaxEpisodes \in Nat /\ e \in Nat /\ 1 <= e
    BY <1>0, <2>1, AnnictAssumption DEF Episode
  <2>3. e \in 1..EpisodeCount[w]
    BY <1>0, <2>1, <2>2 DEF RangeInv
  <2>4. e = 1 \/ (e - 1 \in Episode /\ Watched(w, e - 1))
    <3>1. SUFFICES ASSUME e # 1 PROVE e - 1 \in Episode /\ Watched(w, e - 1)
      OBVIOUS
    <3>2. e \in 2..MaxEpisodes /\ e - 1 \in Episode
      BY <2>2, <2>3, <3>1 DEF Episode
    <3>3. QED
      BY <1>0, <2>1, <3>2 DEF IInv, PendingRecordsFollow
  <2>5. Accounts!Follows(w, e)
    BY <1>0, <2>4 DEF Accounts!Follows, Seen
  <2>6. \A v \in Works, d \in Episode :
          Watched(v, d)' <=> Watched(v, d) \/ (v = w /\ d = e)
    <3>1. records \in [Works -> [Episode -> Nat]]
      BY DEF IInv, TypeOK, AnnictTypeOK
    <3>2. records' = [records EXCEPT ![w][e] = @ + 1]
      BY <2>1 DEF CreateRecord
    <3>3. \A v \in Works, d \in Episode :
            records'[v][d] = IF v = w /\ d = e THEN records[v][d] + 1 ELSE records[v][d]
      BY <1>0, <2>1, <3>1, <3>2
    <3>4. \A v \in Works, d \in Episode : records[v][d] \in Nat
      BY <3>1
    <3>5. QED
      BY <3>3, <3>4 DEF Watched
  <2>7. Seen' = Seen \cup {<<w, e>>}
    BY <1>0, <2>1, <2>6 DEF Seen
  <2>8. Accounts!See(w, e)
    BY <2>1, <2>3, <2>5, <2>7 DEF Accounts!See, CreateRecord
  <2>9. QED
    BY <1>0, <2>3, <2>8 DEF Accounts!Next
<1>2. CASE m.op # "createRecord"
  <2>1. m.op \in {"WATCHED", "WATCHING"} /\ m = Mark(w, m.op) /\ UpdateStatus(w, m.op)
    BY <1>2, MutationShape DEF CarryOut
  <2>2. status' = [status EXCEPT ![w] = m.op] /\ Seen' = Seen
    BY <2>1 DEF UpdateStatus, Seen, Watched
  <2>3. CASE m.op = "WATCHING"
    BY <1>0, <2>2, <2>3 DEF Accounts!Next, Accounts!TakeUp
  <2>4. CASE m.op = "WATCHED"
    <3>1. Finished(w)
      BY <1>0, <2>1, <2>4 DEF MarkInv
    <3>2. EpisodeCount[w] \in Episode
      BY <1>0, <3>1, AnnictAssumption DEF Finished, Episode
    <3>3. <<w, EpisodeCount[w]>> \in Seen
      BY <1>0, <3>1, <3>2 DEF Finished, Seen
    <3>4. QED
      BY <1>0, <2>2, <2>4, <3>3 DEF Accounts!Next, Accounts!Finish
  <2>5. QED
    BY <2>1, <2>3, <2>4
<1>3. QED
  BY <1>1, <1>2

\* The owner's steps are those of an account, too; all others leave it alone.
LEMMA NextStepsAccount ==
  ASSUME IInv, MarkInv, RangeInv, [Next]_vars
  PROVE  [Accounts!Next]_(Accounts!vars)
<1>1. ASSUME UNCHANGED <<records, status>>
      PROVE  [Accounts!Next]_(Accounts!vars)
  BY <1>1 DEF Accounts!vars, Seen, Watched
<1>2. ASSUME NEW m \in Mutation, UnderWay(m), CarryOut(m)
      PROVE  Accounts!Next
  BY <1>2, RequestStepsAccount
<1>3. ASSUME NEW w \in Works, SetStatusByHand(w)
      PROVE  Accounts!Next
  <2>1. PICK s \in UserStatuses : UpdateStatus(w, s)
    BY <1>3 DEF SetStatusByHand
  <2>2. s = "WATCHING" \/ s = "OTHER" \/ s = "WATCHED"
    BY AnnictAssumption DEF Status
  <2>3. status' = [status EXCEPT ![w] = s] /\ Seen' = Seen
    BY <2>1 DEF UpdateStatus, Seen, Watched
  <2>4. QED
    BY <2>2, <2>3 DEF Accounts!Next, Accounts!TakeUp, Accounts!PutAside, Accounts!MarkByHand
<1>4. QED
  BY <1>1, <1>2, <1>3, AccountChanges DEF IInv

\* Any number of commands, with faults, panics and restarts, change the account
\* in no other way than Account says, where Annict sorts first episodes first.
THEOREM ImplementsAccount ==
  ASSUME FirstEpisodeSortsFirst
  PROVE  Spec => AccountSpec
<1>1. IInv => TypeOK
  BY DEF IInv
<1>2. IInv /\ MarkInv /\ RangeInv /\ [Next]_vars => [Accounts!Next]_(Accounts!vars)
  BY NextStepsAccount
<1>3. QED
  BY <1>1, <1>2, InitIInv, NextIInv, InitReportInv, NextMarkInv, InitAccount, NextRangeInv, PTL
     DEF Spec, AccountSpec, Accounts!Spec

-----------------------------------------------------------------------------
(* Duplicates.  Annict's sort numbers follow the order of the episodes.    *)

SortNumbersIncrease ==
  \A w \in Works : \A d, e \in 1..EpisodeCount[w] :
    d < e => SortNumber[w][d] < SortNumber[w][e]

\* The episode that a start chooses is unwatched, unless it is the last.
LEMMA LatestIsUnwatched ==
  ASSUME SortNumbersIncrease, NEW w \in Works, NEW e \in Latest(w), e # EpisodeCount[w]
  PROVE  ~Watched(w, e)
<1>1. SUFFICES ASSUME Watched(w, e) PROVE FALSE
  OBVIOUS
<1>2. EpisodeCount[w] \in Nat /\ EpisodeCount[w] <= MaxEpisodes /\ MaxEpisodes \in Nat
  BY AnnictAssumption
<1>3. /\ e \in 2..EpisodeCount[w] /\ status[w] # "WATCHED" /\ SortNumber[w][e] > 0
      /\ \A d \in Eligible(w) : SortNumber[w][d] <= SortNumber[w][e]
  BY DEF Latest, Eligible, NextEpisodes
<1>4. e + 1 \in 2..EpisodeCount[w] /\ (e + 1) - 1 = e /\ e \in Episode /\ e + 1 \in Episode
      /\ e < EpisodeCount[w]
  BY <1>2, <1>3 DEF Episode
<1>5. SortNumber[w][e] < SortNumber[w][e + 1]
  BY <1>2, <1>4 DEF SortNumbersIncrease
<1>6. SortNumber[w][e] \in Int /\ SortNumber[w][e + 1] \in Int
  BY <1>4, AnnictAssumption
<1>7. e + 1 \in Eligible(w)
  BY <1>1, <1>3, <1>4, <1>5, <1>6 DEF Eligible, NextEpisodes
<1>8. QED
  BY <1>3, <1>5, <1>6, <1>7

\* Where Annict's sort numbers follow the order of the episodes, a start leaves
\* alone what its listing shows as watched, but for the last episode.
THEOREM StartsRecordNothingTwice ==
  ASSUME SortNumbersIncrease
  PROVE  Spec => StartRecordsUnwatchedMiddle
<1>1. ASSUME TypeOK, [Next]_vars, NEW k \in Commands, NEW w \in Works, NEW e \in Episode,
             e # EpisodeCount[w], Plans(k, Record(w, e))
      PROVE  ~Watched(w, e)
  <2>1. /\ Record(w, e) \in Mutation /\ cmd[k].name = "start"
        /\ call[k][Record(w, e)] # "todo" /\ call'[k][Record(w, e)] = "todo"
    BY <1>1, MutationFacts DEF Plans
  <2>2. ~Mutate(k, Record(w, e))
    BY <1>1, <2>1 DEF Mutate, Send, Apply, Acknowledge, CallFails, GiveUp, SetCall, TypeOK
  <2>3. ListNextEpisodes(k)
    BY <1>1, <2>1, <2>2, CallChanges DEF GetWork
  <2>4. QED
    BY <1>1, <2>1, <2>3, StartPlansLatest, LatestIsUnwatched
<1>2. TypeOK /\ [Next]_vars
        => [\A k \in Commands, w \in Works, e \in Episode :
              e # EpisodeCount[w] /\ Plans(k, Record(w, e)) => ~Watched(w, e)]_vars
  BY <1>1
<1>3. QED
  BY <1>2, InitTypeOK, NextTypeOK, PTL DEF Spec, StartRecordsUnwatchedMiddle

\* The commands with a request pending to record episode e of w.
Pending(w, e) == {k \in Commands : call[k][Record(w, e)] \in {"todo", "sent"}}

\* The records of an episode in the middle, with those that are still to come,
\* are no more than the commands and the requests that were given up.
DuplicatesInv ==
  /\ \A m \in Mutation : late[m] <= abandoned
  /\ \A w \in Works : \A e \in 2..(EpisodeCount[w] - 1) :
       records[w][e] + late[Record(w, e)] + Cardinality(Pending(w, e))
         <= Cardinality(Commands) + abandoned

\* None is given up more often than all are.
LEMMA NextLate ==
  ASSUME TypeOK, DuplicatesInv, [Next]_vars, NEW m \in Mutation
  PROVE  late'[m] <= abandoned'
<1>1. late[m] \in Nat /\ abandoned \in Nat /\ late[m] <= abandoned
  BY RecorderAssumption DEF TypeOK, DuplicatesInv
<1>2. QED
  BY <1>1, LateChanges

\* A record is made by a request for it, sent or late.
LEMMA OtherRequests ==
  ASSUME TypeOK, [Next]_vars, NEW w \in Works, NEW e \in Episode,
         ~ApplyLate(Record(w, e)), \A k \in Commands : ~Apply(k, Record(w, e))
  PROVE  records'[w][e] = records[w][e]
<1>1. ASSUME NEW m \in Mutation, CarryOut(m), m # Record(w, e)
      PROVE  records'[w][e] = records[w][e]
  BY <1>1, CreateRecordEffect DEF CarryOut, UpdateStatus, TypeOK
<1>2. ASSUME NEW k \in Commands, NEW m \in Mutation, Mutate(k, m)
      PROVE  records'[w][e] = records[w][e]
  BY <1>1, <1>2 DEF Mutate, Send, Apply, Acknowledge, CallFails, GiveUp
<1>3. ASSUME NEW m \in Mutation, ApplyLate(m)
      PROVE  records'[w][e] = records[w][e]
  BY <1>1, <1>3 DEF ApplyLate
<1>4. ASSUME NEW k \in Commands, AcceptStart(k) \/ AcceptAdd(k) \/ Proceed(k)
      PROVE  UNCHANGED records
  BY <1>4 DEF AcceptStart, AcceptAdd, Accept, Proceed, ListNextEpisodes, GetWork,
              StartMutations, NilTitlePanics, UnknownWorkPanics, NoEpisodePanics, Die,
              QueryFails, Wait, PostWebhook
<1>5. CASE Kill \/ Restart \/ UNCHANGED vars \/ \E v \in Works : SetStatusByHand(v)
  BY <1>5 DEF Kill, Die, Restart, SetStatusByHand, UpdateStatus, vars
<1>6. QED
  BY <1>2, <1>3, <1>4, <1>5 DEF Next

\* What a command does to its request for a record: it plans it while there is
\* none; carried out, the request becomes a record; given up, it becomes late.
LEMMA PendingChanges ==
  ASSUME SortNumbersIncrease, TypeOK, [Next]_vars,
         NEW w \in Works, NEW e \in 2..(EpisodeCount[w] - 1)
  PROVE  \/ records'[w][e] = 0 /\ UNCHANGED lateVars
         \/ /\ records'[w][e] = records[w][e] + 1 /\ UNCHANGED lateVars
            /\ \E k \in Pending(w, e) : Pending(w, e)' = Pending(w, e) \ {k}
         \/ /\ records'[w][e] = records[w][e] + 1 /\ abandoned' = abandoned
            /\ late'[Record(w, e)] = late[Record(w, e)] - 1
            /\ Pending(w, e)' \subseteq Pending(w, e)
         \/ /\ records'[w][e] = records[w][e] /\ abandoned' = abandoned + 1
            /\ late'[Record(w, e)] = late[Record(w, e)] + 1
            /\ Pending(w, e)' \subseteq Pending(w, e)
         \/ /\ records'[w][e] = records[w][e] /\ abandoned' \in {abandoned, abandoned + 1}
            /\ late'[Record(w, e)] = late[Record(w, e)]
            /\ Pending(w, e)' \subseteq Pending(w, e)
<1> DEFINE m == Record(w, e)
<1>0. e \in Episode /\ e # EpisodeCount[w] /\ e # 1 /\ m \in Mutation
  BY AnnictAssumption, MutationFacts DEF Episode
<1>1. CASE \E k \in Commands : call'[k][m] = "todo" /\ (ListNextEpisodes(k) \/ GetWork(k))
  <2>1. PICK k \in Commands : call'[k][m] = "todo" /\ (ListNextEpisodes(k) \/ GetWork(k))
    BY <1>1
  <2>2. FirstEpisodeSortsFirst
    BY AnnictAssumption DEF SortNumbersIncrease, FirstEpisodeSortsFirst
  <2>3. ~GetWork(k)
    BY <1>0, <2>1, <2>2, AddPlansFirst, FirstListedIsFirst
  <2>4. e \in Latest(w) /\ UNCHANGED <<records, lateVars>>
    BY <1>0, <2>1, <2>3, StartPlansLatest DEF ListNextEpisodes, StartMutations
  <2>5. ~Watched(w, e)
    BY <1>0, <2>4, LatestIsUnwatched
  <2>6. records[w][e] \in Nat
    BY <1>0 DEF TypeOK, AnnictTypeOK
  <2>7. QED
    BY <2>4, <2>5, <2>6 DEF Watched
<1>2. CASE \E k \in Commands : Apply(k, m)
  <2>1. PICK k \in Commands : Apply(k, m)
    BY <1>2
  <2>2. call[k][m] = "sent" /\ call' = [call EXCEPT ![k][m] = "applied"] /\ UNCHANGED lateVars
    BY <2>1 DEF Apply, SetCall
  <2>3. m.op = "createRecord"
    BY DEF Record
  <2>4. records'[w][e] = records[w][e] + 1
    BY <1>0, <2>1, <2>3, CreateRecordEffect DEF Apply, TypeOK
  <2>5. \A j \in Commands : call'[j][m] = IF j = k THEN "applied" ELSE call[j][m]
    BY <1>0, <2>2 DEF TypeOK
  <2>6. k \in Pending(w, e) /\ Pending(w, e)' = Pending(w, e) \ {k}
    BY <2>2, <2>5 DEF Pending
  <2>7. QED
    BY <2>2, <2>4, <2>6
<1>3. CASE /\ ~\E k \in Commands : call'[k][m] = "todo" /\ (ListNextEpisodes(k) \/ GetWork(k))
           /\ ~\E k \in Commands : Apply(k, m)
  <2>1. Pending(w, e)' \subseteq Pending(w, e)
    <3>1. ASSUME NEW k \in Commands, call'[k][m] \in {"todo", "sent"}
          PROVE  call[k][m] \in {"todo", "sent"}
      BY <1>0, <1>3, <3>1, CallChanges
         DEF Mutate, Send, Acknowledge, CallFails, GiveUp, SetCall, TypeOK
    <3>2. QED
      BY <3>1 DEF Pending
  <2>2. CASE ApplyLate(m)
    <3>1. m.op = "createRecord"
      BY DEF Record
    <3>2. records'[w][e] = records[w][e] + 1
      BY <1>0, <2>2, <3>1, CreateRecordEffect DEF ApplyLate, TypeOK
    <3>3. late'[m] = late[m] - 1 /\ abandoned' = abandoned
      BY <1>0, <2>2 DEF ApplyLate, TypeOK
    <3>4. QED
      BY <2>1, <3>2, <3>3
  <2>3. CASE ~ApplyLate(m)
    <3>1. records'[w][e] = records[w][e]
      BY <1>0, <1>3, <2>3, OtherRequests
    <3>2. QED
      BY <1>0, <2>1, <2>3, <3>1, LateChanges
  <2>4. QED
    BY <2>2, <2>3
<1>4. QED
  BY <1>1, <1>2, <1>3

\* A record is planned while there is none, and each request makes one at most.
LEMMA NextDuplicatesInv ==
  ASSUME IsFiniteSet(Commands), SortNumbersIncrease
  PROVE  TypeOK /\ DuplicatesInv /\ [Next]_vars => DuplicatesInv'
<1> SUFFICES ASSUME TypeOK, DuplicatesInv, [Next]_vars
             PROVE  DuplicatesInv'
  OBVIOUS
<1> SUFFICES ASSUME NEW w \in Works, NEW e \in 2..(EpisodeCount[w] - 1)
             PROVE  records'[w][e] + late'[Record(w, e)] + Cardinality(Pending(w, e)')
                      <= Cardinality(Commands) + abandoned'
  BY NextLate DEF DuplicatesInv
<1> DEFINE P == Pending(w, e)
           r == records[w][e]
           l == late[Record(w, e)]
<1>1. e \in Episode /\ Record(w, e) \in Mutation
  BY AnnictAssumption, MutationFacts DEF Episode
<1>2. /\ r \in Nat /\ l \in Nat /\ abandoned \in Nat /\ r' \in Nat
      /\ l <= abandoned /\ r + l + Cardinality(P) <= Cardinality(Commands) + abandoned
  BY <1>1, RecordsGrow, RecorderAssumption DEF DuplicatesInv, TypeOK
<1>3. P \subseteq Commands /\ P' \subseteq Commands
  BY DEF Pending
<1>4. \/ r' = 0 /\ l' = l /\ abandoned' = abandoned
      \/ r' = r + 1 /\ l' = l /\ abandoned' = abandoned /\ \E k \in P : P' = P \ {k}
      \/ r' = r + 1 /\ l' = l - 1 /\ abandoned' = abandoned /\ P' \subseteq P
      \/ r' = r /\ l' = l + 1 /\ abandoned' = abandoned + 1 /\ P' \subseteq P
      \/ r' = r /\ l' = l /\ abandoned' \in {abandoned, abandoned + 1} /\ P' \subseteq P
  BY PendingChanges DEF lateVars
<1> HIDE DEF P, r, l
<1>5. /\ IsFiniteSet(P) /\ IsFiniteSet(P')
      /\ Cardinality(P) \in Nat /\ Cardinality(P') \in Nat /\ Cardinality(Commands) \in Nat
      /\ Cardinality(P') <= Cardinality(Commands)
  BY <1>3, FS_Subset, FS_CardinalityType
<1>6. P' \subseteq P => Cardinality(P') <= Cardinality(P)
  BY <1>5, FS_Subset
<1>7. ASSUME NEW k \in P, P' = P \ {k}
      PROVE  Cardinality(P') = Cardinality(P) - 1
  BY <1>5, <1>7, FS_RemoveElement
<1>8. r' + l' + Cardinality(P') <= Cardinality(Commands) + abandoned'
  BY <1>2, <1>4, <1>5, <1>6, <1>7
<1>9. QED
  BY <1>8 DEF P, r, l

\* The first records are single and nothing is pending.
LEMMA InitDuplicatesInv ==
  ASSUME IsFiniteSet(Commands), Commands # {}
  PROVE  Init => DuplicatesInv
<1> SUFFICES ASSUME Init, NEW w \in Works, NEW e \in 2..(EpisodeCount[w] - 1)
             PROVE  records[w][e] + late[Record(w, e)] + Cardinality(Pending(w, e))
                      <= Cardinality(Commands) + abandoned
  BY DEF DuplicatesInv, Init
<1>1. e \in Episode /\ Record(w, e) \in Mutation
  BY AnnictAssumption, MutationFacts DEF Episode
<1>2. records[w][e] \in {0, 1} /\ late[Record(w, e)] = 0 /\ abandoned = 0
  BY <1>1 DEF Init, AnnictInit
<1>3. Pending(w, e) = {}
  BY <1>1, MutationFacts DEF Init, NoCalls, Pending
<1>4. Cardinality(Pending(w, e)) = 0 /\ Cardinality(Commands) \in Nat /\ Cardinality(Commands) # 0
  BY <1>3, FS_EmptySet, FS_CardinalityType
<1>5. QED
  BY <1>2, <1>4

\* However starts overlap or are repeated, and however slow Annict is, an episode
\* in the middle of a work gets no more records than there are commands at work at
\* a time and requests that failed while Annict still held them.
THEOREM DuplicatesAreBounded ==
  ASSUME IsFiniteSet(Commands), Commands # {}, SortNumbersIncrease
  PROVE  Spec => []DuplicatesBoundedByOverlap
<1>1. TypeOK /\ DuplicatesInv => DuplicatesBoundedByOverlap
  <2> SUFFICES ASSUME TypeOK, DuplicatesInv, NEW w \in Works, NEW e \in 2..(EpisodeCount[w] - 1)
               PROVE  records[w][e] <= Cardinality(Commands) + abandoned
    BY DEF DuplicatesBoundedByOverlap
  <2>1. e \in Episode /\ Record(w, e) \in Mutation
    BY AnnictAssumption, MutationFacts DEF Episode
  <2>2. records[w][e] \in Nat /\ late[Record(w, e)] \in Nat /\ abandoned \in Nat
    BY <2>1, RecorderAssumption DEF TypeOK, AnnictTypeOK
  <2>3. Pending(w, e) \subseteq Commands
    BY DEF Pending
  <2>4. Cardinality(Pending(w, e)) \in Nat /\ Cardinality(Commands) \in Nat
    BY <2>3, FS_Subset, FS_CardinalityType
  <2>5. records[w][e] + late[Record(w, e)] + Cardinality(Pending(w, e))
          <= Cardinality(Commands) + abandoned
    BY DEF DuplicatesInv
  <2>6. QED
    BY <2>2, <2>4, <2>5
<1>2. QED
  BY <1>1, InitTypeOK, NextTypeOK, InitDuplicatesInv, NextDuplicatesInv, PTL DEF Spec
=============================================================================
