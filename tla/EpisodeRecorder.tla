--------------------------- MODULE EpisodeRecorder ---------------------------
(***************************************************************************)
(* The two Slack commands that write to Annict, from the goroutine that    *)
(* commandHandler.handle starts (slack/slack.go) down to the mutations of  *)
(* service.CreateNextEpisodeRecords and service.UpdateWorkStatus           *)
(* (annict/annict.go).                                                     *)
(*                                                                         *)
(*   /animekai start    reads every record of the account, then, at once,  *)
(*                      creates a record of the next episode of each work  *)
(*                      and marks the finished works WATCHED               *)
(*   /animekai add <w>  looks the work up, then, at once, marks it         *)
(*                      WATCHING and creates a record of its first episode *)
(*                                                                         *)
(* Commands run concurrently and share nothing but the Annict account.  A  *)
(* mutation is a request in flight: Annict applies it at some point after  *)
(* it is sent, even if the process that sent it has died or the sender has *)
(* got an error meanwhile (a reset, a 504), and the answer may be lost     *)
(* after it took effect.  A goroutine started by handle, or by an errgroup *)
(* below it, that panics kills the process: the recovery interceptor of    *)
(* server/interceptors.go covers RPC handlers only.                        *)
(***************************************************************************)
EXTENDS AnnictAPI

CONSTANTS
  Commands,       \* slots for commands at work at the same time; one that dies with
                  \* the process keeps its slot, its requests being under way
  AddTargets,     \* the works whose URL users give to /animekai add
  UnknownWork,    \* a numeric ID that no Annict work has
  Untitled,       \* pairs <<w, e>> whose title or numberText is null
  Faults,         \* which of FaultKinds the network and Annict may show
  MaxRestarts,    \* bound: how often the process is killed and restarted
  MaxAbandoned,   \* bound: how many requests their senders give up too early
  RecordCap       \* bound: no command is accepted once an episode has so many

\* query: ListNextEpisodes or GetWork fails; reject: a mutation is refused and
\* has no effect; loseReply: it takes effect and its answer is lost; giveUp: it
\* fails for its sender while Annict, or the network, still holds it.
FaultKinds == {"query", "reject", "loseReply", "giveUp"}

ASSUME RecorderAssumption ==
  /\ UnknownWork \notin Works
  /\ AddTargets \subseteq Works \cup {UnknownWork}
  /\ Untitled \subseteq Works \X Episode
  /\ Faults \subseteq FaultKinds
  /\ MaxRestarts \in Nat
  /\ MaxAbandoned \in Nat
  /\ RecordCap \in Nat

VARIABLES
  up,             \* the server process runs
  restarts,       \* how often it has been killed
  pc,             \* pc[k]: where the goroutine of command k is
  cmd,            \* cmd[k]: the command, with the work an add is about
  call,           \* call[k][m]: the state of mutation m of command k
  outcome,        \* outcome[k]: what the service call of k returned
  late,           \* late[m]: requests m that Annict may carry out although their
                  \* senders have given them up
  abandoned       \* how many requests have been given up so

lateVars == <<late, abandoned>>
vars == <<records, status, up, restarts, pc, cmd, call, outcome, late, abandoned>>

Record(w, e) == [op |-> "createRecord", work |-> w, episode |-> e]
Mark(w, s) == [op |-> s, work |-> w, episode |-> 0]

\* The requests of create_record, update_status (always with WATCHED) and
\* update_work_status (which says WATCHING itself).
Mutation ==
  {Record(w, e) : w \in Works, e \in Episode}
    \cup {Mark(w, s) : w \in Works, s \in {"WATCHED", "WATCHING"}}

CallState == {"none", "todo", "sent", "applied", "acked", "failed"}
Unsettled == {"todo", "sent", "applied"}

Command ==
  [work : {UnknownWork}, name : {"start"}]
    \cup [work : Works \cup {UnknownWork}, name : {"add"}]

\* Every variable keeps to its values; a mutation never leaves CallState.
TypeOK ==
  /\ AnnictTypeOK
  /\ up \in BOOLEAN
  /\ restarts \in 0..MaxRestarts
  /\ pc \in [Commands -> {"idle", "query", "mutating", "replying", "lost"}]
  /\ cmd \in [Commands -> Command]
  /\ call \in [Commands -> [Mutation -> CallState]]
  /\ outcome \in [Commands -> {"none", "ok", "error"}]
  /\ late \in [Mutation -> Nat]
  /\ abandoned \in 0..MaxAbandoned

NoCalls == [m \in Mutation |-> "none"]
ToDo(ms) == [m \in Mutation |-> IF m \in ms THEN "todo" ELSE "none"]

Init ==
  /\ AnnictInit
  /\ up = TRUE
  /\ restarts = 0
  /\ pc = [k \in Commands |-> "idle"]
  /\ cmd = [k \in Commands |-> [work |-> UnknownWork, name |-> "start"]]
  /\ call = [k \in Commands |-> NoCalls]
  /\ outcome = [k \in Commands |-> "none"]
  /\ late = [m \in Mutation |-> 0]
  /\ abandoned = 0

-----------------------------------------------------------------------------
(* What a start decides from the records it has read.                      *)

\* The loop skips the works that are WATCHED already and keeps, per work, the
\* next episode with the greatest sortNumber above the zero value of the map.
Eligible(w) ==
  {e \in NextEpisodes(w) : status[w] # "WATCHED" /\ SortNumber[w][e] > 0}

\* Mutant of Latest: the comparison of the loop is the wrong way round.
LatestMutant(w) ==
  {e \in Eligible(w) : \A d \in Eligible(w) : SortNumber[w][e] <= SortNumber[w][d]}

Latest(w) ==
  {e \in Eligible(w) : \A d \in Eligible(w) : SortNumber[w][d] <= SortNumber[w][e]}

WorksToAdvance == {w \in Works : Eligible(w) # {}}
\* Mutants of WorksToFinish: a work is finished by the record about to be made;
\* only works that are WATCHING are finished.
WorksToFinishEarly == {w \in Works : EpisodeCount[w] \in Eligible(w)}
WorksToFinishNarrow == {w \in Works : status[w] = "WATCHING" /\ Finished(w)}

WorksToFinish == {w \in Works : status[w] # "WATCHED" /\ Finished(w)}

Selections == {next \in [WorksToAdvance -> Episode] :
                 \A w \in WorksToAdvance : next[w] \in Latest(w)}

StartCalls(next) ==
  {Record(w, next[w]) : w \in DOMAIN next} \cup {Mark(w, "WATCHED") : w \in WorksToFinish}

-----------------------------------------------------------------------------
(* The life of a command.                                                  *)

BelowCap == \A w \in Works, e \in Episode : records[w][e] < RecordCap

Accept(k, c) ==
  /\ up /\ pc[k] = "idle" /\ BelowCap
  /\ pc' = [pc EXCEPT ![k] = "query"]
  /\ cmd' = [cmd EXCEPT ![k] = c]
  /\ call' = [call EXCEPT ![k] = NoCalls]
  /\ outcome' = [outcome EXCEPT ![k] = "none"]
  /\ UNCHANGED <<records, status, up, restarts, lateVars>>

AcceptStart(k) == Accept(k, [work |-> UnknownWork, name |-> "start"])
AcceptAdd(k) == \E w \in AddTargets : Accept(k, [work |-> w, name |-> "add"])

\* The process dies with every goroutine; what was sent is with Annict.
Die ==
  /\ up' = FALSE
  /\ pc' = [k \in Commands |-> IF pc[k] = "idle" THEN "idle" ELSE "lost"]
  /\ UNCHANGED <<records, status, restarts, cmd, call, outcome, lateVars>>

QueryFails(k) ==
  /\ "query" \in Faults
  /\ pc[k] = "query"
  /\ pc' = [pc EXCEPT ![k] = "replying"]
  /\ outcome' = [outcome EXCEPT ![k] = "error"]
  /\ UNCHANGED <<records, status, up, restarts, cmd, call, lateVars>>

StartMutations(k, ms) ==
  /\ pc' = [pc EXCEPT ![k] = "mutating"]
  /\ call' = [call EXCEPT ![k] = ToDo(ms)]
  /\ UNCHANGED <<records, status, up, restarts, cmd, outcome, lateVars>>

ListNextEpisodes(k) ==
  /\ pc[k] = "query" /\ cmd[k].name = "start"
  /\ \E next \in Selections :
       /\ \A w \in DOMAIN next : <<w, next[w]>> \notin Untitled
       /\ StartMutations(k, StartCalls(next))

\* *e.NextEpisode.Title and *e.NextEpisode.NumberText are dereferenced before
\* the test for nil.  An untitled episode that is not the latest is reached or
\* not depending on the order in which Annict lists the records.
NilTitlePanics(k) ==
  /\ pc[k] = "query" /\ cmd[k].name = "start"
  /\ \E w \in Works : \E e \in Eligible(w) : <<w, e>> \in Untitled
  /\ Die

\* Nodes[0] of episodes(first: 1, orderBy: {field: SORT_NUMBER, direction: ASC}).
FirstListed(w) ==
  {e \in 1..EpisodeCount[w] : \A d \in 1..EpisodeCount[w] : SortNumber[w][e] <= SortNumber[w][d]}

AddCalls(w, first) == {Mark(w, "WATCHING")} \cup {Record(w, e) : e \in first}

GetWork(k) ==
  LET w == cmd[k].work IN
  /\ pc[k] = "query" /\ cmd[k].name = "add" /\ w # UnknownWork
  /\ \/ EpisodeCount[w] = 0 /\ StartMutations(k, AddCalls(w, {}))
     \/ \E e \in FirstListed(w) : StartMutations(k, AddCalls(w, {e}))

\* Edges[0] of an empty search result, in both goroutines of the errgroup.
UnknownWorkPanics(k) ==
  /\ pc[k] = "query" /\ cmd[k].name = "add" /\ cmd[k].work = UnknownWork
  /\ Die

\* Nodes[0] of a work without episodes, in the second goroutine: the first one
\* may or may not have sent its request by then.
IsFilm(c) == c.name = "add" /\ c.work # UnknownWork /\ EpisodeCount[c.work] = 0

NoEpisodePanics(k) ==
  /\ pc[k] = "mutating" /\ IsFilm(cmd[k])
  /\ Die

SetCall(k, m, s) == call' = [call EXCEPT ![k][m] = s]

Send(k, m) ==
  /\ pc[k] = "mutating" /\ call[k][m] = "todo"
  /\ SetCall(k, m, "sent")
  /\ UNCHANGED <<records, status, up, restarts, pc, cmd, outcome, lateVars>>

CarryOut(m) ==
  IF m.op = "createRecord" THEN CreateRecord(m.work, m.episode) ELSE UpdateStatus(m.work, m.op)

\* Annict carries a request out, whatever has become of the client.
Apply(k, m) ==
  /\ call[k][m] = "sent"
  /\ CarryOut(m)
  /\ SetCall(k, m, "applied")
  /\ UNCHANGED <<up, restarts, pc, cmd, outcome, lateVars>>

Acknowledge(k, m) ==
  /\ pc[k] = "mutating" /\ call[k][m] = "applied"
  /\ SetCall(k, m, "acked")
  /\ UNCHANGED <<records, status, up, restarts, pc, cmd, outcome, lateVars>>

CallFails(k, m) ==
  /\ pc[k] = "mutating"
  /\ \/ call[k][m] = "sent" /\ "reject" \in Faults
     \/ call[k][m] = "applied" /\ "loseReply" \in Faults
  /\ SetCall(k, m, "failed")
  /\ UNCHANGED <<records, status, up, restarts, pc, cmd, outcome, lateVars>>

\* The client gets an error, a 504 say, and goes on; the request is still there.
GiveUp(k, m) ==
  /\ "giveUp" \in Faults /\ abandoned < MaxAbandoned
  /\ pc[k] = "mutating" /\ call[k][m] = "sent"
  /\ SetCall(k, m, "failed")
  /\ late' = [late EXCEPT ![m] = @ + 1]
  /\ abandoned' = abandoned + 1
  /\ UNCHANGED <<records, status, up, restarts, pc, cmd, outcome>>

\* Such a request takes effect at any later time, or never.
ApplyLate(m) ==
  /\ late[m] > 0
  /\ CarryOut(m)
  /\ late' = [late EXCEPT ![m] = @ - 1]
  /\ UNCHANGED <<up, restarts, pc, cmd, call, outcome, abandoned>>

\* Mutant of Wait: the errors of the mutations are dropped.
WaitForgettingErrors(k) ==
  /\ pc[k] = "mutating" /\ ~IsFilm(cmd[k])
  /\ \A m \in Mutation : call[k][m] \notin Unsettled
  /\ pc' = [pc EXCEPT ![k] = "replying"]
  /\ outcome' = [outcome EXCEPT ![k] = "ok"]
  /\ UNCHANGED <<records, status, up, restarts, cmd, call, lateVars>>

\* Mutant of Wait: a goroutine that fails is not counted as finished.
WaitForSuccess(k) ==
  /\ pc[k] = "mutating" /\ ~IsFilm(cmd[k])
  /\ \A m \in Mutation : call[k][m] \in {"none", "acked"}
  /\ pc' = [pc EXCEPT ![k] = "replying"]
  /\ outcome' = [outcome EXCEPT ![k] = "ok"]
  /\ UNCHANGED <<records, status, up, restarts, cmd, call, lateVars>>

\* eg.Wait returns when every goroutine has, with the first error if any.
Wait(k) ==
  /\ pc[k] = "mutating" /\ ~IsFilm(cmd[k])
  /\ \A m \in Mutation : call[k][m] \notin Unsettled
  /\ pc' = [pc EXCEPT ![k] = "replying"]
  /\ outcome' = [outcome EXCEPT ![k] =
                   IF \E m \in Mutation : call[k][m] = "failed" THEN "error" ELSE "ok"]
  /\ UNCHANGED <<records, status, up, restarts, cmd, call, lateVars>>

\* Mutant of PostWebhook: the goroutine posts and never ends.
PostWebhookForever(k) ==
  /\ pc[k] = "replying"
  /\ pc' = [pc EXCEPT ![k] = "posted"]
  /\ UNCHANGED <<records, status, up, restarts, cmd, call, outcome, lateVars>>

\* The webhook gets the episodes or :lgtm-1: on success, the empty text on an
\* error; a failure of the webhook itself is only logged.
PostWebhook(k) ==
  /\ pc[k] = "replying"
  /\ pc' = [pc EXCEPT ![k] = "idle"]
  /\ UNCHANGED <<records, status, up, restarts, cmd, call, outcome, lateVars>>

-----------------------------------------------------------------------------
(* The environment.                                                        *)

Kill ==
  /\ up /\ restarts < MaxRestarts
  /\ Die

Restart ==
  /\ ~up /\ restarts < MaxRestarts
  /\ up' = TRUE
  /\ restarts' = restarts + 1
  /\ UNCHANGED <<records, status, pc, cmd, call, outcome, lateVars>>

SetStatusByHand(w) ==
  /\ \E s \in UserStatuses : UpdateStatus(w, s)
  /\ UNCHANGED <<up, restarts, pc, cmd, call, outcome, lateVars>>

-----------------------------------------------------------------------------

Mutate(k, m) ==
  Send(k, m) \/ Apply(k, m) \/ Acknowledge(k, m) \/ CallFails(k, m) \/ GiveUp(k, m)

Proceed(k) ==
  \/ ListNextEpisodes(k) \/ NilTitlePanics(k) \/ GetWork(k) \/ UnknownWorkPanics(k)
  \/ NoEpisodePanics(k) \/ QueryFails(k) \/ Wait(k) \/ PostWebhook(k)

Next ==
  \/ \E k \in Commands : AcceptStart(k) \/ AcceptAdd(k) \/ Proceed(k)
  \/ \E k \in Commands, m \in Mutation : Mutate(k, m)
  \/ \E m \in Mutation : ApplyLate(m)
  \/ Kill \/ Restart
  \/ \E w \in Works : SetStatusByHand(w)

Spec == Init /\ [][Next]_vars

\* Goroutines that can run do run, and Annict answers every request: neither
\* http.DefaultClient nor the background context of a command has a deadline,
\* so the code itself does not bound the wait.
Fairness ==
  /\ \A k \in Commands : WF_vars(Proceed(k))
  /\ \A k \in Commands, m \in Mutation :
       /\ WF_vars(Send(k, m))
       /\ WF_vars(Apply(k, m))
       /\ WF_vars(Acknowledge(k, m) \/ CallFails(k, m))

\* Besides, users keep typing /animekai start.
PersistentUsers == \A k \in Commands : WF_vars(AcceptStart(k))

FairSpec == Spec /\ Fairness
PersistentSpec == FairSpec /\ PersistentUsers

-----------------------------------------------------------------------------
(* Safety.                                                                 *)

\* The records of a work never have a hole: no interleaving of commands, lost
\* answer or restart makes CreateNextEpisodeRecords or UpdateWorkStatus record
\* an episode before the one that precedes it.
NoEpisodeSkipped ==
  \A w \in Works : \A e \in 2..MaxEpisodes : Watched(w, e) => Watched(w, e - 1)

\* A request is to be sent or may still be carried out, whoever waits for it.
UnderWay(m) == late[m] > 0 \/ \E k \in Commands : call[k][m] \in {"todo", "sent"}

\* What makes NoEpisodeSkipped inductive: a request to record an episode is only
\* ever pending, also when its sender has given it up, while the episode before
\* it has a record.
PendingRecordsFollow ==
  \A w \in Works : \A e \in 2..MaxEpisodes : UnderWay(Record(w, e)) => Watched(w, e - 1)

\* Two starts that overlap record the same episode twice, and so does a start
\* that is repeated after an error while Annict still holds the request of the
\* first; but an episode never gets more records than there are commands at work
\* at once and requests that failed too early: one reading of the records
\* suffices to choose an episode after it.  (A command that died with the process
\* counts among them, as Annict may still carry its requests out.  The first
\* episode is recorded by every add, the last one once more by the start that
\* marks the work.)
DuplicatesBoundedByOverlap ==
  \A w \in Works : \A e \in 2..(EpisodeCount[w] - 1) :
    records[w][e] <= Cardinality(Commands) + abandoned

\* If the service call of a command returns no error, so that the command posts
\* its episodes or :lgtm-1:, Annict has a record of each of them.
ReportedEpisodesAreRecorded ==
  \A k \in Commands, w \in Works, e \in Episode :
    outcome[k] = "ok" /\ call[k][Record(w, e)] # "none" => Watched(w, e)

\* However stale the reading behind it, a start's UpdateStatusMutation makes a
\* work WATCHED only when its last episode has been watched.
OnlyFinishedWorksBecomeWatched ==
  [][\A w \in Works : status[w] # "WATCHED" /\ status'[w] = "WATCHED" => Finished(w)]_vars

Plans(k, m) == cmd[k].name = "start" /\ call[k][m] # "todo" /\ call'[k][m] = "todo"

\* A start never plans to record, once more, an episode in the middle of a work
\* that the very listing it read shows as watched.
StartRecordsUnwatchedMiddle ==
  [][\A k \in Commands, w \in Works, e \in Episode :
       e # EpisodeCount[w] /\ Plans(k, Record(w, e)) => ~Watched(w, e)]_vars

Seen == {p \in Works \X Episode : Watched(p[1], p[2])}

Accounts == INSTANCE Account WITH
  seen <- Seen, Handled <- IF "WATCHED" \in UserStatuses THEN Works ELSE {}

\* All commands and faults together do to the account what Account says, on
\* which Dashboard builds.
AccountSpec == Accounts!Spec

-----------------------------------------------------------------------------
(* Liveness.                                                               *)

\* Every accepted command ends with a post to the webhook, unless the process
\* dies under it: no pending goroutine of the errgroup is waited for forever.
EveryCommandEnds == \A k \in Commands : pc[k] = "query" ~> pc[k] \in {"idle", "lost"}

\* Repeating start watches every work that was begun to its end and marks it.
BegunWorksGetWatched ==
  \A w \in Works : Watched(w, 1) ~> status[w] = "WATCHED"

-----------------------------------------------------------------------------
(* What the comments and messages of the code say, and the code does not do. *)

\* "If a created episode is the last episode, CreateNextEpisodeRecords marks the
\* work state as WATCHED."
LastEpisodeMarksWork ==
  \A k \in Commands, w \in Works :
    /\ outcome[k] = "ok" /\ cmd[k].name = "start" /\ EpisodeCount[w] > 0
    /\ call[k][Record(w, EpisodeCount[w])] # "none"
    => call[k][Mark(w, "WATCHED")] = "acked"

\* No command brings the process down: the code tests the title of an episode
\* for nil.  (With MaxRestarts = 0 nothing but a panic can stop the process.)
ProcessStaysUp == up

=============================================================================
