------------------------------ MODULE Dashboard ------------------------------
(***************************************************************************)
(* statistics.Service and a client that shows a dashboard and then pages   *)
(* through the watched works, while commands change the account.           *)
(*                                                                         *)
(* GetDashboard asks Annict five times, in three goroutines: for the       *)
(* profile and, for each section, for a page of works and then for the     *)
(* records from which their times are taken.  Every query sees the account *)
(* of another moment.  In between, Slack commands and the owner take any   *)
(* steps of Account.  A page is asked for by an offset, as the cursors of  *)
(* testutil/testdata/list_works_response are.                              *)
(*                                                                         *)
(* Images and panics are left out (see ListWorks), and clients page        *)
(* through the watched works only.                                         *)
(***************************************************************************)
EXTENDS RecordTimes, FiniteSets

CONSTANTS
  Season,         \* the works, the latest season first
  PageSizes,      \* the sizes of the pages that clients ask for
  MaxRecords,     \* bound: how many records the account comes to have
  Handled         \* the works that the owner marks or puts aside by hand

ASSUME DashboardAssumption ==
  /\ IsFiniteSet(Works)
  /\ Season \in [1..Cardinality(Works) -> Works] /\ \A w \in Works : \E i \in DOMAIN Season : Season[i] = w
  /\ PageSizes \subseteq Nat /\ MaxRecords \in Nat /\ Handled \subseteq Works

VARIABLES
  log,            \* Annict's records
  status,         \* Annict's viewerStatusState
  pc,             \* pc[g]: where the goroutine g of the request is
  size, offset,   \* the page of watched works that is asked for
  page,           \* page[s]: what section s of the answer lists
  times,          \* times[s][w]: the times of work w there
  response,       \* what the last request got
  token,          \* the client's next page token; 0 is the empty string
  shown,          \* the watched works the client has been shown
  steady,         \* history: the works with an unchanged status
  byHand,         \* history: the works that the owner has marked WATCHED
  shifted         \* history: a work has ceased to be WATCHED

accountVars == <<log, status, steady, byHand, shifted>>
requestVars == <<pc, size, offset, page, times>>
clientVars == <<response, token, shown>>
vars == <<log, status, pc, size, offset, page, times, response, token, shown,
          steady, byHand, shifted>>

Section == {"WATCHING", "WATCHED"}
Goroutine == Section \cup {"profile"}

\* Every variable keeps to its values; a section lists a work at most once.
TypeOK ==
  /\ log \in Seq(Record) /\ Len(log) <= MaxRecords
  /\ status \in [Works -> Section \cup {"OTHER"}]
  /\ pc \in [Goroutine -> {"idle", "query", "records", "done", "failed"}]
  /\ size \in PageSizes \cup {0} /\ offset \in 0..Cardinality(Works)
  /\ page \in [Section -> SUBSET Works]
  /\ times \in [Section -> [Works -> [begin : 0..MaxRecords, finish : 0..MaxRecords]]]
  /\ response \in {"none", "ok", "error"}
  /\ token \in 0..Cardinality(Works)
  /\ shown \subseteq Works /\ steady \subseteq Works /\ byHand \subseteq Works /\ shifted \in BOOLEAN

NoPage == [s \in Section |-> {}]
Untimed == [s \in Section |-> [w \in Works |-> NoTimes]]

\* Nothing has been recorded yet, but the owner has marked any works, WATCHED or not.
Init ==
  /\ log = << >> /\ status \in [Works -> Section \cup {"OTHER"}]
  /\ byHand = {w \in Works : status[w] = "WATCHED"}
  /\ pc = [g \in Goroutine |-> "idle"]
  /\ size = 0 /\ offset = 0
  /\ page = NoPage /\ times = Untimed
  /\ response = "none" /\ token = 0
  /\ shown = {} /\ steady = {} /\ shifted = FALSE

-----------------------------------------------------------------------------
(* The commands.                                                           *)

Recorded(w, e) == \E i \in DOMAIN log : log[i] = [work |-> w, episode |-> e]

\* The account as a set of pairs, without the order and number of its records.
Accounts == INSTANCE Account WITH
  seen <- {<<log[i].work, log[i].episode>> : i \in DOMAIN log}

\* A start records a next episode, an add the first one; either may do so once
\* more.
CreateRecord(w, e) ==
  /\ Len(log) < MaxRecords
  /\ log' = Append(log, [work |-> w, episode |-> e])
  /\ Accounts!See(w, e)
  /\ UNCHANGED <<steady, byHand, shifted, requestVars, clientVars>>

\* What the histories make of a new status of w.
UpdateStatus(w) ==
  /\ status'[w] # status[w]
  /\ steady' = steady \ {w}
  /\ shifted' = (shifted \/ status[w] = "WATCHED")
  /\ UNCHANGED <<requestVars, clientVars>>

\* A start marks finished works only.
FinishWork(w) == UNCHANGED <<log, byHand>> /\ Accounts!Finish(w) /\ UpdateStatus(w)

\* An add marks any work WATCHING, also one that is WATCHED.
AddWork(w) == UNCHANGED <<log, byHand>> /\ Accounts!TakeUp(w) /\ UpdateStatus(w)

\* The owner says that a work is on hold, stopped or not watched at all.
ShelveWork(w) ==
  w \in Handled /\ UNCHANGED <<log, byHand>> /\ Accounts!PutAside(w) /\ UpdateStatus(w)

\* The owner says on annict.com that a work has been watched, without a record.
MarkWatched(w) ==
  /\ UNCHANGED log /\ Accounts!MarkByHand(w) /\ UpdateStatus(w)
  /\ byHand' = byHand \cup {w}

-----------------------------------------------------------------------------
(* Requests.                                                               *)

Idle == \A g \in Goroutine : pc[g] = "idle"

Call(gs, n, from) ==
  /\ pc' = [g \in Goroutine |-> IF g \in gs THEN "query" ELSE "idle"]
  /\ size' = n /\ offset' = from
  /\ page' = NoPage /\ times' = Untimed
  /\ response' = "none"

\* validateGetDashboardRequest and validateListWorksRequest.
Reject(n) ==
  /\ Idle /\ n = 0
  /\ response' = "error" /\ page' = NoPage /\ times' = Untimed
  /\ UNCHANGED <<accountVars, pc, size, offset, token, shown>>

\* GetDashboard: all three goroutines start; the client starts over.
GetDashboard(n) ==
  /\ Idle /\ n # 0
  /\ Call(Goroutine, n, 0)
  /\ token' = 0 /\ shown' = {}
  /\ steady' = Works /\ shifted' = FALSE
  /\ byHand' = {w \in byHand : status[w] = "WATCHED"}
  /\ UNCHANGED <<log, status>>

\* ListWorks: the client asks for the page of watched works after the last one.
\* It may do so again after an error.
ListWorks(n) ==
  /\ Idle /\ n # 0 /\ token # 0
  /\ Call({"WATCHED"}, n, token)
  /\ UNCHANGED <<accountVars, token, shown>>

\* The works of a section's page: GetDashboard asks for 100 watching works.
Limit(s) == IF s = "WATCHING" THEN 100 ELSE size
Offset(s) == IF s = "WATCHING" THEN 0 ELSE offset

\* The place of the i-th work of the season among the works of section s.
Place(s, i) == Cardinality({j \in 1..i : status[Season[j]] = s})

PageOf(s) ==
  {Season[i] : i \in {j \in DOMAIN Season :
     status[Season[j]] = s /\ Place(s, j) \in Offset(s) + 1..Offset(s) + Limit(s)}}

\* Mutant of QueryWorks: the sections are not told apart by the status.
QueryWorksUnfiltered(s) ==
  /\ pc[s] = "query"
  /\ page' = [page EXCEPT ![s] = {w \in Works : status[w] \in Section}]
  /\ pc' = [pc EXCEPT ![s] = IF page'[s] = {} THEN "done" ELSE "records"]
  /\ UNCHANGED <<accountVars, clientVars, size, offset, times>>

\* service.ListWorks up to the errgroup; an empty page returns at once.
QueryWorks(s) ==
  /\ pc[s] = "query"
  /\ page' = [page EXCEPT ![s] = PageOf(s)]
  /\ pc' = [pc EXCEPT ![s] = IF page'[s] = {} THEN "done" ELSE "records"]
  /\ UNCHANGED <<accountVars, clientVars, size, offset, times>>

\* listRecords and the merge of its times into the works.
QueryRecords(s) ==
  /\ pc[s] = "records"
  /\ \E m \in ListedTimes(log) :
       times' = [times EXCEPT ![s] = [w \in Works |->
                   IF w \in page[s] THEN m[Title[w]] ELSE NoTimes]]
  /\ pc' = [pc EXCEPT ![s] = "done"]
  /\ UNCHANGED <<accountVars, clientVars, size, offset, page>>

QueryProfile ==
  /\ pc["profile"] = "query"
  /\ pc' = [pc EXCEPT !["profile"] = "done"]
  /\ UNCHANGED <<accountVars, clientVars, size, offset, page, times>>

\* Mutant of QueryFails: a failure panics.
QueryPanics(g) ==
  /\ pc[g] \in {"query", "records"}
  /\ pc' = [pc EXCEPT ![g] = "panicked"]
  /\ UNCHANGED <<accountVars, clientVars, size, offset, page, times>>

\* A query fails, or a createdAt cannot be parsed.  The other goroutines go on:
\* the errgroup has no context.
QueryFails(g) ==
  /\ pc[g] \in {"query", "records"}
  /\ pc' = [pc EXCEPT ![g] = "failed"]
  /\ UNCHANGED <<accountVars, clientVars, size, offset, page, times>>

\* Mutant of NextToken: the cursor of the edge after the last one.
NextTokenPast == IF page["WATCHED"] = {} THEN 0 ELSE offset + Cardinality(page["WATCHED"]) + 1

\* The cursor of the last edge, or the empty string.
NextToken == IF page["WATCHED"] = {} THEN 0 ELSE offset + Cardinality(page["WATCHED"])

\* The request is over; only its answer remains.
Finish == pc' = [g \in Goroutine |-> "idle"] /\ size' = 0 /\ offset' = 0

Answer ==
  /\ response' = "ok"
  /\ token' = NextToken /\ shown' = shown \cup page["WATCHED"]
  /\ Finish /\ UNCHANGED <<accountVars, page, times>>

\* Mutant of Wait: errors are dropped.
WaitForgettingErrors ==
  /\ ~Idle /\ \A g \in Goroutine : pc[g] \in {"idle", "done", "failed"}
  /\ Answer

\* eg.Wait, and the answer.
Wait ==
  /\ ~Idle /\ \A g \in Goroutine : pc[g] \in {"idle", "done", "failed"}
  /\ \/ /\ \A g \in Goroutine : pc[g] # "failed"
        /\ Answer
     \/ /\ \E g \in Goroutine : pc[g] = "failed"
        /\ response' = "error" /\ page' = NoPage /\ times' = Untimed
        /\ Finish /\ UNCHANGED <<accountVars, token, shown>>

-----------------------------------------------------------------------------

Commands ==
  \E w \in Works :
    \/ \E e \in Episodes(w) : CreateRecord(w, e)
    \/ FinishWork(w) \/ AddWork(w) \/ ShelveWork(w) \/ MarkWatched(w)

Client == \E n \in PageSizes : Reject(n) \/ GetDashboard(n) \/ ListWorks(n)

Query(g) ==
  \/ g = "profile" /\ QueryProfile
  \/ g \in Section /\ (QueryWorks(g) \/ QueryRecords(g))
  \/ QueryFails(g)

Next == Commands \/ Client \/ Wait \/ \E g \in Goroutine : Query(g)

Spec == Init /\ [][Next]_vars

-----------------------------------------------------------------------------

Listed(s) == IF response = "ok" THEN page[s] ELSE {}

\* The works that share the times of w, for want of another key than the title.
Namesakes(w) == {v \in Works : Title[v] = Title[w]}

\* A begin time is that of a record of the work's first episode, and a finish
\* time that of a record of its last one, in whatever order Annict lists the
\* records of all works, and although every title keeps only two times; works of
\* one title at least get times of a first and of a last episode among them.
TimesAreOfFirstAndLast ==
  \A s \in Section : \A w \in Listed(s) :
    LET t == times[s][w] IN
    /\ t.begin # NoTime =>
         \E v \in Namesakes(w) : log[t.begin] = [work |-> v, episode |-> 1]
    /\ t.finish # NoTime =>
         t.begin # NoTime
         /\ \E v \in Namesakes(w) : log[t.finish] = [work |-> v, episode |-> EpisodeCount[v]]

\* A work of several episodes that the server has marked WATCHED, and the owner
\* not by hand, is shown with the time it was finished, although its status and
\* its records come from two queries and other works may have its title.  (What
\* the owner marks needs no record, and is then shown without times: so is
\* the first work of testutil/testdata/list_works_response.)
WatchedWorksHaveFinishTimes ==
  \A w \in Listed("WATCHED") :
    EpisodeCount[w] > 1 /\ w \notin byHand => times["WATCHED"][w].finish # NoTime

\* Unless a first episode was recorded again, of this work or of one of its
\* title, a work is finished after it was begun, however many records of other
\* episodes there are.  A work of one episode, recorded once, is not finished.
FinishedAfterBegun ==
  \A s \in Section : \A w \in Listed(s) :
    LET t == times[s][w]
        firsts == {i \in DOMAIN log : log[i].work \in Namesakes(w) /\ log[i].episode = 1}
    IN  Cardinality(firsts) = 1 /\ t.finish # NoTime => t.begin < t.finish

\* A client that has paged from a dashboard to the empty token has been shown
\* every work that was WATCHED all the time, and none that never was, provided
\* that no work ceased to be WATCHED meanwhile (offsets would then skip one).
PagingMissesNothing ==
  /\ \A w \in steady \cap shown : status[w] = "WATCHED"
  /\ response = "ok" /\ token = 0 /\ ~shifted =>
       \A w \in steady : status[w] = "WATCHED" => w \in shown

\* What proto/resource.proto says of finish_time: empty if a work is WATCHING.
WatchingWorksHaveNoFinishTime ==
  \A w \in Listed("WATCHING") : times["WATCHING"][w].finish = NoTime
=============================================================================
