# A TLA+ model of animekai

animekai watches anime together: a Go server that keeps one [Annict](https://annict.com)
account for a group of friends.  A Slack slash command (`/animekai start`, `/animekai add`)
records episodes and sets the state of works; a small RPC service over HTTP shows the
account's works and statistics.  The server keeps no data of its own: everything it knows
it asks Annict, and every change is a GraphQL mutation.  What makes it hard is that

* commands run in goroutines that outlive their HTTP request, overlap one another, and
  decide from a listing that may be stale when their mutations take effect;
* mutations are not idempotent, answers get lost, and nothing remembers an unfinished command;
* one pool of workers is shared by all listing requests and drained at shutdown;
* shutdown is a race of a signal goroutine, `ListenAndServe`, deferred calls and whatever is
  still running;
* an error is converted three times on its way to a client, which may have left, and a panic
  ends one request or the whole process, depending on the goroutine it happens in.

## Inventory

| Component | Source | State | Operations | Interacts with | What makes it correct |
|---|---|---|---|---|---|
| Annict mutations | `annict/annict.go` `CreateNextEpisodeRecords`, `UpdateWorkStatus` | none; two errgroups of mutations in flight | start, add | Annict by GraphQL, the Slack handler by calls | episodes are recorded in order, and twice only by commands that overlap or requests given up too early; a work is WATCHED only when finished; what is reported has happened |
| Slack command handler | `slack/slack.go` | one goroutine per command | `ServeHTTP`, `handle` | the annict service, Slack's webhook | every command ends with one post |
| Annict listing | `annict/annict.go` `ListWorks`, `listRecords`, `GetProfile` | an errgroup per request | list a page of works with their times and images | Annict, the image fetcher | an answer is complete; times and cursor are those of the works listed |
| Image fetcher | `annict/worker.go` | a weighted semaphore of 10 slots, a channel per call | `process`, `run`, `stop` | annict.jp, ListWorks, Stop | bounded, no slot lost, no request stuck, drained by stop |
| Server process | `cmd/server/main.go` | context, signal channel, HTTP server | `realMain`, the signal goroutine, deferred calls | all of the above | ends on a signal; what was waited for is not cut off |
| Statistics service | `statistics/*.go` | three results shared by three goroutines | `GetDashboard`, `ListWorks`, validation | the annict service | times belong to the works shown, a client that pages misses nothing, an answer waits for all three |
| RPC over HTTP | `server/*.go`, `api/api.http.go` (generated) | none | interceptor chain, converter, status header, routes, CORS | the statistics service | every error reaches the client under a code it may be told; a message is only sent for a success |
| Annict client | `annict/client_gen.go`, `model_gen.go` (generated) | none | one function per query | Annict | a null or an error ends in an error, not in a crash (it does not always) |
| Dummy Annict server | `testutil/annict_server.go` | none | one canned answer per query | the annict client, in the development mode | it knows every query (it does not) |
| Configuration, error codes, messages | `config`, `errors`, `resource`, `api/api.pb.go` | none | | | modelled where behaviour depends on them: modes, codes, request messages |

## Modules

| Module | Models | Used by |
|---|---|---|
| `AnnictAPI` | the account as the queries and mutations see it: a bag of records per work, a status per work (external: not in the repository) | `EpisodeRecorder` |
| `EpisodeRecorder` | the two commands, from the goroutine in `slack.go` to each mutation in flight | `MCEpisodeRecorder`, `EpisodeRecorderProofs` |
| `Account` | abstract: records without holes, WATCHED only after the last episode | `EpisodeRecorder` (refines it), `Dashboard` (takes its steps) |
| `Semaphore` | `golang.org/x/sync/semaphore` at the version of `go.mod` (external), for its two callers: one slot, all slots | `ListWorks` |
| `WorkerPool` | abstract: at most `MaxWorkers` workers, none once stopped | `ListWorks` (refines it), `Lifecycle` (uses it) |
| `ListWorks` | `service.ListWorks`, `ogImageFetcher.process`, its worker, `run` and `stop` | `MCListWorks`, `ListWorksProofs` |
| `RecordTimes` | `listRecords`: sorting the records and the loop over them | `Dashboard`, `RecordTimesProofs` |
| `Dashboard` | `GetDashboard`, validation, paging, the merge of times in `service.ListWorks` | `MCDashboard`, `DashboardProofs` |
| `Lifecycle` | `main`, `realMain`, the signal goroutine, the requests and commands in flight | its own runs, `LifecycleProofs` |
| `AnnictClient` | the queries, which follow which, the nulls of their answers, `convertError`, what the dummy server knows | `HTTPServer` |
| `HTTPServer` | routes, CORS, converter, interceptors, validation, the statistics service, `ServeHTTP` and `handle` of the Slack handler | `MCHTTPServer`, `HTTPServerProofs` |
| `Exchange` | abstract: what any request and the command it leaves behind go through | `HTTPServer` and `Lifecycle` (both refine it) |

### EpisodeRecorder over AnnictAPI

`records[w][e]` counts the records of episode `e` of work `w`: Annict keeps every record
it is asked to create, so they form a bag.  Episodes are numbered along Annict's
`nextEpisode` links; `SortNumber` is a separate constant, because the code compares sort
numbers and nothing makes them 1, 2, 3.  `pc[k]` follows the goroutine of command `k`:

    idle --Accept--> query --ListNextEpisodes / GetWork--> mutating --Wait--> replying --PostWebhook--> idle
                       |--QueryFails------------------------------------------>|
                       |--NilTitlePanics, UnknownWorkPanics, NoEpisodePanics (later), Kill--> lost

`ListNextEpisodes` is the answer of the query together with the loop that follows it (lines
253-296): the loop reads only that answer.  `Selections` are the results the loop can
have; when two next episodes have equal sort numbers, either may be kept.  Each
mutation is then a request of its own, `todo -> sent -> applied -> acked`, or `failed`:
`Apply` is Annict's step, and takes place even when the process has died since.  A request may
also fail for its sender, by a reset or a 504, while Annict still holds it (`GiveUp`); `late` counts
such requests, and `ApplyLate` carries one out at any later time, after its command has ended and has
been repeated.  `abandoned` counts how many there were.  An add records the episode with the lowest
sort number (`FirstListed`), wherever it is in the chain.
`Wait` is `eg.Wait` with everything up to the return of the service call; the errgroups have
no context, so a failed goroutine cancels nothing.

`Account` is what this comes to for anybody who reads the account: the set of episodes that have a
record grows without a hole, and the server says WATCHED only of a work whose last episode is in it.
`AccountSpec` says that `EpisodeRecorder` implements it (`Seen` forgets how many records there are).
The owner may say WATCHED of the works in `Handled`, and needs no record for it.

A panic in these goroutines ends the process (`Die`): `handle` runs outside the HTTP
handler, and no errgroup recovers.  `Kill` does the same from outside.

### ListWorks over Semaphore

One action per step that another goroutine can observe.  A request (`request`, `ctx`,
`records`) asks for a page, starts one goroutine per work and one for the records, and
waits for all.  The goroutine of a work (`call`) acquires a slot, starts the `worker`, and
then receives the URL or sees that the context is done.  The worker ends its fetch in
time (`run` has a timeout of 3 seconds), fills the channel or sees the context done, and
releases its slot afterwards, so a slot may be held after the request has returned.  A
URL that could not be fetched is the empty string, which nothing distinguishes from a page
without an image, so the model does not either.  A nil pointer in the loop over the page
leaves goroutines that nobody waits for (`NilPanics`, recovered by the interceptor; under
`GetDashboard`, where it is not recovered, the process ends and so does this model's
subject).

The semaphore is first come, first served.  A waiter whose context is done leaves the queue
and, if it was at its head, wakes those behind it; a waiter that has been served meanwhile
gets the slot all the same.  `stop` asks for all slots, waits in the same queue, and never
releases: after a `stop` that returned nil the fetcher is closed.

`WorkerPool` is what this comes to, and `PoolSpec` says that `ListWorks` implements it:
`running` is the set of calls whose worker exists, `stopped` that `stop` has returned nil.

### Dashboard over RecordTimes

`log` is the sequence of all records; a record's position is its `createdAt`.  The account starts without
records, but its works may have any status, and the owner goes on to mark or put aside those in
`Handled` (`MarkWatched`, `ShelveWork`).  `Orders`
are the orders in which the sort may leave the records (the query asks for no order, and
`sort.Slice` is not stable), `Meet` is one turn of the loop, `ListedTimes` the maps that
`listRecords` may return; they go by title, as the map in the code does.  `Place(s, i)` counts the works
of a section up to the `i`-th of the season, and a page is the works whose places follow its
offset.  `pc[g]` follows the three goroutines of `GetDashboard`; `ListWorks`
starts one of them only.  A section asks for its page (`QueryWorks`) and, if the page is
not empty, later for the records (`QueryRecords`); a query may fail, and the others go on.
Between any two of these steps commands and the owner may change the account: they are not
`EpisodeRecorder` itself but any steps of `Account`, which it implements, each put down in the log and
in the history.  A client that has a token pages on through the watched works, repeats a page after
an error, or starts over.  `steady`, `byHand` and `shifted` are history variables: which works have kept
their status since the dashboard, which ones the owner has marked WATCHED, and whether one has ceased to be it.

### Lifecycle

`Dockerfile` and `go.mod` ask for Go 1.13 and 1.14, and the connections are those of that
`net/http`:

    none --Connect--> queued --Accept--> accepted --Track--> new --Arrive--> active --Answer--> answered
                         |--ClosePort, at exit--> reset <--CloseStale--|        |--at exit--> cut

`Accept` and `Track` (`setState(StateNew)`) are two steps of the loop of `Serve`, and `Shutdown`, in the
goroutine of the signal, may look at the connections between them: it then returns nil, while a request
is about to be read (golang.org/issue/48642, mended in Go 1.18).  `missed` remembers which connection that
was.  `ClosePort` resets what the kernel has queued, and a connection that has sent nothing for 5
seconds is closed as idle (`CloseStale`).  `ConfigFails` includes the panic of `RuntimeT.Fatal` in the
development mode, `AcceptFails` is the other way for `ListenAndServe` to return.

`Exit` cuts off every HTTP request and every command that is active.  The 3 seconds of
`Shutdown` and the 1 second of `Stop` may be over at any time (`ShutdownGivesUp`,
`StopTimesOut`); `ServeReturns` includes the deferred `cancel`, after which `Shutdown`
returns the context's error.  Fetches begin and end by the actions of `WorkerPool`, which
`ListWorks` implements; the composition is thus by the abstract specification.

### HTTPServer over AnnictClient

Every client sends one request.  `conn[x]` is the exchange as `net/http` sees it, `at[x]` the place
of its handler, `calls[x]` the set of GraphQL calls under way for it, `fail[x]` the first error
among them (an errgroup keeps only that one), `job[x]` the goroutine of a command.

    received --RefuseBody, RefuseCommand, ServeOther--------------------> done
    received --ServeGetDashboard, ServeListWorks--> serving --Encode----> done
    received --Handle--> started --Acknowledge--------------------------> done
                 |-- job: running --PostWebhook--> what was posted

Between these steps any call may be answered, fail or bring its caller down, of any request, and
any client may leave.  `CallAnswered` starts what follows an answer: the records after a page,
mutations after a lookup.  `Failures` are the codes that an error may have by then: `ConvertError`
of the client's error, and the bare error of the context where `ListWorks` waits for an image.
`MayPanic` is derived from the pointers of the generated types, minus those that the callers test
or never read.  A panic in the handler's goroutine is recovered (`CallPanics`); in a goroutine of an
errgroup or of a command it ends the process (`Crash`).  The dummy server's answers have no nulls.

Requests differ in path, method, headers, body and message; `Request` lists the classes that the
code tells apart.  The converter's callback is `AppendGRPCStatusToHeader`; the one the converter
would make for itself is never used.  What an answer contains belongs to `Dashboard`, what a
command does to `EpisodeRecorder`; calls of one kind count as one, and the images of a page are
counted with its records.  A deadline is on no context here, so `DeadlineExceeded` never happens.
A preflight request is any OPTIONS request.  What Annict does with a negative page size is not
known; such a request passes the validation and is served like any other.

`Exchange` is what remains of it for `net/http`: a request is answered once or cut off, a
command is begun at most once and posts at most once, and only the end of the process cuts
anything off, everything at the same time.  `Lifecycle` implements it as well, with
another reason for the end, so its requests and commands may be taken for those of `HTTPServer`.

## Runs

`tlc -config X.cfg M` in this directory.

| Run | Question | Instance |
|---|---|---|
| `recorder_overlap` | Can overlapping, failing, restarted commands damage the account? | 2 commands, 1 series of 3 episodes, all faults, 1 restart, 1 request given up, the owner changes states: 1 330 000 states up to symmetry |
| `recorder_ends` | Is what a command reports true, and does every command end? | 1 command, 2 series, a film, an unknown ID, an untitled episode, all faults, 1 restart, 1 request given up: 520 000 states |
| `recorder_progress` | Does repeating `start` finish a series although answers are lost? | 1 command, series of 3 and 2 episodes, 1 request given up: 23 000 states |
| `list_works` | Is the fetcher a bounded pool that loses nothing? | 2 requests, 2 works each, 2 slots, stop, all faults: 1 300 000 states up to symmetry |
| `list_works_returns` | Does every request return? | 2 requests, 1 work, 1 slot, stop |
| `lifecycle` | Does the process end, and what does it cut off? | 2 requests, 1 command, 1 slot: 15 000 states |
| `dashboard` | Do times and pages survive an account that changes between the queries, and what of works of one title? | a series of 2 episodes and a work of 1 under its title, 3 records, pages of 1 or 2 works, the owner marks and puts aside both: 2 200 000 states |
| `http_server` | Is a client told what happened, and is every request answered or cut off? | one client with a request of 23 kinds, one with a listing or an add, 3 modes: 92 000 states |
| `finding_*` | see Findings | the smallest instance that shows it |

The properties of the passing runs:

* `NoEpisodeSkipped` (with `PendingRecordsFollow`, which makes it inductive): the records of a
  work never have a hole.  Any stale plan is still a plan of a next episode, and records
  are never deleted.
* `DuplicatesBoundedByOverlap`: overlapping starts do record an episode twice, and so does a start that is
  repeated while Annict still holds the request of the first; one episode in the middle of a work never gets
  more records than there are commands at once (one that died with the process counts, as its requests
  may still be carried out) and requests that were given up.  Without the latter TLC finds one more.
* `StartRecordsUnwatchedMiddle`: a start does not plan a record that its own listing shows.
* `OnlyFinishedWorksBecomeWatched`: however stale its reading, a start marks only a
  work whose last episode has a record.
* `AccountSpec`: `NoEpisodeSkipped` and `OnlyFinishedWorksBecomeWatched` as one specification of the account,
  with every other change ruled out but the owner's, for `Dashboard` to build on.
* `ReportedEpisodesAreRecorded`, `EveryCommandEnds`, `BegunWorksGetWatched`.
* `SlotsAccounted`, `NoSlotLeaks`, `NoneWaitsInVain`, `StopIsNotOvertaken`, `PoolSpec`,
  `AnswerIsComplete`, `EveryRequestReturns`.
* `TimesAreOfFirstAndLast`: with increasing sort numbers, times are those of a first and a last
  episode of the work, whatever the order of the listing.  Works of one title share their times
  (records are keyed by it): the begin time may be that of one of them and the finish time that of another.
* `WatchedWorksHaveFinishTimes`: a status read before the records is never ahead of them.  It is
  about works of several episodes (a work of one has a finish time only if it was recorded twice or
  shares its title) that the owner has not marked by hand: such a work may have no record at all, and then
  has no times, as the first work of `testutil/testdata/list_works_response`.
* `FinishedAfterBegun`: true unless the first episode, of the work or of one of its title, has been
  recorded again; then either record may give the begin time, and the later one may lie after the finish.
* `PagingMissesNothing`: as long as no work ceases to be WATCHED; an add of a watched work
  moves the later works up, and the next offset passes over one of them.
* `DrainedServerCutsNothingTracked`: after a `Shutdown` that returned nil the exit cuts off one HTTP request at
  most, the one whose connection was being accepted at that moment.  It does not say that requests get the
  3 seconds: the deferred `cancel` runs as soon as `ListenAndServe` returns, and `Shutdown` then
  mostly returns the context's error; nothing in the repository promises more.
* `SignalTerminates`; `ExchangeSpec`: nothing but the exit cuts off requests and commands.
* `AnswerTellsOutcome`: an RPC's HTTP status is 200 for most errors; that there is no `grpc-status` and the
  type is the one asked for, as `e2e/helper_test.go` reads it, does mean a success.
* `StayingClientsSeeInternal`: four of the five error codes never reach a client that waits.  This is
  what the code does, not what its codes suggest.
* `CommandsRunIffAcknowledged`: no early return of `ServeHTTP` leaves a command running, and
  Slack gets a 200 exactly for the commands that run.
* `NothingLeftBehind`: an answer waits for all goroutines of its errgroups, the failed ones and
  those of clients that have left included; a recovered panic does leave some.
* `DevModeServes`: the dummy answers every query of the statistics service, so that each request in the range that
  the messages of `validation.go` state (`InRange`) gets its message, and nothing, not even a command with a
  query it does not know, brings the server down.  It leaves open what becomes of requests out of that range.
* `ExchangeSpec`, `EveryExchangeEnds`: the crash that one answer of Annict causes takes every request with it,
  but short of it each is answered, and each command posts.

Each module also defines the mutants of its operators, next to the originals: small
changes of the code under which a property fails.  PROJECT.json says which goes with which.

### Bounds

`RecordCap` stops new commands once an episode has that many records, so that the bag stays
finite; commands that were accepted before go on, so that 2 lets an episode come to as many records as
`DuplicatesBoundedByOverlap` allows; in `recorder_progress` 5 is out of reach (4 gives the same states).
`MaxAbandoned` = 1 is one request that outlives its command; the commands after it find the account as
they would after a slow request of another command, so that a second one adds to the count only.
In `dashboard`, three records finish both works or leave one for a duplicate, and the owner may be
faster than any of them; with two works pages of one need up to two requests after the dashboard to come
to the empty token, pages of two one.
`MaxRestarts` = 1 is a restart with requests of the former process in flight; a second one
meets no other kind of state.  Three episodes are the fewest with a first, a middle and a last
one.  In `http_server` the first client goes through every early return; the second is there to be
cut off by a crash of the first, and to crash it.
Two commands suffice for an overlap; the third of a longer chain only sees the account
and requests in flight, which the first two produce in every combination.  Two slots and
two requests of two works let a request hold slots while it and the other wait, and `stop` be
ahead of some calls and behind others.  Deadlock is checked in `list_works` and
`list_works_returns`; elsewhere the system may stop (`RecordCap`, no restart left, the process has exited, every client
has its answer).

### Fairness

Weak fairness of the steps of a goroutine: Go's scheduler runs goroutines that can run.
`Apply`, `Acknowledge \/ CallFails` and `ListRecordsEnds`: Annict answers every request.  This
is an assumption on the environment: commands run under `context.Background` with
`http.DefaultClient`, and nothing in the code bounds their wait, so without it a command may hang forever.
Nothing is assumed of requests that have been given up.  `FetchEnds` and the end of
`stop`: both have timers.  `PersistentSpec` adds that users keep typing `/animekai start`.
`HTTPServer` assumes the same: handlers and goroutines run on, and every call ends in some way.
In `Lifecycle` nothing is assumed of requests, fetches and commands.

## Findings

| Run | The repository says | The code does |
|---|---|---|
| `finding_last_episode` | `annict.go:32`: if a created episode is the last one, the work is marked WATCHED | marks it only in a later start, which finds a record of the last episode, and records it once more |
| `finding_nil_title` | `annict.go:291` tests the title for nil | lines 286 and 288 have dereferenced title and number text before; the panic ends the process |
| `finding_finish_time` | `resource.proto:43`: finish time is empty if status is WATCHING | sets it for any work whose last episode has a record, before a later start marks the work or after an add has marked it WATCHING again |
| `finding_exit_message` | `main.go:31`: failed to read config | said of every end of `realMain`; the run shows a server that has answered a request and that a signal has shut down in order (`e2e/helper_test.go:50` takes `ErrServerClosed` for normal) |

## Theorems

TLC checks small instances; TLAPS proves for every value of the constants
(`tlapm EpisodeRecorderProofs.tla`, `ListWorksProofs.tla`, `RecordTimesProofs.tla`, `DashboardProofs.tla`,
`LifecycleProofs.tla`, `HTTPServerProofs.tla`).

* `EpisodeRecorderProofs!TypeCorrect`: `TypeOK` is inductive; one lemma per group of actions.
  `MutationFacts` and `MutationShape` say that requests are told apart by their fields.
* `EpisodeRecorderProofs!NoEpisodeIsSkipped`: `NoEpisodeSkipped` is not inductive, because a
  pending request could be for an episode whose predecessor has no record.
  `IInv` adds `PendingRecordsFollow`.  `PlannedRecordsFollow` shows that a command plans only
  next episodes or the first one, the latter if that has the lowest sort number of its work
  (`FirstEpisodeSortsFirst`, by `FirstListedIsFirst`), `CreateRecordKeepsOrder` that carrying out such a request
  leaves no hole, and `QuietStep` covers the steps that neither plan nor create a record.
  `PendingRecordsHaveTheirPredecessor` is the strengthening itself.  `UnderWay` includes the requests that were
  given up, so that it does not matter when they take effect.
* `EpisodeRecorderProofs!ReportsAreTrue` and `OnlyFinishedWorksAreMarked`: `ReportInv` follows a call
  from its effect to the outcome of its command, `MarkInv` says that a pending mark is about a finished
  work.  Both rest on `WatchedStays` (Annict forgets no record) and `CallChanges`, which lists
  all that a step can do to a call.  The second assumes that the owner does not set WATCHED by hand.
* `EpisodeRecorderProofs!ImplementsAccount` assumes `FirstEpisodeSortsFirst`: only Annict's `Apply` and
  `ApplyLate` and the owner change the account (`AccountChanges`).
  `PendingRecordsFollow` makes an applied record a `See`, `MarkInv` an applied mark a `Finish`, and
  `RangeInv` adds that a record under way is of an episode that the work has.  So what `DashboardProofs` shows
  of an account without records that takes any steps of `Account` holds of one that these commands change.
* `EpisodeRecorderProofs!StartsRecordNothingTwice` and `DuplicatesAreBounded` assume that sort numbers
  grow along the episodes, without which the greatest next episode may be one that is watched
  (`LatestIsUnwatched`).  A bound on the records alone is not inductive: `DuplicatesInv` bounds the records
  of an episode together with the requests pending for it and those given up, and a request is planned only
  while there is no record.
* `ListWorksProofs`: `TypeCorrect` and the five safety properties of `ListWorks` from one invariant,
  for any number of requests, works and slots.  `SlotInv` is the semaphore's part: a caller waits once
  or holds, `cur` is the number of slots held, and the first waiter does not fit.  `NotifyLemma`,
  `AcquireLemma`, `ReleaseLemma` and `CancelLemma` show that each call keeps it, and say who may become
  a holder; they rest on lemmas about queues (`AppendQueued`, `RemoveAtQueued`, `FirstShape`) and on
  `SlotsOfUnion`.  `Owners` ties the queue and the holders to the goroutines, without which a slot
  could be released that is not held, and `Progress` says why an ended goroutine ended.
  `StopIsNotOvertaken` is an action property: only `Release` and `Cancel` grant slots while stop waits.
* `ListWorksProofs!ImplementsWorkerPool`: the running workers are among the holders (`RunningHold`),
  so one that starts was not the last to fit, and `Stopper` among the holders leaves room for none.
* `RecordTimesProofs!LoopFindsFirstAndLast`: what the loop of `listRecords` makes of every log in every order.
  `TimesAfter` is the loop invariant and `MeetKeepsTimes` its turn.  The induction is over the set of turns
  after which the invariant holds: `IndexInduction` follows from the well-foundedness of `<`, and
  `Loop` shows that the recursive function of `TimesIn` exists and obeys its equation.
* `RecordTimesProofs!ListedTimesAreTrue`: what the sort adds.  If sort numbers grow along the episodes
  (`SortNumbersIncrease`) and every record follows one of the episode before (`Follows`), then in each
  of the orders a record of a later episode comes after one of the first (`OrdersFollow`).  So a title
  is begun by a first episode, and no record of a last episode is taken for its begin, but in works of one.
* `DashboardProofs!PagingPassesOverNothing` and `TypeCorrect`, from `PagingInv`.  The property speaks of
  clients that have paged to the end only; `PassedInv` says of every moment that the works
  in the places up to the token have been shown, with a page that has been read those up to its
  end, and with an empty page all.  `PlacesDiffer` and `PlacesAreFilled` show that the places of a section
  are 1, 2, 3 without gap or repetition, `PageSize` that a page has no more works than places, so the
  next offset is not ahead of what was shown (`PageGoesOn`), and `PlacesGrow` that a work which becomes
  WATCHED between two pages moves the others only away from the offset.
* `DashboardProofs!TimesAreTrue`, `WatchedWorksAreFinished` and `WorksFinishAfterTheyBegin`: `AccountInv` says that
  records follow one another and that WATCHED works, and those of a page read earlier, have a record of
  their last episode or were marked by the owner (`byHand`); `TimesInv` keeps what `ListedTimesAreTrue` says at the moment of the second query,
  while the log grows (`TimesStayTrue`).  The third rests on `FirstEpisodeBefore` besides.
* `LifecycleProofs!DrainedCutsNothingTracked`: the invariant `ShutdownInv` says that the port is closed for good
  before `Shutdown` waits, that `Serve` holds one accepted connection at most, and that after a `Shutdown` that
  returned nil no connection but that one can still be read.
* `LifecycleProofs!ImplementsExchange`: the exit is the abstract crash whatever caused it (`ExitIsCrash`),
  and no other step touches two of `up`, `conn` and `job`.
* `HTTPServerProofs`: `AnswersAreTruthful`, `WaitingClientsSeeInternal`, `OnlySignedCommandsRun`,
  `GroupsAreWaitedFor` and `TypeCorrect` from one invariant.  It adds `HandlerInv`, which ties calls,
  errors and the command to the place of the handler, and `CancelledInv`: only clients
  that have left have cancelled contexts.  `Fits` is what the invariant asks of a reply; one lemma per
  kind of handler shows that its replies fit, `FinishKeepsIInv` that fitting is enough.
* `HTTPServerProofs!DummyServes`: `DevModeServes` is not inductive.  `DevClient` adds that an
  request in range has only calls under way that the dummy answers, and no error unless its client has
  left; `InputsStay` says that the mode is for good.
* `HTTPServerProofs!ImplementsExchange`: by `HandlerInv` a handler that starts a command has none yet,
  so `Handle` is the abstract `Begin`; every return of a handler is `Answer`, every panic
  outside of it `Crash`.

The proofs assume `AnnictAssumption`, `RecorderAssumption`, `ListWorksAssumption`, `TimesAssumption`,
`DashboardAssumption`, `LifecycleAssumption` and `ServerAssumption`: the shapes of the constants; works may
share titles.  Some assume more, because the code does.  `NoEpisodeIsSkipped`, `PendingRecordsHaveTheirPredecessor`
and `ImplementsAccount` assume that the first episode has the lowest sort number of its work, without which an
add begins in the middle; the other sort numbers may be any integers, in any order.
`StartsRecordNothingTwice`, `DuplicatesAreBounded` and the theorems about times assume that sort numbers grow
along the episodes, for which the code compares and sorts them (works may interleave).
`OnlyFinishedWorksAreMarked` assumes that the owner does not set WATCHED by hand, `DuplicatesAreBounded` that
there are finitely many commands at once, but some.  Every safety property and refinement of the passing runs is stated by a theorem.
Only model-checked: the liveness properties `EveryCommandEnds`, `BegunWorksGetWatched`, `EveryRequestReturns`,
`SignalTerminates` and `EveryExchangeEnds`, which rest on fairness and ENABLED, out of the prover's reach.

## Not modelled

Records that the owner makes by hand on annict.com, which may start in the middle of a work, and their
deletion, which could make holes; changes of the list of episodes;
failure of the webhook (only logged), the paging that `listRecords` lacks (Annict is taken to
list all records), what Annict makes of a negative page size and of an unknown state (the validation lets both through), the plain
fields of profiles and works, the generated accessors and descriptors of the protobuf messages, the schema
types of `model_gen.go` that nothing uses, HEAD and ranges of the file server, fixtures that cannot be read.  Annict's answer to
a query is taken at one moment.  A nil `viewerStatusState` of a recorded work is not
modelled: Annict gives every recorded work a state.

## Plan

Hazards without a property, and why:

* sort numbers of 0 or less (`annict.go:277`), which a start never chooses: the model has them, but nothing says
  that Annict gives such numbers;
* a command that waits for Annict forever (`slack.go:84`): excluded by the fairness assumption, as said;
* the wait of `Shutdown` cut short by the deferred `cancel` (`main.go:88`), which no line rules out;
* a dashboard whose parts are of different moments (`statistics.go:46`) and works that share their times by title
  (`annict.go:227`): the properties hold in spite of them, and do not forbid them;
* the crash by a null in a goroutine of `GetDashboard` (`annict.go:137`): `Crash` of `HTTPServer`, allowed by `Exchange`;
* a work of one episode without a finish time (`annict.go:235`): exempted from `WatchedWorksHaveFinishTimes`;
* negative page sizes (`validation.go:10`), whose fate is Annict's;
* the codes that become Internal (`interceptors.go:25`, `annict.go:363`): `StayingClientsSeeInternal` says what the
  clients see, and no document what they should.

Not begun: records that the owner makes by hand, in `Account` and `Dashboard`; a bound on the works that a client
misses when works leave the list between two pages.
