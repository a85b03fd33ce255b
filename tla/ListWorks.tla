------------------------------ MODULE ListWorks ------------------------------
(***************************************************************************)
(* service.ListWorks (annict/annict.go) and the workers that fetch the     *)
(* images of the listed works (annict/worker.go).                          *)
(*                                                                         *)
(* A request asks Annict for a page of works, then runs an errgroup of     *)
(* goroutines: one reads the records, and one per work asks ogImageFetcher *)
(* for the image.  process waits for one of maxWorkers slots, shared by    *)
(* all requests, and starts a worker; the worker sends what it found on a  *)
(* channel with room for it, or notices that the request is over.  stop    *)
(* takes every slot, so that it returns nil only when no worker runs.      *)
(***************************************************************************)
EXTENDS Integers, Sequences, FiniteSets

CONSTANTS
  Requests,       \* slots for the requests being handled at the same time
  Works,          \* the works a page may list
  MaxWorkers,
  Faults          \* which of FaultKinds happen

\* query: the page or the records cannot be read; nil: a work of the page has
\* no viewerStatusState, seasonYear or seasonName.
FaultKinds == {"query", "nil"}

ASSUME ListWorksAssumption ==
  /\ IsFiniteSet(Requests) /\ IsFiniteSet(Works)
  /\ MaxWorkers \in Nat \ {0}
  /\ Faults \subseteq FaultKinds

Calls == Requests \X Works
Stopper == <<"stop">>

VARIABLES
  request,        \* request[r]: how far the handler of r is
  ctx,            \* ctx[r]: whether the context of r is done
  records,        \* records[r]: how far the goroutine that lists records is
  call,           \* call[c]: how far the goroutine for a work is
  worker,         \* worker[c]: how far the worker that fetches its image is
  sent,           \* the calls whose channel the worker has filled
  stop,           \* how far Service.Stop is
  cur, waiters, holders

INSTANCE Semaphore WITH Size <- MaxWorkers, Single <- Calls, Whole <- Stopper

requestVars == <<request, ctx, records>>
callVars == <<call, worker, sent>>
slotVars == <<cur, waiters, holders>>
vars == <<request, ctx, records, call, worker, sent, stop, cur, waiters, holders>>

\* Every variable keeps to its values, cur and waiters included.
TypeOK ==
  /\ request \in [Requests -> {"idle", "query", "running", "ok", "error", "panicked"}]
  /\ ctx \in [Requests -> {"live", "done"}]
  /\ records \in [Requests -> {"none", "asking", "ok", "error"}]
  /\ call \in [Calls -> {"none", "start", "acquiring", "await", "done", "failed"}]
  /\ worker \in [Calls -> {"none", "fetching", "fetched", "leaving"}]
  /\ sent \subseteq Calls
  /\ stop \in {"idle", "acquiring", "stopped", "timedout"}
  /\ SemTypeOK

Init ==
  /\ request = [r \in Requests |-> "idle"]
  /\ ctx = [r \in Requests |-> "live"]
  /\ records = [r \in Requests |-> "none"]
  /\ call = [c \in Calls |-> "none"]
  /\ worker = [c \in Calls |-> "none"]
  /\ sent = {}
  /\ stop = "idle"
  /\ SemInit

CallsOf(r) == {r} \X Works

\* The goroutines of r that could still touch its state have ended.
Over(r) ==
  /\ request[r] \in {"idle", "ok", "error", "panicked"}
  /\ records[r] # "asking"
  /\ \A c \in CallsOf(r) : call[c] \in {"none", "done", "failed"} /\ worker[c] = "none"

-----------------------------------------------------------------------------
(* The handler.                                                            *)

\* The next request takes a slot whose former request is over.
Arrive(r) ==
  /\ Over(r)
  /\ request' = [request EXCEPT ![r] = "query"]
  /\ ctx' = [ctx EXCEPT ![r] = "live"]
  /\ records' = [records EXCEPT ![r] = "none"]
  /\ call' = [c \in Calls |-> IF c[1] = r THEN "none" ELSE call[c]]
  /\ sent' = sent \ CallsOf(r)
  /\ UNCHANGED <<worker, stop, cur, waiters, holders>>

\* The client leaves, or net/http ends the context after the handler returned.
ContextDone(r) ==
  /\ ~Over(r) /\ ctx[r] = "live"
  /\ ctx' = [ctx EXCEPT ![r] = "done"]
  /\ UNCHANGED <<request, records, callVars, stop, slotVars>>

Finish(r, result) ==
  /\ request' = [request EXCEPT ![r] = result]
  /\ UNCHANGED <<ctx, records, callVars, stop, slotVars>>

QueryFails(r) ==
  /\ request[r] = "query" /\ ("query" \in Faults \/ ctx[r] = "done")
  /\ Finish(r, "error")

NothingListed(r) == request[r] = "query" /\ Finish(r, "ok")

StartGoroutines(r, ws, next) ==
  /\ request[r] = "query"
  /\ request' = [request EXCEPT ![r] = next]
  /\ records' = [records EXCEPT ![r] = "asking"]
  /\ call' = [c \in Calls |-> IF c \in {r} \X ws THEN "start" ELSE call[c]]
  /\ UNCHANGED <<ctx, worker, sent, stop, slotVars>>

PageListed(r) == \E ws \in SUBSET Works \ {{}} : StartGoroutines(r, ws, "running")

\* The loop over the page dereferences a nil pointer after it has started the
\* goroutines of the works before; the recovery interceptor ends the request.
\* Nobody waits for these goroutines then.
NilPanics(r) ==
  /\ "nil" \in Faults
  /\ \E ws \in SUBSET Works : ws # Works /\ StartGoroutines(r, ws, "panicked")

ListRecordsEnds(r) ==
  /\ records[r] = "asking"
  /\ \E result \in {"ok", "error"} :
       /\ result = "error" => "query" \in Faults \/ ctx[r] = "done"
       /\ records' = [records EXCEPT ![r] = result]
  /\ UNCHANGED <<request, ctx, callVars, stop, slotVars>>

GroupEnded(r) ==
  /\ request[r] = "running" /\ records[r] # "asking"
  /\ \A c \in CallsOf(r) : call[c] \in {"none", "done", "failed"}

\* Mutant of Wait: only the error of listRecords counts.
WaitForRecordsOnly(r) ==
  /\ GroupEnded(r)
  /\ Finish(r, IF records[r] = "error" THEN "error" ELSE "ok")

\* eg.Wait: every goroutine has ended; the first error, if any, is returned.
Wait(r) ==
  /\ GroupEnded(r)
  /\ Finish(r, IF records[r] = "error" \/ \E c \in CallsOf(r) : call[c] = "failed"
               THEN "error" ELSE "ok")

-----------------------------------------------------------------------------
(* The goroutine for a work, and process.                                  *)

SetCall(c, s) == call' = [call EXCEPT ![c] = s]

AcquireSlot(c) ==
  /\ call[c] = "start"
  /\ SetCall(c, "acquiring")
  /\ Acquire(c)
  /\ UNCHANGED <<requestVars, worker, sent, stop>>

\* Acquire returns nil, whatever the context says by now; process starts the
\* worker and returns the channel.
StartWorker(c) ==
  /\ call[c] = "acquiring" /\ c \in holders
  /\ SetCall(c, "await")
  /\ worker' = [worker EXCEPT ![c] = "fetching"]
  /\ UNCHANGED <<requestVars, sent, stop, slotVars>>

\* Acquire returns the error of the context.
AcquireFails(c) ==
  /\ call[c] = "acquiring" /\ ctx[c[1]] = "done"
  /\ Cancel(c)
  /\ SetCall(c, "failed")
  /\ UNCHANGED <<requestVars, worker, sent, stop>>

Receive(c) ==
  /\ call[c] = "await" /\ c \in sent
  /\ SetCall(c, "done")
  /\ UNCHANGED <<requestVars, worker, sent, stop, slotVars>>

GiveUp(c) ==
  /\ call[c] = "await" /\ ctx[c[1]] = "done"
  /\ SetCall(c, "failed")
  /\ UNCHANGED <<requestVars, worker, sent, stop, slotVars>>

-----------------------------------------------------------------------------
(* The worker.                                                             *)

SetWorker(c, s) == worker' = [worker EXCEPT ![c] = s]

\* run ends within its 3 seconds, with the URL or, on any error, without.
FetchEnds(c) ==
  /\ worker[c] = "fetching"
  /\ SetWorker(c, "fetched")
  /\ UNCHANGED <<requestVars, call, sent, stop, slotVars>>

\* Mutant of Send: the worker of a failed fetch parks after sending.
SendAndStay(c) ==
  /\ worker[c] = "fetched"
  /\ SetWorker(c, "sent")
  /\ sent' = sent \cup {c}
  /\ UNCHANGED <<requestVars, call, stop, slotVars>>

\* The channel has room for the one URL, be it empty.
Send(c) ==
  /\ worker[c] = "fetched"
  /\ SetWorker(c, "leaving")
  /\ sent' = sent \cup {c}
  /\ UNCHANGED <<requestVars, call, stop, slotVars>>

Abandon(c) ==
  /\ worker[c] = "fetched" /\ ctx[c[1]] = "done"
  /\ SetWorker(c, "leaving")
  /\ UNCHANGED <<requestVars, call, sent, stop, slotVars>>

\* Mutant of ReleaseSlot: the slot is not given back when nothing was sent.
ReleaseAfterSend(c) ==
  /\ worker[c] = "leaving"
  /\ SetWorker(c, "none")
  /\ IF c \in sent THEN Release(c) ELSE UNCHANGED slotVars
  /\ UNCHANGED <<requestVars, call, sent, stop>>

ReleaseSlot(c) ==
  /\ worker[c] = "leaving"
  /\ SetWorker(c, "none")
  /\ Release(c)
  /\ UNCHANGED <<requestVars, call, sent, stop>>

-----------------------------------------------------------------------------
(* Service.Stop, which main calls once, with a timeout of one second.      *)

StopAcquires ==
  /\ stop = "idle"
  /\ stop' = "acquiring"
  /\ Acquire(Stopper)
  /\ UNCHANGED <<requestVars, callVars>>

\* Mutant of StopReturns: stop does not wait for its turn.
StopReturnsEarly ==
  /\ stop = "acquiring"
  /\ stop' = "stopped"
  /\ UNCHANGED <<requestVars, callVars, slotVars>>

StopReturns ==
  /\ stop = "acquiring" /\ Stopper \in holders
  /\ stop' = "stopped"
  /\ UNCHANGED <<requestVars, callVars, slotVars>>

StopTimesOut ==
  /\ stop = "acquiring"
  /\ Cancel(Stopper)
  /\ stop' = "timedout"
  /\ UNCHANGED <<requestVars, callVars>>

-----------------------------------------------------------------------------

Handle(r) ==
  QueryFails(r) \/ NothingListed(r) \/ PageListed(r) \/ NilPanics(r) \/ Wait(r)

Proceed(c) == AcquireSlot(c) \/ StartWorker(c) \/ AcquireFails(c) \/ Receive(c) \/ GiveUp(c)

Work(c) == FetchEnds(c) \/ Send(c) \/ Abandon(c) \/ ReleaseSlot(c)

Stop == StopAcquires \/ StopReturns \/ StopTimesOut

Next ==
  \/ \E r \in Requests : Arrive(r) \/ ContextDone(r) \/ Handle(r) \/ ListRecordsEnds(r)
  \/ \E c \in Calls : Proceed(c) \/ Work(c)
  \/ Stop

Spec == Init /\ [][Next]_vars

\* Goroutines that can run do run, Annict answers, and timers fire.
Fairness ==
  /\ \A r \in Requests : WF_vars(Handle(r)) /\ WF_vars(ListRecordsEnds(r))
  /\ \A c \in Calls : WF_vars(Proceed(c)) /\ WF_vars(Work(c))
  /\ WF_vars(StopReturns \/ StopTimesOut)

FairSpec == Spec /\ Fairness

-----------------------------------------------------------------------------
(* Safety.                                                                 *)

\* The semaphore's count is that of the slots held, and there are never more.
SlotsAccounted == cur = SlotsOf(holders) /\ cur <= MaxWorkers

\* No slot is lost: whatever became of its request, by success, error, panic or
\* departure of the client, a held slot belongs to a goroutine that will release
\* it, and a goroutine that fetches holds one.
NoSlotLeaks ==
  \A c \in Calls : c \in holders <=> worker[c] # "none" \/ (call[c] = "acquiring" /\ c \notin ToSet(waiters))

\* No wake-up is lost: the first waiter waits because its slots are not free.
NoneWaitsInVain == waiters # <<>> => ~Fits(Head(waiters))

\* A request succeeds only with the records read and an answer for the image of
\* every work, be it the empty one; it fails only if Annict did or the client
\* left, never because an image could not be fetched.
AnswerIsComplete ==
  \A r \in Requests :
    /\ request[r] = "ok" =>
         /\ records[r] \in {"none", "ok"}
         /\ \A c \in CallsOf(r) : call[c] = "none" \/ (call[c] = "done" /\ c \in sent)
    /\ request[r] = "error" => records[r] \in {"none", "error"} \/ ctx[r] = "done"

\* The fetcher is a pool of at most maxWorkers workers that stop drains.
Pool == INSTANCE WorkerPool WITH
          running <- {c \in Calls : worker[c] # "none"},
          stopped <- (stop = "stopped")
PoolSpec == Pool!Spec

AheadOf(x) == {y \in ToSet(waiters) :
                 \E i, j \in DOMAIN waiters : i < j /\ waiters[i] = y /\ waiters[j] = x}

\* A process call that comes after stop never gets a slot before it: requests
\* that keep arriving cannot starve the shutdown.
StopIsNotOvertaken ==
  [][(Stopper \in ToSet(waiters) \cap ToSet(waiters')) =>
       holders' \ holders \subseteq AheadOf(Stopper)]_vars

-----------------------------------------------------------------------------
(* Liveness.                                                               *)

\* Every request is answered, however slots are fought over, unless stop has
\* taken them all, after which the process exits.
EveryRequestReturns ==
  \A r \in Requests :
    request[r] = "running" ~> request[r] # "running" \/ stop = "stopped"
=============================================================================
