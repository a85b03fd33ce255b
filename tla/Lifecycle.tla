------------------------------ MODULE Lifecycle ------------------------------
(***************************************************************************)
(* The life of the server process (cmd/server/main.go): realMain, the      *)
(* goroutine that waits for a signal, the HTTP server and its requests.    *)
(*                                                                         *)
(* On a signal the goroutine calls srv.Shutdown, which makes               *)
(* ListenAndServe return in realMain at once.  realMain's deferred calls   *)
(* then cancel the context under which Shutdown waits for the requests,    *)
(* and give annictService.Stop one second; the process exits with          *)
(* whatever is still running.                                              *)
(*                                                                         *)
(* The life of a connection is that of net/http in Go 1.13 and 1.14, the   *)
(* versions of Dockerfile and go.mod: the kernel queues it, the loop of    *)
(* Serve, which runs in realMain, accepts it and then, in a second step,   *)
(* tracks it as StateNew; its own goroutine makes it StateActive once it   *)
(* has read the header of the request.                                     *)
(*                                                                         *)
(* The image fetcher is the WorkerPool that ListWorks implements.          *)
(***************************************************************************)
EXTENDS Integers, FiniteSets

CONSTANTS
  Requests,       \* the RPC requests that may arrive, one fetch each
  Commands,       \* the Slack commands that may arrive
  MaxWorkers

ASSUME LifecycleAssumption ==
  /\ IsFiniteSet(Requests) /\ IsFiniteSet(Commands)
  /\ Requests \cap Commands = {}
  /\ MaxWorkers \in Nat \ {0}

VARIABLES
  main,           \* how far realMain is
  watcher,        \* how far the goroutine that waits for a signal is
  signalled,      \* sigCh holds a signal
  ctxDone,        \* realMain's context is cancelled
  listening,      \* the server has opened its port
  shutdown,       \* srv.Shutdown has been called
  conn,           \* conn[x]: how far the connection of x and its request are
  missed,         \* history: the connections that Serve had accepted but did not
                  \* track yet when srv.Shutdown returned nil
  job,            \* job[k]: how far the goroutine of a Slack command is
  running, stopped,
  exit            \* how the process ended, and what main printed

httpVars == <<listening, shutdown, conn, missed>>
poolVars == <<running, stopped>>
vars == <<main, watcher, signalled, ctxDone, listening, shutdown, conn, missed, job,
          running, stopped, exit>>

Pool == INSTANCE WorkerPool WITH Calls <- Requests

Client == Requests \cup Commands

\* Before the server has read its request, a connection is in the backlog of the
\* port, then accepted, then tracked as StateNew.
Unread == {"queued", "accepted", "new"}

\* Every variable keeps to its values; exit names main's message, not only a code.
TypeOK ==
  /\ main \in {"configuring", "serving", "stopping", "exiting", "exited"}
  /\ watcher \in {"none", "waiting", "shuttingDown", "drained", "gaveUp"}
  /\ signalled \in BOOLEAN /\ ctxDone \in BOOLEAN
  /\ listening \in BOOLEAN /\ shutdown \in BOOLEAN
  /\ conn \in [Client -> Unread \cup {"none", "active", "answered", "cut", "reset"}]
  /\ missed \subseteq Client
  /\ job \in [Commands -> {"none", "running", "posted", "cut"}]
  /\ running \subseteq Requests /\ stopped \in BOOLEAN
  /\ exit \in {"none", "killed", "panicked", "failedToReadConfig"}

Init ==
  /\ main = "configuring" /\ watcher = "none"
  /\ signalled = FALSE /\ ctxDone = FALSE
  /\ listening = FALSE /\ shutdown = FALSE
  /\ conn = [x \in Client |-> "none"] /\ missed = {}
  /\ job = [k \in Commands |-> "none"]
  /\ Pool!Init
  /\ exit = "none"

\* The process is gone, with all that runs in it.
Exit(how) ==
  /\ main' = "exited"
  /\ exit' = how
  /\ conn' = [x \in Client |-> IF conn[x] = "active" THEN "cut"
                               ELSE IF conn[x] \in Unread THEN "reset" ELSE conn[x]]
  /\ job' = [k \in Commands |-> IF job[k] = "running" THEN "cut" ELSE job[k]]
  /\ UNCHANGED <<watcher, signalled, ctxDone, listening, shutdown, missed, poolVars>>

-----------------------------------------------------------------------------
(* realMain.                                                               *)

\* The configuration, the logger or the assets cannot be had, or, in dev mode,
\* RunAnnictServer finds no repository and RuntimeT.Fatal panics; nothing serves.
ConfigFails ==
  main = "configuring" /\ \E how \in {"failedToReadConfig", "panicked"} : Exit(how)

Serve ==
  /\ main = "configuring"
  /\ main' = "serving" /\ watcher' = "waiting"
  /\ UNCHANGED <<signalled, ctxDone, httpVars, job, poolVars, exit>>

Listen ==
  /\ main = "serving" /\ ~listening /\ ~shutdown
  /\ listening' = TRUE
  /\ UNCHANGED <<main, watcher, signalled, ctxDone, shutdown, conn, missed, job, poolVars, exit>>

\* The listener of the port is closed, which resets what is in its backlog.
ClosePort ==
  /\ listening' = FALSE
  /\ conn' = [x \in Client |-> IF conn[x] = "queued" THEN "reset" ELSE conn[x]]

\* The loop of Serve holds one connection that it has accepted and not tracked.
Accepting == \E x \in Client : conn[x] = "accepted"

Accept(x) ==
  /\ main = "serving" /\ listening /\ conn[x] = "queued" /\ ~Accepting
  /\ conn' = [conn EXCEPT ![x] = "accepted"]
  /\ UNCHANGED <<main, watcher, signalled, ctxDone, listening, shutdown, missed, job, poolVars, exit>>

\* setState(StateNew), also after Shutdown has looked at the connections.
Track(x) ==
  /\ main = "serving" /\ conn[x] = "accepted"
  /\ conn' = [conn EXCEPT ![x] = "new"]
  /\ UNCHANGED <<main, watcher, signalled, ctxDone, listening, shutdown, missed, job, poolVars, exit>>

\* Accept fails for good: Serve closes the port and ListenAndServe returns.
AcceptFails ==
  /\ main = "serving" /\ listening /\ ~Accepting
  /\ ClosePort
  /\ main' = "stopping" /\ ctxDone' = TRUE
  /\ UNCHANGED <<watcher, signalled, shutdown, missed, job, poolVars, exit>>

\* ListenAndServe returns, on a port that cannot be opened or, with
\* ErrServerClosed, as soon as Shutdown is called; the deferred cancel runs.
ServeReturns ==
  /\ main = "serving" /\ ~Accepting /\ (shutdown \/ ~listening)
  /\ main' = "stopping" /\ ctxDone' = TRUE
  /\ UNCHANGED <<watcher, signalled, httpVars, job, poolVars, exit>>

StopDrains ==
  /\ main = "stopping" /\ Pool!Drained
  /\ main' = "exiting"
  /\ UNCHANGED <<watcher, signalled, ctxDone, httpVars, job, exit>>

StopTimesOut ==
  /\ main = "stopping"
  /\ main' = "exiting"
  /\ UNCHANGED <<watcher, signalled, ctxDone, httpVars, job, poolVars, exit>>

\* realMain returns the error of ListenAndServe, which is never nil; main says
\* "failed to read config" of any error and exits with code 1.
MainReturns == main = "exiting" /\ Exit("failedToReadConfig")

-----------------------------------------------------------------------------
(* The goroutine that waits for a signal.                                  *)

\* SIGINT or SIGTERM: before signal.Notify it kills the process; after it, one
\* signal waits in sigCh and further ones are dropped.
Signal ==
  \/ main = "configuring" /\ Exit("killed")
  \/ /\ main \notin {"configuring", "exited"}
     /\ signalled' = TRUE
     /\ UNCHANGED <<main, watcher, ctxDone, httpVars, job, poolVars, exit>>

TakeSignal ==
  /\ main # "exited" /\ watcher = "waiting" /\ signalled
  /\ watcher' = "shuttingDown" /\ signalled' = FALSE

\* Mutants of Shutdown: the signal is only noted; the port stays open; srv.Close
\* is called, which cuts off what is active.
ShutdownForgotten ==
  /\ TakeSignal
  /\ UNCHANGED <<main, ctxDone, httpVars, job, poolVars, exit>>

ShutdownKeepingPort ==
  /\ TakeSignal
  /\ shutdown' = TRUE
  /\ UNCHANGED <<main, ctxDone, listening, conn, missed, job, poolVars, exit>>

ShutdownClosing ==
  /\ TakeSignal
  /\ shutdown' = TRUE /\ listening' = FALSE
  /\ conn' = [x \in Client |-> IF conn[x] = "active" THEN "cut" ELSE conn[x]]
  /\ UNCHANGED <<main, ctxDone, missed, job, poolVars, exit>>

Shutdown ==
  /\ TakeSignal
  /\ shutdown' = TRUE /\ ClosePort
  /\ UNCHANGED <<main, ctxDone, missed, job, poolVars, exit>>

WatcherEnds(how) ==
  /\ main # "exited"
  /\ watcher' = how
  /\ UNCHANGED <<main, signalled, ctxDone, listening, shutdown, conn, job, poolVars, exit>>

ContextDone == watcher = "waiting" /\ ctxDone /\ WatcherEnds("gaveUp") /\ UNCHANGED missed

\* A connection that has been StateNew for 5 seconds counts as idle.
CloseStale(x) ==
  /\ main # "exited" /\ watcher = "shuttingDown" /\ conn[x] = "new"
  /\ conn' = [conn EXCEPT ![x] = "reset"]
  /\ UNCHANGED <<main, watcher, signalled, ctxDone, listening, shutdown, missed, job, poolVars, exit>>

\* srv.Shutdown returns nil when every connection that it knows of is idle.
ShutdownDrained ==
  /\ watcher = "shuttingDown" /\ \A x \in Client : conn[x] \notin {"new", "active"}
  /\ WatcherEnds("drained")
  /\ missed' = {x \in Client : conn[x] = "accepted"}

\* srv.Shutdown returns the error of cctx: its 3 seconds are over, or realMain
\* has cancelled the context that cctx derives from.
ShutdownGivesUp == watcher = "shuttingDown" /\ WatcherEnds("gaveUp") /\ UNCHANGED missed

-----------------------------------------------------------------------------
(* Requests.                                                               *)

Alive == main # "exited"

\* A client connects: the kernel queues the connection.
Connect(x) ==
  /\ Alive /\ listening /\ conn[x] = "none"
  /\ conn' = [conn EXCEPT ![x] = "queued"]
  /\ UNCHANGED <<main, watcher, signalled, ctxDone, listening, shutdown, missed, job, poolVars, exit>>

\* The header of a request is read; until it is answered Shutdown waits for it.
Arrive(x) ==
  /\ Alive /\ conn[x] = "new"
  /\ conn' = [conn EXCEPT ![x] = "active"]
  /\ UNCHANGED <<main, watcher, signalled, ctxDone, listening, shutdown, missed, job, poolVars, exit>>

BeginFetch(r) ==
  /\ Alive /\ conn[r] = "active" /\ Pool!Begin(r)
  /\ UNCHANGED <<main, watcher, signalled, ctxDone, httpVars, job, exit>>

EndFetch(r) ==
  /\ Alive /\ Pool!End(r)
  /\ UNCHANGED <<main, watcher, signalled, ctxDone, httpVars, job, exit>>

\* The handler of a verified command starts its goroutine.
BeginCommand(k) ==
  /\ Alive /\ conn[k] = "active" /\ job[k] = "none"
  /\ job' = [job EXCEPT ![k] = "running"]
  /\ UNCHANGED <<main, watcher, signalled, ctxDone, httpVars, poolVars, exit>>

\* An RPC is answered once its fetch has ended; a command at any time, by a
\* handler that refuses it or leaves its goroutine behind.
Answer(x) ==
  /\ Alive /\ conn[x] = "active" /\ x \notin running
  /\ conn' = [conn EXCEPT ![x] = "answered"]
  /\ UNCHANGED <<main, watcher, signalled, ctxDone, listening, shutdown, missed, job, poolVars, exit>>

\* Mutant of PostWebhook: the goroutine waits for an answer to what it posted.
PostWebhookAndWait(k) ==
  /\ Alive /\ job[k] = "running"
  /\ job' = [job EXCEPT ![k] = "posting"]
  /\ UNCHANGED <<main, watcher, signalled, ctxDone, httpVars, poolVars, exit>>

PostWebhook(k) ==
  /\ Alive /\ job[k] = "running"
  /\ job' = [job EXCEPT ![k] = "posted"]
  /\ UNCHANGED <<main, watcher, signalled, ctxDone, httpVars, poolVars, exit>>

-----------------------------------------------------------------------------

RealMain ==
  \/ Serve \/ (\E x \in Client : Track(x)) \/ ServeReturns
  \/ StopDrains \/ StopTimesOut \/ MainReturns

Next ==
  \/ ConfigFails \/ RealMain \/ Listen \/ AcceptFails
  \/ Signal \/ Shutdown \/ ContextDone \/ ShutdownDrained \/ ShutdownGivesUp
  \/ \E x \in Client : Connect(x) \/ Accept(x) \/ Arrive(x) \/ Answer(x) \/ CloseStale(x)
  \/ \E r \in Requests : BeginFetch(r) \/ EndFetch(r)
  \/ \E k \in Commands : BeginCommand(k) \/ PostWebhook(k)

Spec == Init /\ [][Next]_vars

\* Goroutines that can run do run, and the one second of Stop passes.  Nothing
\* is assumed of requests, fetches, commands or the 3 seconds of Shutdown.
Fairness == WF_vars(RealMain) /\ WF_vars(Shutdown)

FairSpec == Spec /\ Fairness

-----------------------------------------------------------------------------

\* If srv.Shutdown returned nil, the exit of the process cuts off no HTTP request
\* but the one, at most, whose connection Serve had accepted and not yet tracked
\* at that moment (golang.org/issue/48642): Shutdown cannot have known of it, and
\* everything else was answered, or was never read.
DrainedServerCutsNothingTracked ==
  watcher = "drained" =>
    /\ \A x \in Client : conn[x] = "cut" => x \in missed
    /\ \A x, y \in missed : x = y

Exchanges == INSTANCE Exchange WITH
  up <- main # "exited",
  conn <- [x \in Client |-> IF conn[x] \in Unread \cup {"reset"} THEN "none" ELSE conn[x]],
  job <- [x \in Client |-> IF x \in Commands THEN job[x] ELSE "none"]

\* Requests and commands go through what Exchange says, as those of HTTPServer
\* do, however the process ends: shutting down cuts nothing off before the exit.
ExchangeSpec == Exchanges!Spec

\* A signal brings the process to its end, whatever requests, fetches and
\* commands are doing.
SignalTerminates == signalled ~> main = "exited"

\* What main prints: it failed to read the configuration.  No server prints that
\* which has answered a request and which a signal has shut down in order.
FailureMessageIsTrue ==
  [](main = "serving" /\ watcher = "drained" /\ (\E x \in Client : conn[x] = "answered")
       => [](exit # "failedToReadConfig"))
=============================================================================
