-------------------------- MODULE LifecycleProofs --------------------------
(***************************************************************************)
(* What the shutdown sequence of cmd/server/main.go guarantees for any     *)
(* number of requests, commands and workers.                               *)
(***************************************************************************)
EXTENDS Lifecycle, TLAPS

\* What a connection goes through.
Moves(x) ==
  \/ Connect(x) \/ Accept(x) \/ Track(x) \/ Arrive(x) \/ Answer(x) \/ CloseStale(x)

\* Shutdown closes the port for good before it waits for the requests, so that
\* once it has returned nil only what Serve held then can still be read; and
\* nothing is cut off while the process lives.
ShutdownInv ==
  /\ watcher \in {"shuttingDown", "drained"} => shutdown
  /\ shutdown => ~listening
  /\ watcher = "drained" =>
       \A x \in Client : conn[x] \in {"accepted", "new", "active", "cut"} => x \in missed
  /\ \A x, y \in Client : conn[x] = "accepted" /\ conn[y] = "accepted" => x = y
  /\ \A x, y \in missed : x = y
  /\ main # "exited" => \A x \in Client : conn[x] # "cut"

IInv == TypeOK /\ ShutdownInv

LEMMA InitIInv == Init => IInv
BY DEF Init, IInv, TypeOK, ShutdownInv, Pool!Init

\* Exit cuts off what is active, so only what was missed by a Shutdown that
\* returned nil.
LEMMA ExitIInv ==
  ASSUME IInv, main # "exited", NEW how \in {"killed", "panicked", "failedToReadConfig"},
         Exit(how)
  PROVE  IInv'
<1>1. TypeOK'
  BY DEF IInv, TypeOK, Exit, poolVars, Unread
<1>2. ShutdownInv'
  <2>1. \A x \in Client : conn'[x] \in {"accepted", "new", "active", "cut"}
                            => conn[x] \in {"active", "cut"} /\ conn'[x] # "accepted"
    BY DEF IInv, TypeOK, Exit, Unread
  <2>2. UNCHANGED <<watcher, shutdown, listening, missed>> /\ main' = "exited"
    BY DEF Exit
  <2>3. QED
    BY <2>1, <2>2 DEF IInv, ShutdownInv
<1>3. QED
  BY <1>1, <1>2 DEF IInv

LEMMA NextTypeOK == TypeOK /\ [Next]_vars => TypeOK'
<1> SUFFICES ASSUME TypeOK, [Next]_vars PROVE TypeOK'
  OBVIOUS
<1> USE DEF TypeOK, httpVars, poolVars, Unread
<1>1. CASE ConfigFails \/ MainReturns
  BY <1>1 DEF ConfigFails, MainReturns, Exit
<1>2. CASE Serve \/ ServeReturns \/ StopDrains \/ StopTimesOut
  <2>1. UNCHANGED <<signalled, listening, shutdown, conn, missed, job, running, exit>>
    BY <1>2 DEF Serve, ServeReturns, StopDrains, StopTimesOut, Pool!Drained
  <2>2. main' \in {"serving", "stopping", "exiting"} /\ watcher' \in {watcher, "waiting"}
    BY <1>2 DEF Serve, ServeReturns, StopDrains, StopTimesOut
  <2>3. ctxDone' \in BOOLEAN /\ stopped' \in BOOLEAN
    BY <1>2 DEF Serve, ServeReturns, StopDrains, StopTimesOut, Pool!Drained
  <2>4. QED
    BY <2>1, <2>2, <2>3
<1>3. CASE Listen \/ AcceptFails \/ Signal
  <2>1. CASE Listen \/ AcceptFails
    <3>1. conn' \in [Client -> Unread \cup {"none", "active", "answered", "cut", "reset"}]
      BY <2>1 DEF Listen, AcceptFails, ClosePort
    <3>2. QED
      BY <2>1, <3>1 DEF Listen, AcceptFails, ClosePort
  <2>2. CASE Signal /\ Exit("killed")
    <3>1. conn' \in [Client -> Unread \cup {"none", "active", "answered", "cut", "reset"}]
      BY <2>2 DEF Exit
    <3>2. QED
      BY <2>2, <3>1 DEF Exit
  <2>3. CASE Signal /\ ~Exit("killed")
    <3>1. signalled' = TRUE /\ UNCHANGED <<main, watcher, ctxDone, httpVars, job, poolVars, exit>>
      BY <2>3 DEF Signal
    <3>2. QED
      BY <3>1
  <2>4. QED
    BY <1>3, <2>1, <2>2, <2>3
<1>4. CASE Shutdown
  BY <1>4 DEF Shutdown, TakeSignal, ClosePort
<1>5. CASE ContextDone \/ ShutdownDrained \/ ShutdownGivesUp
  <2>1. CASE ContextDone
    BY <2>1 DEF ContextDone, WatcherEnds
  <2>2. CASE ShutdownDrained
    BY <2>2 DEF ShutdownDrained, WatcherEnds
  <2>3. CASE ShutdownGivesUp
    BY <2>3 DEF ShutdownGivesUp, WatcherEnds
  <2>4. QED
    BY <1>5, <2>1, <2>2, <2>3
<1>6. ASSUME NEW x \in Client, Moves(x)
      PROVE  TypeOK'
  <2>1. PICK s \in Unread \cup {"active", "answered", "reset"} : conn' = [conn EXCEPT ![x] = s]
    BY <1>6 DEF Moves, Connect, Accept, Track, Arrive, Answer, CloseStale
  <2>2. UNCHANGED <<main, watcher, signalled, ctxDone, listening, shutdown, missed, job, running,
                    stopped, exit>>
    BY <1>6 DEF Moves, Connect, Accept, Track, Arrive, Answer, CloseStale
  <2>3. conn' \in [Client -> Unread \cup {"none", "active", "answered", "cut", "reset"}]
    BY <2>1
  <2>4. QED
    BY <2>2, <2>3
<1>7. ASSUME NEW r \in Requests, BeginFetch(r) \/ EndFetch(r)
      PROVE  TypeOK'
  <2>1. running' \subseteq Requests /\ UNCHANGED stopped
    <3>1. CASE BeginFetch(r)
      BY <3>1 DEF BeginFetch, Pool!Begin
    <3>2. CASE EndFetch(r)
      BY <3>2 DEF EndFetch, Pool!End
    <3>3. QED
      BY <1>7, <3>1, <3>2
  <2>2. UNCHANGED <<main, watcher, signalled, ctxDone, listening, shutdown, conn, missed, job, exit>>
    BY <1>7 DEF BeginFetch, EndFetch
  <2>3. QED
    BY <2>1, <2>2
<1>8. ASSUME NEW k \in Commands, BeginCommand(k) \/ PostWebhook(k)
      PROVE  TypeOK'
  <2>1. CASE BeginCommand(k)
    BY <2>1 DEF BeginCommand
  <2>2. CASE PostWebhook(k)
    BY <2>2 DEF PostWebhook
  <2>3. QED
    BY <1>8, <2>1, <2>2
<1>9. CASE UNCHANGED vars
  BY <1>9 DEF vars
<1>10. QED
  BY <1>1, <1>2, <1>3, <1>4, <1>5, <1>6, <1>7, <1>8, <1>9 DEF Next, RealMain, Moves

LEMMA NextIInv == IInv /\ [Next]_vars => IInv'
<1> SUFFICES ASSUME IInv, [Next]_vars PROVE IInv'
  OBVIOUS
<1>0. TypeOK'
  BY NextTypeOK DEF IInv
<1>1. CASE ConfigFails \/ MainReturns \/ (Signal /\ Exit("killed"))
  <2>1. main # "exited"
    <3>1. CASE ConfigFails \/ MainReturns
      BY <3>1 DEF ConfigFails, MainReturns
    <3>2. CASE Signal
      BY <3>2 DEF Signal
    <3>3. QED
      BY <1>1, <3>1, <3>2
  <2>2. QED
    BY <1>1, <2>1, ExitIInv DEF ConfigFails, MainReturns
<1> USE DEF IInv, TypeOK, ShutdownInv, httpVars, poolVars
<1>2. CASE Serve \/ ServeReturns \/ StopDrains \/ StopTimesOut
  <2>1. /\ UNCHANGED <<listening, shutdown, conn, missed>>
        /\ watcher' = watcher \/ watcher' = "waiting"
        /\ main # "exited"
    BY <1>2 DEF Serve, ServeReturns, StopDrains, StopTimesOut
  <2>2. ShutdownInv'
    BY <2>1
  <2>3. QED
    BY <1>0, <2>2
<1>3. CASE Listen \/ (Signal /\ ~Exit("killed"))
  BY <1>0, <1>3 DEF Listen, Signal
<1>4. CASE Shutdown \/ AcceptFails
  <2>1. \A x \in Client : conn'[x] = conn[x] \/ conn'[x] = "reset"
    BY <1>4 DEF Shutdown, AcceptFails, ClosePort
  <2>2. /\ ~listening' /\ UNCHANGED missed
        /\ watcher' = watcher \/ (watcher' = "shuttingDown" /\ shutdown')
        /\ shutdown => shutdown'
        /\ main' # "exited" => main # "exited"
    BY <1>4 DEF Shutdown, AcceptFails, ClosePort, TakeSignal
  <2>3. (watcher' \in {"shuttingDown", "drained"} => shutdown') /\ (shutdown' => ~listening')
    BY <2>2
  <2>4. watcher' = "drained" =>
          \A x \in Client : conn'[x] \in {"accepted", "new", "active", "cut"} => x \in missed'
    BY <2>1, <2>2
  <2>5. \A x, y \in Client : conn'[x] = "accepted" /\ conn'[y] = "accepted" => x = y
    <3>1. \A x \in Client : conn'[x] = "accepted" => conn[x] = "accepted"
      BY <2>1
    <3>2. QED
      BY <3>1
  <2>6. main' # "exited" => \A x \in Client : conn'[x] # "cut"
    BY <2>1, <2>2
  <2>7. QED
    BY <1>0, <2>2, <2>3, <2>4, <2>5, <2>6
<1>5. CASE ContextDone \/ ShutdownDrained \/ ShutdownGivesUp
  BY <1>0, <1>5 DEF ContextDone, ShutdownDrained, ShutdownGivesUp, WatcherEnds
<1>6. ASSUME NEW x \in Client, Moves(x)
      PROVE  IInv'
  <2>1. UNCHANGED <<main, watcher, listening, shutdown, missed>>
    BY <1>6 DEF Moves, Connect, Accept, Track, Arrive, Answer, CloseStale
  <2>2. CASE Connect(x) \/ Accept(x)
    <3>1. listening /\ watcher # "drained"
      BY <2>2 DEF Connect, Accept
    <3>2. conn' = [conn EXCEPT ![x] = "queued"]
            \/ (conn' = [conn EXCEPT ![x] = "accepted"] /\ \A y \in Client : conn[y] # "accepted")
      BY <2>2 DEF Connect, Accept, Accepting
    <3>3. QED
      BY <1>0, <2>1, <3>1, <3>2
  <2>3. CASE Track(x) \/ Arrive(x) \/ Answer(x) \/ CloseStale(x)
    <3>1. PICK s \in {"new", "active", "answered", "reset"} : conn' = [conn EXCEPT ![x] = s]
      BY <2>3 DEF Track, Arrive, Answer, CloseStale
    <3>2. conn[x] \in {"accepted", "new", "active"}
      BY <2>3 DEF Track, Arrive, Answer, CloseStale
    <3>3. QED
      BY <1>0, <2>1, <3>1, <3>2
  <2>4. QED
    BY <1>6, <2>2, <2>3 DEF Moves
<1>7. ASSUME NEW r \in Requests, BeginFetch(r) \/ EndFetch(r)
      PROVE  IInv'
  <2>1. UNCHANGED <<main, watcher, listening, shutdown, conn, missed>>
    BY <1>7 DEF BeginFetch, EndFetch
  <2>2. QED
    BY <1>0, <2>1
<1>8. ASSUME NEW k \in Commands, BeginCommand(k) \/ PostWebhook(k)
      PROVE  IInv'
  <2>1. UNCHANGED <<main, watcher, listening, shutdown, conn, missed>>
    BY <1>8 DEF BeginCommand, PostWebhook
  <2>2. QED
    BY <1>0, <2>1
<1>9. CASE UNCHANGED vars
  BY <1>0, <1>9 DEF vars
<1>10. QED
  BY <1>1, <1>2, <1>3, <1>4, <1>5, <1>6, <1>7, <1>8, <1>9 DEF Next, RealMain, Moves

LEMMA Inductive == Spec => []IInv
BY InitIInv, NextIInv, PTL DEF Spec

\* The type invariant of Lifecycle.
THEOREM TypeCorrect == Spec => []TypeOK
<1>1. IInv => TypeOK
  BY DEF IInv
<1>2. QED
  BY <1>1, Inductive, PTL

\* Once srv.Shutdown has returned nil, no HTTP request is cut off but that of the
\* connection which Serve had accepted and not tracked yet.
THEOREM DrainedCutsNothingTracked == Spec => []DrainedServerCutsNothingTracked
<1>1. IInv => DrainedServerCutsNothingTracked
  BY DEF IInv, ShutdownInv, DrainedServerCutsNothingTracked
<1>2. QED
  BY <1>1, Inductive, PTL

-----------------------------------------------------------------------------
(* Lifecycle implements Exchange.                                          *)

\* Of the abstract job only commands have one; a request that is not read yet, and
\* now never will be, is none.
AbstractJob == [x \in Client |-> IF x \in Commands THEN job[x] ELSE "none"]
AbstractConn == [x \in Client |-> IF conn[x] \in Unread \cup {"reset"} THEN "none" ELSE conn[x]]

\* The exit of the process is the crash, whatever caused it.
LEMMA ExitIsCrash ==
  ASSUME TypeOK, main # "exited", NEW how, Exit(how)
  PROVE  Exchanges!Crash
<1>1. job' = [k \in Commands |-> IF job[k] = "running" THEN "cut" ELSE job[k]] /\ main' = "exited"
  BY DEF Exit
<1>2. AbstractJob' = [x \in Client |-> IF AbstractJob[x] = "running" THEN "cut" ELSE AbstractJob[x]]
  BY <1>1 DEF AbstractJob, Client
<1>3. AbstractConn' = [x \in Client |-> IF AbstractConn[x] = "active" THEN "cut" ELSE AbstractConn[x]]
  <2>1. conn' = [x \in Client |-> IF conn[x] = "active" THEN "cut"
                                  ELSE IF conn[x] \in Unread THEN "reset" ELSE conn[x]]
    BY DEF Exit
  <2>2. QED
    BY <2>1 DEF AbstractConn, Unread
<1>4. QED
  BY <1>1, <1>2, <1>3 DEF Exchanges!Crash, Exchanges!CutOff, AbstractJob, AbstractConn

\* Steps that touch neither requests, commands nor the end of the process.
LEMMA QuietExchange ==
  ASSUME UNCHANGED <<AbstractConn, job>>, (main # "exited") <=> (main' # "exited")
  PROVE  UNCHANGED Exchanges!vars
<1>1. UNCHANGED AbstractJob
  BY DEF AbstractJob, Client
<1>2. QED
  BY <1>1 DEF Exchanges!vars, AbstractJob, AbstractConn

\* What happens to a connection before its request is read is not seen.
LEMMA UnreadIsQuiet ==
  ASSUME NEW x \in Client, NEW s \in Unread \cup {"reset"}, conn[x] \in Unread \cup {"none"},
         TypeOK, conn' = [conn EXCEPT ![x] = s]
  PROVE  UNCHANGED AbstractConn
BY DEF TypeOK, AbstractConn, Unread

LEMMA ExchangeStep == TypeOK /\ [Next]_vars => [Exchanges!Next]_(Exchanges!vars)
<1> SUFFICES ASSUME TypeOK, [Next]_vars PROVE Exchanges!Next \/ UNCHANGED Exchanges!vars
  OBVIOUS
<1>0. UNCHANGED conn => UNCHANGED AbstractConn
  BY DEF AbstractConn
<1>1. CASE ConfigFails \/ MainReturns
  BY <1>1, ExitIsCrash DEF ConfigFails, MainReturns, Exchanges!Next
<1>2. CASE Serve \/ ServeReturns \/ StopDrains \/ StopTimesOut \/ Listen
  BY <1>0, <1>2, QuietExchange
  DEF Serve, ServeReturns, StopDrains, StopTimesOut, Listen, httpVars, TypeOK
<1>3. CASE Signal
  <2>1. CASE main = "configuring" /\ Exit("killed")
    BY <2>1, ExitIsCrash DEF Exchanges!Next
  <2>2. CASE ~(main = "configuring" /\ Exit("killed"))
    BY <1>0, <1>3, <2>2, QuietExchange DEF Signal, httpVars
  <2>3. QED
    BY <2>1, <2>2
<1>4. CASE ContextDone \/ ShutdownDrained \/ ShutdownGivesUp
  BY <1>0, <1>4, QuietExchange
  DEF ContextDone, ShutdownDrained, ShutdownGivesUp, WatcherEnds
<1>5. CASE Shutdown \/ AcceptFails
  <2>1. ClosePort /\ UNCHANGED job /\ ((main # "exited") <=> (main' # "exited"))
    BY <1>5 DEF Shutdown, TakeSignal, AcceptFails
  <2>2. UNCHANGED AbstractConn
    BY <2>1 DEF ClosePort, AbstractConn, Unread
  <2>3. QED
    BY <2>1, <2>2, QuietExchange
<1>6. ASSUME NEW x \in Client, Moves(x)
      PROVE  Exchanges!Next \/ UNCHANGED Exchanges!vars
  <2>1. CASE Connect(x) \/ Accept(x) \/ Track(x) \/ CloseStale(x)
    <3>1. /\ conn[x] \in Unread \cup {"none"} /\ UNCHANGED <<main, job>>
          /\ \E s \in Unread \cup {"reset"} : conn' = [conn EXCEPT ![x] = s]
      BY <2>1 DEF Connect, Accept, Track, CloseStale, Unread
    <3>2. QED
      BY <3>1, UnreadIsQuiet, QuietExchange
  <2>2. CASE Arrive(x) \/ Answer(x)
    <3>1. UNCHANGED AbstractJob
      BY <2>2 DEF Arrive, Answer, AbstractJob, Client
    <3>2. PICK s \in {"active", "answered"} : conn' = [conn EXCEPT ![x] = s]
      BY <2>2 DEF Arrive, Answer
    <3>3. AbstractConn' = [AbstractConn EXCEPT ![x] = s]
      BY <3>2 DEF AbstractConn, TypeOK, Unread
    <3>4. Arrive(x) => s = "active" /\ AbstractConn[x] = "none"
      BY <3>2 DEF Arrive, AbstractConn, TypeOK, Unread
    <3>5. Answer(x) => s = "answered" /\ AbstractConn[x] = "active"
      BY <3>2 DEF Answer, AbstractConn, TypeOK, Unread
    <3>6. UNCHANGED main /\ Alive
      BY <2>2 DEF Arrive, Answer
    <3>7. Exchanges!Arrive(x) \/ Exchanges!Answer(x)
      BY <2>2, <3>1, <3>3, <3>4, <3>5, <3>6
      DEF Alive, Exchanges!Arrive, Exchanges!Answer, AbstractJob, AbstractConn
    <3>8. QED
      BY <3>7 DEF Exchanges!Next
  <2>3. QED
    BY <1>6, <2>1, <2>2 DEF Moves
<1>7. ASSUME NEW r \in Requests, BeginFetch(r) \/ EndFetch(r)
      PROVE  UNCHANGED Exchanges!vars
  BY <1>0, <1>7, QuietExchange DEF BeginFetch, EndFetch, httpVars
<1>8. ASSUME NEW k \in Commands, BeginCommand(k) \/ PostWebhook(k)
      PROVE  Exchanges!Next
  <2>0. k \in Client
    BY DEF Client
  <2>1. PICK s \in {"running", "posted"} : job' = [job EXCEPT ![k] = s]
    BY <1>8 DEF BeginCommand, PostWebhook
  <2>2. AbstractJob' = [AbstractJob EXCEPT ![k] = s] /\ UNCHANGED <<AbstractConn, main>>
    BY <1>0, <1>8, <2>0, <2>1 DEF AbstractJob, Client, TypeOK, BeginCommand, PostWebhook, httpVars
  <2>3. CASE BeginCommand(k)
    <3>1. AbstractJob' = [AbstractJob EXCEPT ![k] = "running"]
      BY <2>3, <2>1, <2>2 DEF BeginCommand, TypeOK
    <3>2. AbstractConn[k] = "active" /\ AbstractJob[k] = "none"
      BY <2>0, <2>3 DEF BeginCommand, AbstractConn, AbstractJob, Unread
    <3>3. Exchanges!Begin(k)
      BY <2>2, <2>3, <3>1, <3>2 DEF BeginCommand, Exchanges!Begin, AbstractJob, AbstractConn, Alive
    <3>4. QED
      BY <2>0, <3>3 DEF Exchanges!Next
  <2>4. CASE PostWebhook(k)
    <3>1. AbstractJob' = [AbstractJob EXCEPT ![k] = "posted"]
      BY <2>4, <2>1, <2>2 DEF PostWebhook, TypeOK
    <3>2. Exchanges!Post(k)
      BY <2>0, <2>2, <2>4, <3>1
      DEF PostWebhook, Exchanges!Post, AbstractJob, AbstractConn, Alive
    <3>3. QED
      BY <2>0, <3>2 DEF Exchanges!Next
  <2>5. QED
    BY <1>8, <2>3, <2>4
<1>9. CASE UNCHANGED vars
  BY <1>0, <1>9, QuietExchange DEF vars
<1>10. QED
  BY <1>1, <1>2, <1>3, <1>4, <1>5, <1>6, <1>7, <1>8, <1>9 DEF Next, RealMain, Moves

\* Every behaviour of the process, seen through its requests and commands, is one
\* of Exchange: only the exit cuts anything off, and it cuts off everything.
THEOREM ImplementsExchange == Spec => ExchangeSpec
<1>1. Init => Exchanges!Init
  BY DEF Init, Exchanges!Init, Client, Unread
<1>2. QED
  BY <1>1, ExchangeStep, TypeCorrect, PTL DEF Spec, ExchangeSpec, Exchanges!Spec
=============================================================================
