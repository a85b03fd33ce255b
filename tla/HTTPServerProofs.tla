-------------------------- MODULE HTTPServerProofs --------------------------
(***************************************************************************)
(* What every client can rely on, for any clients and requests: handlers,  *)
(* commands and the process are those of Exchange, and a reply says        *)
(* what became of its request.                                             *)
(***************************************************************************)
EXTENDS HTTPServer, TLAPS

\* Where a handler is decides what its request and its command may have.
HandlerInv ==
  \A x \in Client :
    /\ conn[x] = "none" <=> at[x] = "none"
    /\ at[x] \in {"none", "received"} => calls[x] = {} /\ fail[x] = "none" /\ job[x] = "none"
    /\ at[x] = "serving" => job[x] = "none"
    /\ at[x] = "started" => job[x] # "none"
    /\ job[x] # "none" /\ calls[x] # {} => job[x] = "running"

\* A context is cancelled for clients that have left only.
CancelledInv ==
  \A x \in Client : ~gone[x] => fail[x] \notin {"Canceled", "DeadlineExceeded", "uncoded"}

IInv ==
  /\ TypeOK /\ HandlerInv /\ CancelledInv
  /\ AnswerTellsOutcome /\ StayingClientsSeeInternal
  /\ CommandsRunIffAcknowledged /\ NothingLeftBehind

\* What the invariant asks of the reply r that the handler of x returns with.
Fits(x, r) ==
  /\ conn[x] = "active" /\ at[x] # "none" /\ r \in Reply
  /\ IsRPC(req[x]) =>
       /\ r.body = "message" <=> r.code = "none" /\ r.type \in {"json", "protobuf"}
       /\ r.body = "message" => fail[x] = "none" /\ calls[x] = {} /\ r.type = Accept(req[x])
  /\ ~gone[x] => r.code \in {"none", "Internal"}
  /\ IsSlack(req[x]) => (r.status = 200 <=> job[x] # "none")
  /\ calls[x] # {} => fail[x] = "panic" \/ job[x] = "running"

LEMMA InitIInv == Init => IInv
<1> SUFFICES ASSUME Init PROVE IInv
  OBVIOUS
<1> USE DEF Init
<1>1. TypeOK
  BY DEF TypeOK, NoReply, Reply, Failure
<1>2. HandlerInv /\ CancelledInv
  BY DEF HandlerInv, CancelledInv
<1>3. AnswerTellsOutcome /\ StayingClientsSeeInternal
  BY DEF AnswerTellsOutcome, StayingClientsSeeInternal
<1>4. CommandsRunIffAcknowledged /\ NothingLeftBehind
  BY DEF CommandsRunIffAcknowledged, NothingLeftBehind
<1>5. QED
  BY <1>1, <1>2, <1>3, <1>4 DEF IInv

-----------------------------------------------------------------------------
(* Handlers that return.                                                   *)

\* The predicates on requests look at nothing but the request and the mode.
LEMMA SameRequests ==
  ASSUME UNCHANGED <<env, req>>, NEW x \in Client
  PROVE  /\ IsRPC(req[x])' <=> IsRPC(req[x])
         /\ IsSlack(req[x])' <=> IsSlack(req[x])
         /\ Verified(req[x])' <=> Verified(req[x])
         /\ Accept(req[x])' = Accept(req[x])
BY DEF IsRPC, IsSlack, IsGetDashboard, IsListWorks, IsPreflight, IsProd, Verified, Accept

LEMMA FinishKeepsIInv ==
  ASSUME IInv, NEW x \in Client, NEW r, Fits(x, r), Finish(x, r)
  PROVE  IInv'
<1> USE DEF Finish, Fits, IInv, inputs
<1>0. UNCHANGED <<env, req>> /\ conn \in [Client -> {"none", "active", "answered", "cut"}]
      /\ at \in [Client -> {"none", "received", "serving", "started", "done"}]
      /\ reply \in [Client -> Reply]
  BY DEF TypeOK
<1>a. /\ conn'[x] = "answered" /\ at'[x] = "done" /\ reply'[x] = r
      /\ \A y \in Client \ {x} : conn'[y] = conn[y] /\ at'[y] = at[y] /\ reply'[y] = reply[y]
  BY <1>0
<1>1. TypeOK'
  BY DEF TypeOK
<1>2. HandlerInv'
  BY <1>a DEF HandlerInv
<1>3. CancelledInv'
  BY DEF CancelledInv
<1>4. AnswerTellsOutcome'
  BY <1>0, <1>a, SameRequests DEF AnswerTellsOutcome
<1>5. StayingClientsSeeInternal'
  BY <1>a DEF StayingClientsSeeInternal
<1>6. CommandsRunIffAcknowledged'
  BY <1>0, <1>a, SameRequests DEF CommandsRunIffAcknowledged
<1>7. NothingLeftBehind'
  BY <1>a DEF NothingLeftBehind
<1>8. QED
  BY <1>1, <1>2, <1>3, <1>4, <1>5, <1>6, <1>7

\* A request goes to one handler.
LEMMA OneHandler ==
  ASSUME NEW x \in Client
  PROVE  ~(IsRPC(req[x]) /\ IsSlack(req[x]))
BY DEF IsRPC, IsSlack, IsGetDashboard, IsListWorks

LEMMA ServeOtherFits ==
  ASSUME IInv, NEW x \in Client, ServeOther(x)
  PROVE  \E r : Fits(x, r) /\ Finish(x, r)
<1>1. PICK r \in {Status(200), Status(404),
                  [type |-> "other", body |-> "file", status |-> 200, code |-> "none"]} : Finish(x, r)
  BY DEF ServeOther
<1>2. Fits(x, r)
  BY <1>1 DEF ServeOther, Fits, Handling, Status, Reply, IInv, HandlerInv
<1>3. QED
  BY <1>1, <1>2

LEMMA RefuseBodyFits ==
  ASSUME IInv, NEW x \in Client, IsRPC(req[x]), RefuseBody(x)
  PROVE  \E r : Fits(x, r) /\ Finish(x, r)
<1>1. PICK r \in {AppendGRPCStatusToHeader("Unknown", "none"), Unsupported("text")} : Finish(x, r)
  BY DEF RefuseBody
<1>2. Fits(x, r)
  BY <1>1, OneHandler
  DEF RefuseBody, Fits, Handling, AppendGRPCStatusToHeader, Unsupported, Reply, IInv, HandlerInv
<1>3. QED
  BY <1>1, <1>2

\* The codes that the interceptors and the header make of a failure.
LEMMA Codes ==
  ASSUME NEW f \in Failure \ {"none"}, NEW type
  PROVE  LET r == AppendGRPCStatusToHeader(Chained(f), type) IN
         /\ r.code \in {"Canceled", "DeadlineExceeded", "Internal"}
         /\ f \notin {"Canceled", "DeadlineExceeded"} => r.code = "Internal"
         /\ r.status = 200 /\ r.type = type /\ r.body = "none"
         /\ r = [type |-> type, body |-> "none", status |-> 200, code |-> r.code]
BY DEF AppendGRPCStatusToHeader, Chained, ConvertCode, Failure

LEMMA EncodeFits ==
  ASSUME IInv, NEW x \in Client, IsRPC(req[x]), Encode(x)
  PROVE  \E r : Fits(x, r) /\ Finish(x, r)
<1> DEFINE type == Accept(req[x])
           failed == AppendGRPCStatusToHeader(Chained(fail[x]), "none")
<1>0. /\ conn[x] = "active" /\ at[x] # "none" /\ ~IsSlack(req[x]) /\ fail[x] \in Failure
      /\ calls[x] # {} => fail[x] = "panic"
      /\ fail[x] = "none" => calls[x] = {}
  BY OneHandler DEF Encode, Handling, IInv, TypeOK
<1>1. CASE fail[x] # "none"
  <2>1. Finish(x, failed)
    BY <1>1 DEF Encode
  <2>2. failed \in Reply /\ failed.code # "none" /\ failed.body = "none"
    BY <1>0, <1>1, Codes DEF Reply
  <2>3. ~gone[x] => failed.code = "Internal"
    BY <1>0, <1>1, Codes DEF IInv, CancelledInv
  <2>4. Fits(x, failed)
    BY <1>0, <2>2, <2>3 DEF Fits
  <2>5. QED
    BY <2>1, <2>4
<1>2. CASE fail[x] = "none"
  <2>1. PICK r : /\ Finish(x, r)
                 /\ \/ r = Message(type) /\ type \in {"json", "protobuf"}
                    \/ r = AppendGRPCStatusToHeader("Unknown", type) /\ type = "protobuf"
                    \/ r = Unsupported("other")
    BY <1>2 DEF Encode
  <2>2. Fits(x, r)
    BY <1>0, <1>2, <2>1 DEF Fits, Message, AppendGRPCStatusToHeader, Unsupported, Reply
  <2>3. QED
    BY <2>1, <2>2
<1>3. QED
  BY <1>1, <1>2

LEMMA CommandFits ==
  ASSUME IInv, NEW x \in Client, IsSlack(req[x]), RefuseCommand(x) \/ Acknowledge(x)
  PROVE  \E r : Fits(x, r) /\ Finish(x, r)
<1>1. CASE RefuseCommand(x)
  <2>1. PICK r \in {Status(400), Status(500)} : Finish(x, r)
    BY <1>1 DEF RefuseCommand
  <2>2. Fits(x, r)
    BY <1>1, <2>1, OneHandler DEF RefuseCommand, Fits, Handling, Status, Reply, IInv, HandlerInv
  <2>3. QED
    BY <2>1, <2>2
<1>2. CASE Acknowledge(x)
  <2> DEFINE r == [type |-> "json", body |-> "acknowledgement", status |-> 200, code |-> "none"]
  <2>1. Finish(x, r)
    BY <1>2 DEF Acknowledge
  <2>2. Fits(x, r)
    BY <1>2, OneHandler DEF Acknowledge, Fits, Handling, Reply, IInv, HandlerInv
  <2>3. QED
    BY <2>1, <2>2
<1>3. QED
  BY <1>1, <1>2

-----------------------------------------------------------------------------
(* The other steps.                                                        *)

\* A step that changes the calls, the failure or the command of one client whose
\* handler is at work, or has left something behind.
LEMMA ArriveOrLeave ==
  ASSUME IInv, NEW x \in Client, Receive(x) \/ Leave(x)
  PROVE  IInv'
<1> USE DEF IInv, inputs
<1>0. UNCHANGED <<env, req>>
  BY DEF Receive, Leave
<1>1. CASE Receive(x)
  <2>1. TypeOK'
    BY <1>1 DEF Receive, TypeOK
  <2>2. HandlerInv' /\ CancelledInv'
    BY <1>1 DEF Receive, TypeOK, HandlerInv, CancelledInv
  <2>3. AnswerTellsOutcome'
    BY <1>0, <1>1, SameRequests DEF Receive, TypeOK, AnswerTellsOutcome
  <2>4. StayingClientsSeeInternal' /\ NothingLeftBehind'
    BY <1>1 DEF Receive, TypeOK, StayingClientsSeeInternal, NothingLeftBehind
  <2>5. CommandsRunIffAcknowledged'
    BY <1>0, <1>1, SameRequests DEF Receive, TypeOK, CommandsRunIffAcknowledged
  <2>6. QED
    BY <2>1, <2>2, <2>3, <2>4, <2>5
<1>2. CASE Leave(x)
  <2>1. TypeOK'
    BY <1>2 DEF Leave, TypeOK
  <2>2. HandlerInv' /\ CancelledInv'
    BY <1>2 DEF Leave, TypeOK, HandlerInv, CancelledInv
  <2>3. AnswerTellsOutcome'
    BY <1>0, <1>2, SameRequests DEF Leave, AnswerTellsOutcome
  <2>4. StayingClientsSeeInternal' /\ NothingLeftBehind'
    BY <1>2 DEF Leave, TypeOK, StayingClientsSeeInternal, NothingLeftBehind
  <2>5. CommandsRunIffAcknowledged'
    BY <1>0, <1>2, SameRequests DEF Leave, CommandsRunIffAcknowledged
  <2>6. QED
    BY <2>1, <2>2, <2>3, <2>4, <2>5
<1>3. QED
  BY <1>1, <1>2

\* The first calls are calls.
LEMMA FirstCallsAreCalls ==
  /\ {GetProfile, ListWorks("WATCHING"), ListWorks("WATCHED")} \subseteq Calls
  /\ \A state : ListWorks(SectionOf(state)) \in Calls
  /\ \A text : FirstCalls(text) \subseteq Calls
<1>1. \A state : SectionOf(state) \in Section
  BY DEF SectionOf, Section
<1>2. QED
  BY <1>1 DEF Calls, Section, FirstCalls

LEMMA AfterAreCalls ==
  ASSUME NEW c \in Calls, NEW next \in After(c)
  PROVE  next \subseteq Calls
<1>1. CASE c.query = "ListWorks"
  <2>1. c.section \in Section
    BY <1>1 DEF Calls, Call, GetProfile, ListNextEpisodes, GetWork, CreateRecord, UpdateStatus,
            UpdateWorkStatus, ListWorks, ListRecords
  <2>2. QED
    BY <1>1, <2>1 DEF After, AfterListWorks, Calls
<1>2. CASE c.query # "ListWorks"
  BY <1>2 DEF After, AfterListNextEpisodes, AfterGetWork, Calls
<1>3. QED
  BY <1>1, <1>2

LEMMA ServeKeepsIInv ==
  ASSUME IInv, NEW x \in Client, NEW valid \in BOOLEAN, NEW first \in SUBSET Calls,
         IsRPC(req[x]), Serve(x, valid, first)
  PROVE  IInv'
<1> USE DEF IInv, inputs
<1>0. UNCHANGED <<env, req>> /\ conn[x] = "active" /\ at[x] = "received"
  BY DEF Serve, Handling
<1>1. TypeOK'
  BY DEF Serve, TypeOK, Failure
<1>2. HandlerInv' /\ CancelledInv'
  BY <1>0 DEF Serve, TypeOK, HandlerInv, CancelledInv
<1>3. AnswerTellsOutcome'
  BY <1>0, SameRequests DEF Serve, TypeOK, AnswerTellsOutcome
<1>4. StayingClientsSeeInternal' /\ NothingLeftBehind'
  BY <1>0 DEF Serve, TypeOK, StayingClientsSeeInternal, NothingLeftBehind
<1>5. CommandsRunIffAcknowledged'
  BY <1>0, SameRequests DEF Serve, CommandsRunIffAcknowledged
<1>6. QED
  BY <1>1, <1>2, <1>3, <1>4, <1>5

LEMMA HandleKeepsIInv ==
  ASSUME IInv, NEW x \in Client, IsSlack(req[x]), Handle(x)
  PROVE  IInv'
<1> USE DEF IInv, inputs
<1>0. /\ UNCHANGED <<env, req>> /\ conn[x] = "active" /\ at[x] = "received"
      /\ req[x].method = "POST" /\ Verified(req[x]) /\ req[x].body = "complete"
  BY DEF Handle, Handling
<1>1. TypeOK'
  BY FirstCallsAreCalls DEF Handle, TypeOK
<1>2. HandlerInv' /\ CancelledInv'
  BY <1>0 DEF Handle, TypeOK, HandlerInv, CancelledInv
<1>3. AnswerTellsOutcome'
  BY <1>0, SameRequests DEF Handle, TypeOK, AnswerTellsOutcome
<1>4. StayingClientsSeeInternal' /\ NothingLeftBehind'
  BY <1>0 DEF Handle, TypeOK, StayingClientsSeeInternal, NothingLeftBehind
<1>5. CommandsRunIffAcknowledged'
  BY <1>0, SameRequests DEF Handle, TypeOK, CommandsRunIffAcknowledged
<1>6. QED
  BY <1>1, <1>2, <1>3, <1>4, <1>5

LEMMA PostKeepsIInv ==
  ASSUME IInv, NEW x \in Client, PostWebhook(x)
  PROVE  IInv'
<1> USE DEF IInv, inputs
<1>0. /\ UNCHANGED <<env, req>> /\ job[x] = "running" /\ calls[x] = {}
      /\ Answered(req[x].text, fail[x]) \in Posted
  BY DEF PostWebhook, Answered, Posted
<1>1. TypeOK'
  BY <1>0 DEF PostWebhook, TypeOK
<1>2. HandlerInv' /\ CancelledInv'
  BY <1>0 DEF PostWebhook, TypeOK, HandlerInv, CancelledInv, Posted
<1>3. AnswerTellsOutcome'
  BY <1>0, SameRequests DEF PostWebhook, AnswerTellsOutcome
<1>4. StayingClientsSeeInternal' /\ NothingLeftBehind'
  BY <1>0 DEF PostWebhook, TypeOK, StayingClientsSeeInternal, NothingLeftBehind
<1>5. CommandsRunIffAcknowledged'
  BY <1>0, SameRequests DEF PostWebhook, TypeOK, CommandsRunIffAcknowledged, Posted
<1>6. QED
  BY <1>1, <1>2, <1>3, <1>4, <1>5

\* The failures that a call may have.
LEMMA FailuresOfCalls ==
  ASSUME NEW x \in Client, NEW c, NEW f \in Failures(x, c)
  PROVE  f \in Failure \ {"none", "panic"} /\ (~gone[x] => f = "Internal")
BY DEF Failures, Failure, ConvertError, Cancelled

LEMMA CallKeepsIInv ==
  ASSUME IInv, NEW x \in Client, NEW c \in Calls,
         CallAnswered(x, c) \/ CallFails(x, c) \/ CallPanics(x, c)
  PROVE  IInv'
<1> USE DEF IInv, inputs
<1>0. /\ UNCHANGED <<env, req, up, conn, at, gone, reply, job>> /\ calls[x] # {}
  BY DEF CallAnswered, CallFails, CallPanics
<1>1. PICK next \in SUBSET Calls : calls' = [calls EXCEPT ![x] = next]
  <2>1. CASE CallAnswered(x, c)
    BY <2>1, AfterAreCalls DEF CallAnswered, TypeOK
  <2>2. CASE CallFails(x, c)
    BY <2>2 DEF CallFails, TypeOK
  <2>3. CASE CallPanics(x, c)
    <3>1. c.query = "ListWorks"
      BY <2>3 DEF CallPanics, InHandler
    <3>2. AfterListWorks(c.section) = After(c)
      BY <3>1 DEF After
    <3>3. QED
      BY <2>3, <3>2, AfterAreCalls DEF CallPanics
  <2>4. QED
    BY <2>1, <2>2, <2>3
<1>2. PICK f \in Failure :
        /\ fail' = [fail EXCEPT ![x] = f]
        /\ \/ f = fail[x]
           \/ fail[x] = "none" /\ f # "none" /\ (gone[x] \/ f = "Internal")
           \/ f = "panic"
  <2>1. CASE CallAnswered(x, c)
    <3>1. fail' = [fail EXCEPT ![x] = fail[x]] /\ fail[x] \in Failure
      BY <2>1 DEF CallAnswered, TypeOK
    <3>2. QED
      BY <3>1
  <2>2. CASE CallFails(x, c)
    <3>1. PICK g \in Failures(x, c) : fail' = [fail EXCEPT ![x] = IF fail[x] = "none" THEN g ELSE fail[x]]
      BY <2>2 DEF CallFails
    <3>2. g \in Failure \ {"none", "panic"} /\ (~gone[x] => g = "Internal")
      BY FailuresOfCalls
    <3>3. QED
      BY <3>1, <3>2 DEF TypeOK
  <2>3. CASE CallPanics(x, c)
    BY <2>3 DEF CallPanics, Failure
  <2>4. QED
    BY <2>1, <2>2, <2>3
<1>3. TypeOK'
  BY <1>0, <1>1, <1>2 DEF TypeOK
<1>4. HandlerInv' /\ CancelledInv'
  BY <1>0, <1>1, <1>2 DEF TypeOK, HandlerInv, CancelledInv
<1>5. AnswerTellsOutcome'
  BY <1>0, <1>1, <1>2, SameRequests DEF TypeOK, AnswerTellsOutcome
<1>6. StayingClientsSeeInternal' /\ NothingLeftBehind'
  BY <1>0, <1>1, <1>2 DEF TypeOK, StayingClientsSeeInternal, NothingLeftBehind
<1>7. CommandsRunIffAcknowledged'
  BY <1>0, SameRequests DEF CommandsRunIffAcknowledged
<1>8. QED
  BY <1>3, <1>4, <1>5, <1>6, <1>7

LEMMA CrashKeepsIInv ==
  ASSUME IInv, NEW x \in Client, NEW c \in Calls, Crash(x, c)
  PROVE  IInv'
<1> USE DEF IInv, inputs, Crash, CutOff
<1>0. UNCHANGED <<env, req>>
  OBVIOUS
<1>1. TypeOK'
  BY DEF TypeOK
<1>2. HandlerInv' /\ CancelledInv'
  BY DEF TypeOK, HandlerInv, CancelledInv
<1>3. AnswerTellsOutcome'
  BY <1>0, SameRequests DEF TypeOK, AnswerTellsOutcome
<1>4. StayingClientsSeeInternal' /\ NothingLeftBehind'
  BY DEF TypeOK, StayingClientsSeeInternal, NothingLeftBehind
<1>5. CommandsRunIffAcknowledged'
  BY <1>0, SameRequests DEF TypeOK, CommandsRunIffAcknowledged
<1>6. QED
  BY <1>1, <1>2, <1>3, <1>4, <1>5

\* A handler either goes on to its service or its goroutine, or returns.
LEMMA HandlerSteps ==
  ASSUME IInv, NEW x \in Client, Handler(x)
  PROVE  \/ \E r : Fits(x, r) /\ Finish(x, r)
         \/ IsRPC(req[x]) /\ (ServeGetDashboard(x) \/ ServeListWorks(x))
         \/ IsSlack(req[x]) /\ Handle(x)
BY ServeOtherFits, RefuseBodyFits, EncodeFits, CommandFits
DEF Handler, GetDashboardHandler, ListWorksHandler, CommandHandler, IsRPC

LEMMA NextKeepsIInv == IInv /\ [Next]_vars => IInv'
<1> SUFFICES ASSUME IInv, [Next]_vars PROVE IInv'
  OBVIOUS
<1>1. ASSUME NEW x \in Client, Receive(x) \/ Leave(x)
      PROVE  IInv'
  BY <1>1, ArriveOrLeave
<1>2. ASSUME NEW x \in Client, Handler(x)
      PROVE  IInv'
  <2>1. CASE \E r : Fits(x, r) /\ Finish(x, r)
    BY <2>1, FinishKeepsIInv
  <2>2. CASE IsRPC(req[x]) /\ ServeGetDashboard(x)
    BY <2>2, ServeKeepsIInv, FirstCallsAreCalls DEF ServeGetDashboard, ValidGetDashboard
  <2>3. CASE IsRPC(req[x]) /\ ServeListWorks(x)
    BY <2>3, ServeKeepsIInv, FirstCallsAreCalls DEF ServeListWorks, ValidListWorks
  <2>4. CASE IsSlack(req[x]) /\ Handle(x)
    BY <2>4, HandleKeepsIInv
  <2>5. QED
    BY <1>2, <2>1, <2>2, <2>3, <2>4, HandlerSteps
<1>3. ASSUME NEW x \in Client, PostWebhook(x)
      PROVE  IInv'
  BY <1>3, PostKeepsIInv
<1>4. ASSUME NEW x \in Client, NEW c \in Calls, CallEnds(x, c)
      PROVE  IInv'
  BY <1>4, CallKeepsIInv, CrashKeepsIInv DEF CallEnds
<1>5. CASE UNCHANGED vars
  <2>1. UNCHANGED <<env, req, up, conn, at, gone, calls, fail, reply, job>>
    BY <1>5 DEF vars
  <2>2. TypeOK' /\ HandlerInv' /\ CancelledInv'
    BY <2>1 DEF IInv, TypeOK, HandlerInv, CancelledInv
  <2>3. AnswerTellsOutcome' /\ CommandsRunIffAcknowledged'
    BY <2>1, SameRequests DEF IInv, AnswerTellsOutcome, CommandsRunIffAcknowledged
  <2>4. StayingClientsSeeInternal' /\ NothingLeftBehind'
    BY <2>1 DEF IInv, StayingClientsSeeInternal, NothingLeftBehind
  <2>5. QED
    BY <2>2, <2>3, <2>4 DEF IInv
<1>6. QED
  BY <1>1, <1>2, <1>3, <1>4, <1>5 DEF Next

LEMMA Inductive == Spec => []IInv
BY InitIInv, NextKeepsIInv, PTL DEF Spec

\* Every variable keeps to its values, for any clients, requests and modes.
THEOREM TypeCorrect == Spec => []TypeOK
<1>1. IInv => TypeOK
  BY DEF IInv
<1>2. QED
  BY <1>1, Inductive, PTL

\* A client that finds no grpc-status and its own type reads a whole answer: no
\* query behind it has failed or is still under way.
THEOREM AnswersAreTruthful == Spec => []AnswerTellsOutcome
<1>1. IInv => AnswerTellsOutcome
  BY DEF IInv
<1>2. QED
  BY <1>1, Inductive, PTL

\* Whoever waits for the answer is told no code but Internal.
THEOREM WaitingClientsSeeInternal == Spec => []StayingClientsSeeInternal
<1>1. IInv => StayingClientsSeeInternal
  BY DEF IInv
<1>2. QED
  BY <1>1, Inductive, PTL

\* A command runs for signed requests only, and status 200 says that it does.
THEOREM OnlySignedCommandsRun == Spec => []CommandsRunIffAcknowledged
<1>1. IInv => CommandsRunIffAcknowledged
  BY DEF IInv
<1>2. QED
  BY <1>1, Inductive, PTL

\* Errgroups are waited for: after an answer there are no queries but those of a
\* command, and those that a recovered panic has left.
THEOREM GroupsAreWaitedFor == Spec => []NothingLeftBehind
<1>1. IInv => NothingLeftBehind
  BY DEF IInv
<1>2. QED
  BY <1>1, Inductive, PTL

-----------------------------------------------------------------------------
(* HTTPServer implements Exchange.                                         *)

AbstractJob == [x \in Client |-> IF job[x] \in Posted THEN "posted" ELSE job[x]]

\* Steps within a handler or a command.
LEMMA QuietExchange ==
  ASSUME UNCHANGED <<up, conn, job>>
  PROVE  UNCHANGED Exchanges!vars
BY DEF Exchanges!vars

LEMMA FinishIsAnswer ==
  ASSUME NEW x \in Client, NEW r, up, conn[x] = "active", Finish(x, r)
  PROVE  Exchanges!Answer(x)
BY DEF Finish, Exchanges!Answer

\* A handler that returns answers; to start a command is to begin; to call the
\* service is not seen.
LEMMA HandlerExchange ==
  ASSUME IInv, NEW x \in Client, Handler(x)
  PROVE  Exchanges!Next \/ UNCHANGED Exchanges!vars
<1>1. up /\ conn[x] = "active"
  BY DEF Handler, GetDashboardHandler, ListWorksHandler, CommandHandler, ServeOther, RefuseBody,
         ServeGetDashboard, ServeListWorks, Serve, Encode, RefuseCommand, Handle, Acknowledge,
         Handling
<1>2. CASE \E r : Fits(x, r) /\ Finish(x, r)
  BY <1>1, <1>2, FinishIsAnswer DEF Exchanges!Next
<1>3. CASE ServeGetDashboard(x) \/ ServeListWorks(x)
  BY <1>3, QuietExchange DEF ServeGetDashboard, ServeListWorks, Serve
<1>4. CASE Handle(x)
  <2>1. job[x] = "none" /\ job' = [job EXCEPT ![x] = "running"] /\ UNCHANGED <<up, conn>>
    BY <1>4 DEF Handle, Handling, IInv, HandlerInv
  <2>2. AbstractJob' = [AbstractJob EXCEPT ![x] = "running"]
    BY <2>1 DEF AbstractJob, Posted, IInv, TypeOK
  <2>3. Exchanges!Begin(x)
    BY <1>1, <2>1, <2>2 DEF Exchanges!Begin, AbstractJob, Posted
  <2>4. QED
    BY <2>3 DEF Exchanges!Next
<1>5. QED
  BY <1>2, <1>3, <1>4, HandlerSteps

LEMMA PostExchange ==
  ASSUME IInv, NEW x \in Client, PostWebhook(x)
  PROVE  Exchanges!Next
<1>1. PICK p \in Posted : job' = [job EXCEPT ![x] = p]
  BY DEF PostWebhook, Answered, Posted
<1>2. up /\ job[x] = "running" /\ UNCHANGED <<up, conn>>
  BY DEF PostWebhook
<1>3. AbstractJob' = [AbstractJob EXCEPT ![x] = "posted"]
  BY <1>1 DEF AbstractJob, IInv, TypeOK
<1>4. Exchanges!Post(x)
  BY <1>2, <1>3 DEF Exchanges!Post, AbstractJob, Posted
<1>5. QED
  BY <1>4 DEF Exchanges!Next

\* One panic out of reach of the interceptors cuts off everything.
LEMMA CrashExchange ==
  ASSUME IInv, NEW x \in Client, NEW c \in Calls, Crash(x, c)
  PROVE  Exchanges!Next
<1>1. /\ up /\ ~up'
      /\ conn' = [y \in Client |-> IF conn[y] = "active" THEN "cut" ELSE conn[y]]
      /\ job' = [y \in Client |-> IF job[y] = "running" THEN "cut" ELSE job[y]]
  BY DEF Crash, CutOff
<1>2. AbstractJob' = [y \in Client |-> IF AbstractJob[y] = "running" THEN "cut" ELSE AbstractJob[y]]
  BY <1>1 DEF AbstractJob, Posted
<1>3. Exchanges!Crash
  BY <1>1, <1>2 DEF Exchanges!Crash, Exchanges!CutOff, AbstractJob
<1>4. QED
  BY <1>3 DEF Exchanges!Next

LEMMA ExchangeStep == IInv /\ [Next]_vars => [Exchanges!Next]_(Exchanges!vars)
<1> SUFFICES ASSUME IInv, [Next]_vars PROVE Exchanges!Next \/ UNCHANGED Exchanges!vars
  OBVIOUS
<1>1. ASSUME NEW x \in Client, Receive(x)
      PROVE  Exchanges!Next
  BY <1>1 DEF Receive, Exchanges!Next, Exchanges!Arrive
<1>2. ASSUME NEW x \in Client, Leave(x)
      PROVE  UNCHANGED Exchanges!vars
  BY <1>2, QuietExchange DEF Leave
<1>3. ASSUME NEW x \in Client, NEW c \in Calls, CallAnswered(x, c) \/ CallFails(x, c) \/ CallPanics(x, c)
      PROVE  UNCHANGED Exchanges!vars
  BY <1>3, QuietExchange DEF CallAnswered, CallFails, CallPanics
<1>4. CASE UNCHANGED vars
  BY <1>4, QuietExchange DEF vars
<1>5. QED
  BY <1>1, <1>2, <1>3, <1>4, HandlerExchange, PostExchange, CrashExchange DEF Next, CallEnds

\* Whatever is refused, cancelled, recovered or crashes, each request is answered
\* once or cut off, and each command begins once and posts once.
THEOREM ImplementsExchange == Spec => ExchangeSpec
<1>1. Init => Exchanges!Init
  BY DEF Init, Exchanges!Init, Posted
<1>2. QED
  BY <1>1, ExchangeStep, Inductive, PTL DEF Spec, ExchangeSpec, Exchanges!Spec

-----------------------------------------------------------------------------
(* The development mode.                                                   *)

\* Client x has sent a request that the statistics service is there for.
Accepted(x) == req[x].method = "POST" /\ HasMessage(req[x]) /\ InRange(req[x])

\* Such a request asks for nothing that fails.
DevClient(x) ==
  Accepted(x) /\ ~gone[x] =>
    /\ fail[x] = "none"
    /\ \A c \in calls[x] : c.query \in {"GetProfile", "ListWorks", "ListRecords"}
    /\ conn[x] = "answered" /\ Accept(req[x]) = "json" => reply[x].body = "message"

DevInv == IsDev => up /\ \A x \in Client : DevClient(x)

\* Whether a request is accepted, and the type of its answer, stay what they are.
LEMMA SameAccepted ==
  ASSUME UNCHANGED <<env, req>>, NEW x \in Client
  PROVE  (Accepted(x)' <=> Accepted(x)) /\ Accept(req[x])' = Accept(req[x])
BY DEF Accepted, HasMessage, InRange, IsRPC, IsGetDashboard, IsListWorks, IsPreflight, IsProd,
       Accept

\* A step that leaves what is the client's own leaves what is known of it.
LEMMA SameClient ==
  ASSUME UNCHANGED <<env, req>>, NEW x \in Client, DevClient(x),
         job'[x] = job[x], fail'[x] = fail[x], calls'[x] = calls[x], gone'[x] = gone[x],
         conn'[x] = conn[x], reply'[x] = reply[x]
  PROVE  DevClient(x)'
BY SameAccepted DEF DevClient

LEMMA InitDevInv == Init => DevInv
BY DEF Init, DevInv, DevClient

\* A handler answers an accepted request with its message.
LEMMA FinishKeepsDev ==
  ASSUME IInv, NEW x \in Client, DevClient(x), NEW r, Finish(x, r),
         Accepted(x) /\ ~gone[x] /\ Accept(req[x]) = "json" => r.body = "message"
  PROVE  \A y \in Client : DevClient(y) => DevClient(y)'
<1>0. /\ conn \in [Client -> {"none", "active", "answered", "cut"}] /\ reply \in [Client -> Reply]
      /\ UNCHANGED <<env, req, gone, calls, fail, job>>
      /\ conn' = [conn EXCEPT ![x] = "answered"] /\ reply' = [reply EXCEPT ![x] = r]
  BY DEF IInv, TypeOK, Finish, inputs
<1>1. \A y \in Client : y # x /\ DevClient(y) => DevClient(y)'
  BY <1>0, SameClient
<1>2. DevClient(x)'
  <2>1. (Accepted(x)' <=> Accepted(x)) /\ Accept(req[x])' = Accept(req[x])
    BY <1>0, SameAccepted
  <2>2. QED
    BY <1>0, <2>1 DEF DevClient
<1>3. QED
  BY <1>1, <1>2

\* A service makes calls that the dummy knows.
LEMMA ServeKeepsDev ==
  ASSUME IInv, NEW x \in Client, DevClient(x), NEW valid \in BOOLEAN, NEW first,
         Serve(x, valid, first), Accepted(x) => valid,
         \A c \in first : c.query \in {"GetProfile", "ListWorks", "ListRecords"}
  PROVE  \A y \in Client : DevClient(y) => DevClient(y)'
<1>0. /\ calls \in [Client -> SUBSET Calls] /\ fail \in [Client -> Failure]
      /\ UNCHANGED <<env, req, gone, conn, reply, job>>
      /\ calls' = [calls EXCEPT ![x] = IF valid THEN first ELSE {}]
      /\ fail' = [fail EXCEPT ![x] = IF valid THEN "none" ELSE "InvalidArgument"]
      /\ conn[x] = "active" /\ job[x] = "none"
  BY DEF IInv, TypeOK, HandlerInv, Serve, Handling, inputs
<1>1. \A y \in Client : y # x /\ DevClient(y) => DevClient(y)'
  BY <1>0, SameClient
<1>2. DevClient(x)'
  <2>1. (Accepted(x)' <=> Accepted(x)) /\ Accept(req[x])' = Accept(req[x])
    BY <1>0, SameAccepted
  <2>2. QED
    BY <1>0, <2>1 DEF DevClient
<1>3. QED
  BY <1>1, <1>2

\* What a handler does for a client, the dummy keeps up.
LEMMA HandlerKeepsDev ==
  ASSUME IInv, NEW x \in Client, DevClient(x), Handler(x)
  PROVE  \A y \in Client : DevClient(y) => DevClient(y)'
<1> DEFINE type == Accept(req[x])
<1>1. CASE ServeOther(x)
  <2>1. ~Accepted(x)
    BY <1>1 DEF ServeOther, Accepted, InRange
  <2>2. \E r : Finish(x, r)
    BY <1>1, ServeOtherFits
  <2>3. QED
    BY <2>1, <2>2, FinishKeepsDev
<1>2. CASE IsRPC(req[x]) /\ RefuseBody(x)
  <2>1. ~Accepted(x)
    BY <1>2 DEF RefuseBody, Accepted, HasMessage
  <2>2. \E r : Finish(x, r)
    BY <1>2, RefuseBodyFits
  <2>3. QED
    BY <2>1, <2>2, FinishKeepsDev
<1>3. CASE IsGetDashboard(req[x]) /\ ServeGetDashboard(x)
  <2> DEFINE valid == ValidGetDashboard(Arg(req[x]))
             first == {GetProfile, ListWorks("WATCHING"), ListWorks("WATCHED")}
  <2>1. Serve(x, valid, first) /\ valid \in BOOLEAN
    BY <1>3 DEF ServeGetDashboard, ValidGetDashboard
  <2>2. Accepted(x) => valid
    BY <1>3 DEF Accepted, InRange, ValidGetDashboard, Arg
  <2>3. \A c \in first : c.query \in {"GetProfile", "ListWorks", "ListRecords"}
    BY DEF GetProfile, ListWorks, Call
  <2> HIDE DEF valid, first
  <2>4. QED
    BY <2>1, <2>2, <2>3, ServeKeepsDev
<1>4. CASE IsListWorks(req[x]) /\ ServeListWorks(x)
  <2> DEFINE valid == ValidListWorks(Arg(req[x]))
             first == {ListWorks(SectionOf(Arg(req[x]).state))}
  <2>1. Serve(x, valid, first) /\ valid \in BOOLEAN
    BY <1>4 DEF ServeListWorks, ValidListWorks
  <2>2. Accepted(x) => valid
    BY <1>4 DEF Accepted, InRange, ValidListWorks, Arg, WATCHING, WATCHED, WORK_STATE_UNSPECIFIED
  <2>3. \A c \in first : c.query \in {"GetProfile", "ListWorks", "ListRecords"}
    BY DEF ListWorks, Call
  <2> HIDE DEF valid, first
  <2>4. QED
    BY <2>1, <2>2, <2>3, ServeKeepsDev
<1>5. CASE Encode(x)
  <2>1. CASE fail[x] # "none"
    <3>1. ~(Accepted(x) /\ ~gone[x])
      BY <2>1 DEF DevClient
    <3>2. \E r : Finish(x, r)
      BY <1>5, <2>1 DEF Encode
    <3>3. QED
      BY <3>1, <3>2, FinishKeepsDev
  <2>2. CASE fail[x] = "none"
    <3>1. PICK r : Finish(x, r) /\ (type = "json" => r = Message(type))
      BY <1>5, <2>2 DEF Encode
    <3>2. type = "json" => r.body = "message"
      BY <3>1 DEF Message
    <3>3. QED
      BY <3>1, <3>2, FinishKeepsDev
  <2>3. QED
    BY <2>1, <2>2
<1>6. CASE IsSlack(req[x]) /\ (RefuseCommand(x) \/ Acknowledge(x))
  <2>1. ~Accepted(x)
    BY <1>6 DEF Accepted, InRange, IsRPC, IsSlack, IsGetDashboard, IsListWorks
  <2>2. \E r : Finish(x, r)
    BY <1>6, CommandFits
  <2>3. QED
    BY <2>1, <2>2, FinishKeepsDev
<1>7. CASE IsSlack(req[x]) /\ Handle(x)
  <2>0. /\ calls \in [Client -> SUBSET Calls] /\ job \in [Client -> {"none", "running", "cut"} \cup Posted]
        /\ UNCHANGED <<env, req, gone, conn, reply, fail>>
        /\ job' = [job EXCEPT ![x] = "running"]
        /\ calls' = [calls EXCEPT ![x] = FirstCalls(req[x].text)]
    BY <1>7 DEF IInv, TypeOK, Handle, inputs
  <2>1. \A y \in Client : y # x /\ DevClient(y) => DevClient(y)'
    BY <2>0, SameClient
  <2>2. ~Accepted(x)'
    BY <1>7, <2>0 DEF Accepted, InRange, IsRPC, IsSlack, IsGetDashboard, IsListWorks
  <2>3. DevClient(x)'
    BY <2>2 DEF DevClient
  <2>4. QED
    BY <2>1, <2>3
<1>8. QED
  BY <1>1, <1>2, <1>3, <1>4, <1>5, <1>6, <1>7
  DEF Handler, GetDashboardHandler, ListWorksHandler, CommandHandler, IsRPC

\* Calls that the dummy answers do not fail, and the others fail.
LEMMA CallKeepsDev ==
  ASSUME IInv, IsDev, NEW x \in Client, DevClient(x), NEW c \in Calls,
         CallAnswered(x, c) \/ CallFails(x, c)
  PROVE  \A y \in Client : DevClient(y) => DevClient(y)'
<1>0. /\ UNCHANGED <<env, req, up, conn, gone, reply, job>> /\ c \in calls[x]
      /\ calls \in [Client -> SUBSET Calls] /\ fail \in [Client -> Failure]
      /\ \A y \in Client \ {x} : calls'[y] = calls[y] /\ fail'[y] = fail[y]
  BY DEF IInv, TypeOK, CallAnswered, CallFails, inputs
<1>1. \A y \in Client : y # x /\ DevClient(y) => DevClient(y)'
  BY <1>0, SameClient
<1>2. (Accepted(x)' <=> Accepted(x)) /\ Accept(req[x])' = Accept(req[x])
  BY <1>0, SameAccepted
<1>3. CASE CallAnswered(x, c)
  <2>1. PICK next \in After(c) : calls' = [calls EXCEPT ![x] = (@ \ {c}) \cup next]
    BY <1>3 DEF CallAnswered
  <2>2. UNCHANGED fail /\ calls'[x] = (calls[x] \ {c}) \cup next
    BY <1>0, <1>3, <2>1 DEF CallAnswered
  <2>3. c.query \in {"GetProfile", "ListWorks", "ListRecords"} =>
          \A d \in next : d.query \in {"GetProfile", "ListWorks", "ListRecords"}
    BY DEF After, AfterListWorks, ListRecords, Call
  <2>4. DevClient(x)'
    BY <1>0, <1>2, <2>2, <2>3 DEF DevClient
  <2>5. QED
    BY <1>1, <2>4
<1>4. CASE CallFails(x, c)
  <2>1. \E f \in Failures(x, c) : TRUE
    BY <1>4 DEF CallFails
  <2>2. ~(Accepted(x) /\ ~gone[x])
    <3>1. SUFFICES ASSUME Accepted(x), ~gone[x] PROVE FALSE
      OBVIOUS
    <3>2. c.query \in {"GetProfile", "ListWorks", "ListRecords"}
      BY <1>0, <3>1 DEF DevClient
    <3>3. Failures(x, c) = {}
      BY <3>1, <3>2 DEF Failures, DummyKnows, Cancelled
    <3>4. QED
      BY <2>1, <3>3
  <2>3. DevClient(x)'
    BY <1>0, <1>2, <2>2 DEF DevClient
  <2>4. QED
    BY <1>1, <2>3
<1>5. QED
  BY <1>3, <1>4

\* A handler changes neither the mode nor the requests, and does not end the process.
LEMMA HandlerStays ==
  ASSUME NEW x \in Client, Handler(x)
  PROVE  UNCHANGED <<env, req, up>>
<1>1. CASE \E r : Finish(x, r)
  BY <1>1 DEF Finish, inputs
<1>2. CASE ServeGetDashboard(x) \/ ServeListWorks(x) \/ Handle(x)
  BY <1>2 DEF ServeGetDashboard, ServeListWorks, Serve, Handle, inputs
<1>3. ServeOther(x) \/ RefuseBody(x) \/ Encode(x) => \E r : Finish(x, r)
  BY DEF ServeOther, RefuseBody, Encode
<1>4. RefuseCommand(x) \/ Acknowledge(x) => \E r : Finish(x, r)
  BY DEF RefuseCommand, Acknowledge
<1>5. QED
  BY <1>1, <1>2, <1>3, <1>4 DEF Handler, GetDashboardHandler, ListWorksHandler, CommandHandler

\* No step changes the mode or the requests.
LEMMA InputsStay ==
  ASSUME [Next]_vars
  PROVE  UNCHANGED <<env, req>>
<1>1. ASSUME NEW x \in Client, Handler(x)
      PROVE  UNCHANGED <<env, req>>
  BY <1>1, HandlerStays
<1>2. ASSUME NEW x \in Client, Receive(x) \/ Leave(x) \/ PostWebhook(x)
      PROVE  UNCHANGED <<env, req>>
  BY <1>2 DEF Receive, Leave, PostWebhook, inputs
<1>3. ASSUME NEW x \in Client, NEW c \in Calls, CallEnds(x, c)
      PROVE  UNCHANGED <<env, req>>
  BY <1>3 DEF CallEnds, CallAnswered, CallFails, CallPanics, Crash, inputs
<1>4. CASE UNCHANGED vars
  BY <1>4 DEF vars
<1>5. QED
  BY <1>1, <1>2, <1>3, <1>4 DEF Next

LEMMA NextKeepsDevInv == IInv /\ DevInv /\ [Next]_vars => DevInv'
<1> SUFFICES ASSUME IInv, DevInv, [Next]_vars, IsDev' PROVE DevInv'
  BY DEF DevInv
<1>0. UNCHANGED <<env, req>> /\ IsDev /\ up /\ \A x \in Client : DevClient(x)
  <2>1. UNCHANGED <<env, req>>
    BY InputsStay
  <2>2. QED
    BY <2>1 DEF IsDev, DevInv
<1>1. ASSUME NEW x \in Client, Receive(x) \/ Leave(x)
      PROVE  up' /\ \A y \in Client : DevClient(y)'
  <2>1. /\ UNCHANGED <<env, req, up, calls, fail, reply, job>>
        /\ conn \in [Client -> {"none", "active", "answered", "cut"}] /\ gone \in [Client -> BOOLEAN]
        /\ \A y \in Client : (conn'[y] = "answered" => conn[y] = "answered") /\ (gone[y] => gone'[y])
    BY <1>1 DEF IInv, TypeOK, Receive, Leave, inputs
  <2>2. ASSUME NEW y \in Client
        PROVE  DevClient(y)'
    <3>1. (Accepted(y)' <=> Accepted(y)) /\ Accept(req[y])' = Accept(req[y])
      BY <2>1, SameAccepted
    <3>2. DevClient(y)
      BY <1>0
    <3>3. QED
      BY <2>1, <3>1, <3>2 DEF DevClient
  <2>3. QED
    BY <1>0, <2>1, <2>2
<1>2. ASSUME NEW x \in Client, Handler(x)
      PROVE  up' /\ \A y \in Client : DevClient(y)'
  <2>1. up' = up
    BY <1>2, HandlerStays
  <2>2. QED
    BY <1>0, <1>2, <2>1, HandlerKeepsDev
<1>3. ASSUME NEW x \in Client, PostWebhook(x)
      PROVE  up' /\ \A y \in Client : DevClient(y)'
  <2>1. /\ UNCHANGED <<env, req, up, conn, gone, calls, fail, reply>>
        /\ job \in [Client -> {"none", "running", "cut"} \cup Posted]
        /\ job' = [job EXCEPT ![x] = Answered(req[x].text, fail[x])]
        /\ job[x] = "running" /\ calls[x] = {}
    BY <1>3 DEF IInv, TypeOK, PostWebhook, inputs
  <2>2. (Accepted(x)' <=> Accepted(x)) /\ Accept(req[x])' = Accept(req[x])
    BY <2>1, SameAccepted
  <2>3. DevClient(x)'
    BY <1>0, <2>1, <2>2 DEF DevClient
  <2>4. \A y \in Client : y # x => DevClient(y)'
    BY <1>0, <2>1, SameClient
  <2>5. QED
    BY <1>0, <2>1, <2>3, <2>4
<1>4. ASSUME NEW x \in Client, NEW c \in Calls, CallEnds(x, c)
      PROVE  up' /\ \A y \in Client : DevClient(y)'
  <2>1. CallAnswered(x, c) \/ CallFails(x, c)
    BY <1>0, <1>4 DEF CallEnds, CallPanics, Crash
  <2>2. up' = up
    BY <2>1 DEF CallAnswered, CallFails
  <2>3. QED
    BY <1>0, <2>1, <2>2, CallKeepsDev
<1>5. CASE UNCHANGED vars
  <2>1. UNCHANGED <<env, req, up, conn, gone, calls, fail, reply, job>>
    BY <1>5 DEF vars
  <2>2. QED
    BY <1>0, <2>1, SameClient DEF DevInv
<1>6. QED
  BY <1>1, <1>2, <1>3, <1>4, <1>5 DEF Next, DevInv

\* With the dummy in the place of Annict the server stays up, and a request in range
\* for JSON gets its message unless the client leaves.
THEOREM DummyServes == Spec => []DevModeServes
<1>1. IInv /\ DevInv => DevModeServes
  BY DEF DevInv, DevClient, DevModeServes, Accepted
<1>2. QED
  BY <1>1, Inductive, InitDevInv, NextKeepsDevInv, PTL DEF Spec
=============================================================================
