----------------------------- MODULE HTTPServer -----------------------------
(***************************************************************************)
(* What happens to an HTTP request: the mux and CORS of server/server.go,  *)
(* the generated converter (api/api.http.go), the interceptors             *)
(* (server/interceptors.go), the statistics service and its validation,    *)
(* commandHandler.ServeHTTP and handle (slack/slack.go), in front of       *)
(* Annict or, in the development mode, its dummy.                          *)
(*                                                                         *)
(* Each client sends one request; a client may leave before its answer.    *)
(* An error of a query goes through ConvertError, the interceptors and the *)
(* status header.  A null that a caller does not survive panics: in a      *)
(* handler the interceptor recovers it, in any other goroutine it is the   *)
(* end of the process and of all requests.                                 *)
(***************************************************************************)
EXTENDS AnnictClient, Integers

CONSTANTS
  Client,
  Requests,       \* Requests[x]: the requests that client x may send
  Envs            \* the values of ENV

Path == {"/statistics/getdashboard", "/statistics/listworks", "/slack", "/"}

\* WorkState of api.pb.go; proto3 lets through numbers that name no state, as 3.
WORK_STATE_UNSPECIFIED == 0
WATCHING == 1
WATCHED == 2
WorkState == 0..3

\* The messages; a request without a body is read as the zero message.
GetDashboardRequest == [pageSize : Int, state : {WORK_STATE_UNSPECIFIED}]
ListWorksRequest == [pageSize : Int, state : WorkState]
ZeroMessage == [pageSize |-> 0, state |-> WORK_STATE_UNSPECIFIED]

\* type and accept: the headers; arg: the message in the body; text: that of a
\* Slack command; signature: "none" also if its time stamp is too old.
Request ==
  [path : Path, method : {"GET", "POST", "OPTIONS"},
   type : {"json", "protobuf", "form", "none"},
   accept : {"any", "json", "protobuf", "other"},
   body : {"complete", "malformed", "short"},
   arg : GetDashboardRequest \cup ListWorksRequest,
   text : {"start", "add", "add help", "add nonsense", "nonsense"},
   signature : {"good", "forged", "none"}]

ASSUME ServerAssumption ==
  /\ \A x \in Client : Requests[x] \subseteq Request
  /\ Envs \subseteq {"dev", "prod", "other"}

VARIABLES
  env,            \* cfg.Env
  req,            \* req[x]: the request of client x
  up,             \* the process runs
  conn,           \* conn[x]: how far the request is
  at,             \* at[x]: where its handler is
  gone,           \* gone[x]: the client has closed the connection
  calls,          \* calls[x]: the calls of Annict under way for x
  fail,           \* fail[x]: the first error or panic among them
  reply,          \* reply[x]: what the handler has written
  job             \* job[x]: the goroutine of a command, or what it has posted

inputs == <<env, req>>
vars == <<env, req, up, conn, at, gone, calls, fail, reply, job>>

Failure == {"none", "Canceled", "DeadlineExceeded", "InvalidArgument", "Internal",
            "uncoded", "panic"}
Posted == {"episodes", "usage", "lgtm", "empty"}

\* code: the header grpc-status; type: the header Content-Type.
Reply ==
  [type : {"none", "json", "protobuf", "text", "other"},
   body : {"none", "message", "text", "acknowledgement", "file"},
   status : {0, 200, 400, 404, 415, 500},
   code : {"none", "Canceled", "DeadlineExceeded", "Internal"}]

NoReply == [type |-> "none", body |-> "none", status |-> 0, code |-> "none"]

\* Every variable keeps to its values; the header grpc-status never says OK or
\* Unknown.
TypeOK ==
  /\ env \in Envs /\ (\A x \in Client : req[x] \in Requests[x]) /\ up \in BOOLEAN
  /\ conn \in [Client -> {"none", "active", "answered", "cut"}]
  /\ at \in [Client -> {"none", "received", "serving", "started", "done"}]
  /\ gone \in [Client -> BOOLEAN]
  /\ calls \in [Client -> SUBSET Calls]
  /\ fail \in [Client -> Failure]
  /\ reply \in [Client -> Reply]
  /\ job \in [Client -> {"none", "running", "cut"} \cup Posted]

Init ==
  /\ env \in Envs
  /\ req \in {f \in [Client -> UNION {Requests[x] : x \in Client}] :
                 \A x \in Client : f[x] \in Requests[x]}
  /\ up = TRUE
  /\ conn = [x \in Client |-> "none"] /\ at = [x \in Client |-> "none"]
  /\ gone = [x \in Client |-> FALSE]
  /\ calls = [x \in Client |-> {}] /\ fail = [x \in Client |-> "none"]
  /\ reply = [x \in Client |-> NoReply]
  /\ job = [x \in Client |-> "none"]

-----------------------------------------------------------------------------
(* Configuration and routes.                                               *)

IsDev == env = "dev"    \* the dummy Annict server
IsProd == env = "prod"  \* files, and no CORS

\* OPTIONS stands for a preflight request, which CORS keeps from the mux.
IsPreflight(r) == ~IsProd /\ r.method = "OPTIONS"
IsGetDashboard(r) == r.path = "/statistics/getdashboard" /\ ~IsPreflight(r)
IsListWorks(r) == r.path = "/statistics/listworks" /\ ~IsPreflight(r)
IsRPC(r) == IsGetDashboard(r) \/ IsListWorks(r)
IsSlack(r) == r.path = "/slack" /\ ~IsPreflight(r)

Receive(x) ==
  /\ up /\ conn[x] = "none"
  /\ conn' = [conn EXCEPT ![x] = "active"]
  /\ at' = [at EXCEPT ![x] = "received"]
  /\ UNCHANGED <<inputs, up, gone, calls, fail, reply, job>>

\* The client closes the connection; the context of its request is cancelled.
Leave(x) ==
  /\ up /\ conn[x] = "active"
  /\ gone' = [gone EXCEPT ![x] = TRUE]
  /\ UNCHANGED <<inputs, up, conn, at, calls, fail, reply, job>>

\* A handler returns; what it writes to a client that has left is lost.
Finish(x, r) ==
  /\ reply' = [reply EXCEPT ![x] = r]
  /\ conn' = [conn EXCEPT ![x] = "answered"]
  /\ at' = [at EXCEPT ![x] = "done"]
  /\ UNCHANGED <<inputs, up, gone, calls, fail, job>>

Handling(x, where) == up /\ conn[x] = "active" /\ at[x] = where

Status(code) == [type |-> "none", body |-> "none", status |-> code, code |-> "none"]

\* A preflight request, and what is not for the services: files in production.
ServeOther(x) ==
  /\ Handling(x, "received") /\ ~IsRPC(req[x]) /\ ~IsSlack(req[x])
  /\ \/ IsPreflight(req[x]) /\ Finish(x, Status(200))
     \/ /\ ~IsPreflight(req[x]) /\ IsProd
        /\ Finish(x, [type |-> "other", body |-> "file", status |-> 200, code |-> "none"])
     \/ ~IsPreflight(req[x]) /\ Finish(x, Status(404))

-----------------------------------------------------------------------------
(* Codes.                                                                  *)

\* convertErrorToCodeUnaryServerInterceptor: what its map lacks is Internal.
ConvertCode(f) ==
  IF f \in {"Canceled", "DeadlineExceeded", "Internal"} THEN f ELSE "Internal"

\* The interceptors around a service call that fails with f; the recovery
\* interceptor is outside of the conversion and says Internal of a panic.
Chained(f) == IF f = "panic" THEN "Internal" ELSE ConvertCode(f)

\* Mutants of AppendGRPCStatusToHeader: an error without a status is let pass, or
\* named as status.Code names it.
AppendNothingIfUnknown(code, type) ==
  [type |-> type, body |-> "none", status |-> 200,
   code |-> IF code = "Unknown" THEN "none" ELSE code]
AppendUnknown(code, type) == [type |-> type, body |-> "none", status |-> 200, code |-> code]

\* The callback on an error before anything is written: status 200, no body.
AppendGRPCStatusToHeader(code, type) ==
  [type |-> type, body |-> "none", status |-> 200,
   code |-> IF code = "Unknown" THEN "Internal" ELSE code]

\* http.StatusUnsupportedMediaType; the callback comes too late for a header.
Unsupported(type) == [type |-> type, body |-> "text", status |-> 415, code |-> "none"]

Message(type) == [type |-> type, body |-> "message", status |-> 200, code |-> "none"]

-----------------------------------------------------------------------------
(* The converter.                                                          *)

HasMessage(r) == r.type \in {"json", "protobuf"} /\ r.body = "complete"

\* A body that cannot be had, is of another type, or is not a message: the
\* service is not called.
RefuseBody(x) ==
  LET r == req[x] IN
  /\ Handling(x, "received") /\ r.method # "GET"
  /\ \/ r.body = "short" /\ Finish(x, AppendGRPCStatusToHeader("Unknown", "none"))
     \/ /\ r.body # "short" /\ r.type \notin {"json", "protobuf"}
        /\ Finish(x, Unsupported("text"))
     \/ /\ r.body = "malformed" /\ r.type \in {"json", "protobuf"}
        /\ Finish(x, AppendGRPCStatusToHeader("Unknown", "none"))

\* A GET has no message, whatever its body.
Arg(r) == IF r.method = "GET" THEN ZeroMessage ELSE r.arg

\* validateGetDashboardRequest and validateListWorksRequest.
ValidGetDashboard(arg) == arg.pageSize # 0
ValidListWorks(arg) == arg.state # WORK_STATE_UNSPECIFIED /\ arg.pageSize # 0

\* The service is called: it refuses the argument or makes its first calls.
Serve(x, valid, first) ==
  /\ Handling(x, "received")
  /\ req[x].method = "GET" \/ HasMessage(req[x])
  /\ at' = [at EXCEPT ![x] = "serving"]
  /\ calls' = [calls EXCEPT ![x] = IF valid THEN first ELSE {}]
  /\ fail' = [fail EXCEPT ![x] = IF valid THEN "none" ELSE "InvalidArgument"]
  /\ UNCHANGED <<inputs, up, conn, gone, reply, job>>

\* GetDashboard of the service: three goroutines.
ServeGetDashboard(x) ==
  Serve(x, ValidGetDashboard(Arg(req[x])), {GetProfile, ListWorks("WATCHING"), ListWorks("WATCHED")})

\* ListWorks of the service: a state that it does not know means any.
SectionOf(state) ==
  CASE state = WATCHING -> "WATCHING" [] state = WATCHED -> "WATCHED" [] OTHER -> "NO_STATE"

ServeListWorks(x) ==
  LET arg == Arg(req[x]) IN Serve(x, ValidListWorks(arg), {ListWorks(SectionOf(arg.state))})

Accept(r) ==
  IF r.accept # "any" THEN r.accept ELSE IF r.type # "none" THEN r.type ELSE "json"

\* Mutant of Encode: the answer is given at the first error.
EncodeEarly(x) ==
  LET type == Accept(req[x]) IN
  /\ Handling(x, "serving")
  /\ \/ /\ fail[x] # "none"
        /\ Finish(x, AppendGRPCStatusToHeader(Chained(fail[x]), "none"))
     \/ /\ fail[x] = "none" /\ calls[x] = {} /\ type \in {"json", "protobuf"}
        /\ Finish(x, Message(type))

\* The service has returned; images may give protobuf a string it cannot encode.
Encode(x) ==
  LET type == Accept(req[x]) IN
  /\ Handling(x, "serving")
  /\ calls[x] = {} \/ fail[x] = "panic"
  /\ \/ /\ fail[x] # "none"
        /\ Finish(x, AppendGRPCStatusToHeader(Chained(fail[x]), "none"))
     \/ /\ fail[x] = "none" /\ type \in {"json", "protobuf"}
        /\ Finish(x, Message(type))
     \/ /\ fail[x] = "none" /\ type = "protobuf"
        /\ Finish(x, AppendGRPCStatusToHeader("Unknown", type))
     \/ /\ fail[x] = "none" /\ type \notin {"json", "protobuf"}
        /\ Finish(x, Unsupported("other"))

\* The two handlers of the converter are alike but for the service they call.
GetDashboardHandler(x) ==
  IsGetDashboard(req[x]) /\ (RefuseBody(x) \/ ServeGetDashboard(x) \/ Encode(x))
ListWorksHandler(x) ==
  IsListWorks(req[x]) /\ (RefuseBody(x) \/ ServeListWorks(x) \/ Encode(x))

-----------------------------------------------------------------------------
(* Slack.                                                                  *)

\* The verifier sees what the parser reads: the body of a form only.
Verified(r) == r.signature = "good" /\ r.type = "form"

RefuseCommand(x) ==
  LET r == req[x]
      headers == r.method = "POST" /\ r.signature # "none"
      parsed == r.type # "form" \/ r.body = "complete"
  IN
  /\ Handling(x, "received")
  /\ \/ r.method # "POST" /\ Finish(x, Status(400))
     \/ r.method = "POST" /\ r.signature = "none" /\ Finish(x, Status(500))
     \/ headers /\ ~parsed /\ Finish(x, Status(500))
     \/ headers /\ parsed /\ ~Verified(r) /\ Finish(x, Status(400))

FirstCalls(text) ==
  CASE text = "start" -> {ListNextEpisodes} [] text = "add" -> {GetWork} [] OTHER -> {}

\* Mutant of Handle: the goroutine is started before the signature is checked.
HandleUnverified(x) ==
  LET r == req[x] IN
  /\ Handling(x, "received") /\ r.method = "POST" /\ r.signature # "none"
  /\ r.type = "form" /\ r.body = "complete"
  /\ job' = [job EXCEPT ![x] = "running"]
  /\ calls' = [calls EXCEPT ![x] = FirstCalls(r.text)]
  /\ at' = [at EXCEPT ![x] = IF Verified(r) THEN "started" ELSE "received"]
  /\ UNCHANGED <<inputs, up, conn, gone, fail, reply>>

\* handle: the goroutine of a verified command starts.
Handle(x) ==
  LET r == req[x] IN
  /\ Handling(x, "received")
  /\ r.method = "POST" /\ Verified(r) /\ r.body = "complete"
  /\ job' = [job EXCEPT ![x] = "running"]
  /\ calls' = [calls EXCEPT ![x] = FirstCalls(r.text)]
  /\ at' = [at EXCEPT ![x] = "started"]
  /\ UNCHANGED <<inputs, up, conn, gone, fail, reply>>

Acknowledge(x) ==
  /\ Handling(x, "started")
  /\ Finish(x, [type |-> "json", body |-> "acknowledgement", status |-> 200, code |-> "none"])

CommandHandler(x) == IsSlack(req[x]) /\ (RefuseCommand(x) \/ Handle(x) \/ Acknowledge(x))

\* What handle posts.
Answered(text, f) ==
  CASE text = "start" /\ f = "none" -> "episodes"
    [] text = "add" /\ f = "none" -> "lgtm"
    [] text = "add help" -> "usage"
    [] OTHER -> "empty"

\* Mutant of PostWebhook: an error ends the goroutine without a post.
PostWebhookOnSuccess(x) ==
  /\ up /\ job[x] = "running" /\ calls[x] = {} /\ fail[x] = "none"
  /\ job' = [job EXCEPT ![x] = Answered(req[x].text, "none")]
  /\ UNCHANGED <<inputs, up, conn, at, gone, calls, fail, reply>>

PostWebhook(x) ==
  /\ up /\ job[x] = "running" /\ calls[x] = {}
  /\ job' = [job EXCEPT ![x] = Answered(req[x].text, fail[x])]
  /\ UNCHANGED <<inputs, up, conn, at, gone, calls, fail, reply>>

-----------------------------------------------------------------------------
(* Annict, or its dummy.                                                   *)

CallAnswered(x, c) ==
  /\ up /\ c \in calls[x]
  /\ IsDev => DummyKnows(c.query)
  /\ \E next \in After(c) : calls' = [calls EXCEPT ![x] = (@ \ {c}) \cup next]
  /\ UNCHANGED <<inputs, up, conn, at, gone, fail, reply, job>>

\* A command's context is its own; that of an RPC ends when its client leaves.
Cancelled(x) == gone[x] /\ IsRPC(req[x])

\* The codes that call c may fail with.  The wait for an image returns the bare
\* error of the context.
Failures(x, c) ==
  (IF IsDev /\ DummyKnows(c.query) THEN {} ELSE {ConvertError("other")})
    \cup (IF Cancelled(x) THEN {ConvertError("context.Canceled"), ConvertError("other")} ELSE {})
    \cup (IF Cancelled(x) /\ c.query = "ListRecords" THEN {"uncoded"} ELSE {})

\* Goroutines of a group go on when one has failed; the first error counts.
CallFails(x, c) ==
  /\ up /\ c \in calls[x]
  /\ \E f \in Failures(x, c) : fail' = [fail EXCEPT ![x] = IF @ = "none" THEN f ELSE @]
  /\ calls' = [calls EXCEPT ![x] = @ \ {c}]
  /\ UNCHANGED <<inputs, up, conn, at, gone, reply, job>>

\* Only service.ListWorks called by the handler itself panics where it is
\* recovered; the goroutine for the records may have been started by then.
InHandler(x, c) == c.query = "ListWorks" /\ IsListWorks(req[x])

CallPanics(x, c) ==
  /\ up /\ c \in calls[x] /\ InHandler(x, c) /\ MayPanic(c.query) /\ ~IsDev
  /\ fail' = [fail EXCEPT ![x] = "panic"]
  /\ \E left \in AfterListWorks(c.section) : calls' = [calls EXCEPT ![x] = left]
  /\ UNCHANGED <<inputs, up, conn, at, gone, reply, job>>

CutOff(f, doing) == [x \in Client |-> IF f[x] = doing THEN "cut" ELSE f[x]]

\* Mutant of Crash: the panic takes the request down, but not the process.
CrashOfOneRequest(x, c) ==
  /\ up /\ c \in calls[x] /\ ~InHandler(x, c) /\ MayPanic(c.query) /\ ~IsDev
  /\ conn' = [conn EXCEPT ![x] = "cut"]
  /\ calls' = [calls EXCEPT ![x] = {}]
  /\ UNCHANGED <<inputs, up, at, gone, fail, reply, job>>

\* A panic in any other goroutine.
Crash(x, c) ==
  /\ up /\ c \in calls[x] /\ ~InHandler(x, c) /\ MayPanic(c.query) /\ ~IsDev
  /\ up' = FALSE
  /\ conn' = CutOff(conn, "active") /\ job' = CutOff(job, "running")
  /\ calls' = [y \in Client |-> {}]
  /\ UNCHANGED <<inputs, at, gone, fail, reply>>

-----------------------------------------------------------------------------

Handler(x) == ServeOther(x) \/ GetDashboardHandler(x) \/ ListWorksHandler(x) \/ CommandHandler(x)

CallEnds(x, c) == CallAnswered(x, c) \/ CallFails(x, c) \/ CallPanics(x, c) \/ Crash(x, c)

Next ==
  \E x \in Client :
    \/ Receive(x) \/ Leave(x) \/ Handler(x) \/ PostWebhook(x)
    \/ \E c \in Calls : CallEnds(x, c)

Spec == Init /\ [][Next]_vars

\* Goroutines that can run do run, and every call of Annict ends: see
\* Fairness of EpisodeRecorder.
Fairness ==
  \A x \in Client :
    /\ WF_vars(Handler(x)) /\ WF_vars(PostWebhook(x))
    /\ \A c \in Calls : WF_vars(CallEnds(x, c))

FairSpec == Spec /\ Fairness

-----------------------------------------------------------------------------

Exchanges == INSTANCE Exchange WITH
  job <- [x \in Client |-> IF job[x] \in Posted THEN "posted" ELSE job[x]]

\* Whatever is refused, cancelled, recovered or crashes, a request is answered
\* once or cut off, a command starts once and posts once, although its client
\* may be gone, and a crash cuts off every request and command at the same time.
ExchangeSpec == Exchanges!Spec

\* How the client of e2e/helper_test.go reads an answer: if there is no
\* grpc-status and the Content-Type is the one it asked for, the body is the
\* message; and then no query behind it has failed or is still under way.
AnswerTellsOutcome ==
  \A x \in Client : conn[x] = "answered" /\ IsRPC(req[x]) =>
    LET r == reply[x] IN
    /\ r.body = "message" <=> r.code = "none" /\ r.type \in {"json", "protobuf"}
    /\ r.body = "message" => /\ fail[x] = "none" /\ calls[x] = {}
                             /\ r.type = Accept(req[x])

\* A client that waits for its answer is never told Canceled or another code
\* than Internal, not even of an argument that it should correct: cancelled
\* contexts, refused arguments, bare errors and panics come out as one code.
StayingClientsSeeInternal ==
  \A x \in Client :
    conn[x] = "answered" /\ ~gone[x] => reply[x].code \in {"none", "Internal"}

\* A command runs only for a request that Slack has signed, and the client gets
\* status 200 exactly if it does; the order of the goroutine's end and of the
\* answer does not matter.
CommandsRunIffAcknowledged ==
  \A x \in Client :
    /\ job[x] # "none" => /\ IsSlack(req[x]) /\ req[x].method = "POST"
                          /\ Verified(req[x]) /\ req[x].body = "complete"
    /\ conn[x] = "answered" /\ IsSlack(req[x]) => (reply[x].status = 200 <=> job[x] # "none")

\* After the answer nothing goes on for a request but a command, or what a panic
\* in the handler has left: every errgroup is waited for, failed or not.
NothingLeftBehind ==
  \A x \in Client :
    conn[x] = "answered" /\ calls[x] # {} => fail[x] = "panic" \/ job[x] = "running"

\* What the messages of validation.go ask of a request, and the states that
\* proto/resource.proto names; the code lets more through.
InRange(r) ==
  /\ IsRPC(r) /\ r.arg.pageSize > 0
  /\ IsListWorks(r) => r.arg.state \in {WATCHING, WATCHED}

\* In the development mode the dummy never brings the server down, not even by a
\* command that asks for what it does not know, and a request in range for JSON
\* gets its message unless the client leaves.
DevModeServes ==
  IsDev =>
    /\ up
    /\ \A x \in Client :
         LET r == req[x] IN
         /\ conn[x] = "answered" /\ ~gone[x]
         /\ r.method = "POST" /\ HasMessage(r) /\ Accept(r) = "json" /\ InRange(r)
         => reply[x].body = "message"

\* Every request is answered or cut off, and every command posts or is cut off:
\* no refusal, panic or failed query leaves a handler waiting.
EveryExchangeEnds ==
  \A x \in Client :
    /\ conn[x] = "active" ~> conn[x] # "active"
    /\ job[x] = "running" ~> job[x] # "running"
=============================================================================
