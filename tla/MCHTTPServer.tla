---------------------------- MODULE MCHTTPServer ----------------------------
(* A small instance of HTTPServer for TLC: one client sends a request of   *)
(* every kind, the other a listing or a command that it may cut off.       *)
EXTENDS HTTPServer

CONSTANTS c1, c2

Dashboard ==
  [path |-> "/statistics/getdashboard", method |-> "POST", type |-> "json", accept |-> "any",
   body |-> "complete", arg |-> [pageSize |-> 1, state |-> 0],
   text |-> "nonsense", signature |-> "none"]
Works == [Dashboard EXCEPT !.path = "/statistics/listworks", !.arg.state = WATCHING]
Command == [Dashboard EXCEPT !.path = "/slack", !.type = "form",
                             !.text = "start", !.signature = "good"]

RPCs ==
  {Dashboard, Works,
   [Dashboard EXCEPT !.arg.pageSize = 0], [Dashboard EXCEPT !.method = "GET"],
   [Dashboard EXCEPT !.accept = "other"], [Dashboard EXCEPT !.method = "OPTIONS", !.type = "none"],
   [Works EXCEPT !.type = "protobuf"], [Works EXCEPT !.arg = [pageSize |-> -1, state |-> 3]],
   [Works EXCEPT !.arg.state = WATCHED, !.accept = "protobuf"],
   [Works EXCEPT !.arg.state = WORK_STATE_UNSPECIFIED],
   [Works EXCEPT !.body = "short"], [Works EXCEPT !.body = "malformed"],
   [Works EXCEPT !.type = "none"], [Works EXCEPT !.path = "/"]}

SlashCommands ==
  {[Command EXCEPT !.text = t] : t \in {"start", "add", "add help", "nonsense"}}
    \cup {[Command EXCEPT !.signature = "forged"], [Command EXCEPT !.signature = "none"],
          [Command EXCEPT !.method = "GET"], [Command EXCEPT !.type = "json"],
          [Command EXCEPT !.body = "short"]}

MCRequests ==
  [x \in Client |-> IF x = c1 THEN RPCs \cup SlashCommands ELSE {Works, [Command EXCEPT !.text = "add"]}]
=============================================================================
