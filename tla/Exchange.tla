------------------------------ MODULE Exchange ------------------------------
(***************************************************************************)
(* Abstract: what any HTTP request to the server goes through, and the     *)
(* goroutine that a Slack command leaves behind.                           *)
(*                                                                         *)
(* A request is answered at most once, or cut off.  A command is begun at  *)
(* most once, while its request is being handled; then it lives on         *)
(* its own and posts once.  Only the death of the process cuts anything    *)
(* off, and it cuts off everything at the same moment.                     *)
(***************************************************************************)
CONSTANT Client

VARIABLES
  up,             \* the process runs
  conn,           \* conn[x]: how far the request of x is
  job             \* job[x]: how far the goroutine of its command is

vars == <<up, conn, job>>

Init ==
  /\ up = TRUE
  /\ conn = [x \in Client |-> "none"]
  /\ job = [x \in Client |-> "none"]

Arrive(x) ==
  /\ up /\ conn[x] = "none"
  /\ conn' = [conn EXCEPT ![x] = "active"]
  /\ UNCHANGED <<up, job>>

Answer(x) ==
  /\ up /\ conn[x] = "active"
  /\ conn' = [conn EXCEPT ![x] = "answered"]
  /\ UNCHANGED <<up, job>>

\* The handler starts the goroutine of a command.
Begin(x) ==
  /\ up /\ conn[x] = "active" /\ job[x] = "none"
  /\ job' = [job EXCEPT ![x] = "running"]
  /\ UNCHANGED <<up, conn>>

\* The goroutine posts to the webhook and ends.
Post(x) ==
  /\ up /\ job[x] = "running"
  /\ job' = [job EXCEPT ![x] = "posted"]
  /\ UNCHANGED <<up, conn>>

\* How a process that dies leaves what it was doing.
CutOff(f, doing) == [x \in Client |-> IF f[x] = doing THEN "cut" ELSE f[x]]

Crash ==
  /\ up /\ up' = FALSE
  /\ conn' = CutOff(conn, "active")
  /\ job' = CutOff(job, "running")

Next == Crash \/ \E x \in Client : Arrive(x) \/ Answer(x) \/ Begin(x) \/ Post(x)

Spec == Init /\ [][Next]_vars
=============================================================================
