----------------------------- MODULE WorkerPool -----------------------------
(***************************************************************************)
(* What ogImageFetcher promises to ListWorks and to Service.Stop: never    *)
(* more than maxWorkers fetches at a time, and, once stop has returned     *)
(* nil, no fetch is running and none begins.                               *)
(***************************************************************************)
EXTENDS Integers, FiniteSets

CONSTANTS
  Calls,          \* the calls of process
  MaxWorkers

VARIABLES
  running,        \* the calls whose worker goroutine runs
  stopped         \* stop has returned nil

poolVars == <<running, stopped>>

Init == running = {} /\ stopped = FALSE

Begin(c) ==
  /\ ~stopped
  /\ c \notin running /\ Cardinality(running) < MaxWorkers
  /\ running' = running \cup {c}
  /\ UNCHANGED stopped

End(c) ==
  /\ c \in running
  /\ running' = running \ {c}
  /\ UNCHANGED stopped

Drained ==
  /\ running = {}
  /\ stopped' = TRUE
  /\ UNCHANGED running

Next == Drained \/ \E c \in Calls : Begin(c) \/ End(c)

Spec == Init /\ [][Next]_poolVars
=============================================================================
