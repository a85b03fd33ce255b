------------------------------- MODULE Account -------------------------------
(***************************************************************************)
(* What anybody who reads the Annict account may count on, whatever Slack  *)
(* commands run, overlap, fail or are cut off: its works are watched one   *)
(* episode after the other, nothing watched is forgotten, and the server   *)
(* finishes a work only when its last episode has been watched, whatever   *)
(* the owner marks by hand.                                                *)
(*                                                                         *)
(* EpisodeRecorder implements it; the commands of Dashboard are its steps. *)
(***************************************************************************)
EXTENDS Integers

CONSTANTS
  Works,
  EpisodeCount,   \* EpisodeCount[w]: 0 for a film
  Handled         \* the works that the owner may mark WATCHED

VARIABLES
  seen,           \* the pairs <<w, e>> of which Annict has a record
  status          \* Annict's viewerStatusState

vars == <<seen, status>>

Follows(w, e) == e = 1 \/ <<w, e - 1>> \in seen

Init ==
  /\ \A p \in seen : p[1] \in Works /\ p[2] \in 1..EpisodeCount[p[1]] /\ Follows(p[1], p[2])
  /\ status \in [Works -> {"WATCHING", "WATCHED", "OTHER"}]

\* Annict creates a record, be it the first of its episode or another one.
See(w, e) ==
  /\ e \in 1..EpisodeCount[w] /\ Follows(w, e)
  /\ seen' = seen \cup {<<w, e>>}
  /\ UNCHANGED status

\* Annict carries out the update_status of a start.
Finish(w) ==
  /\ <<w, EpisodeCount[w]>> \in seen
  /\ status' = [status EXCEPT ![w] = "WATCHED"]
  /\ UNCHANGED seen

\* The update_work_status of an add, or the owner on annict.com.
TakeUp(w) == status' = [status EXCEPT ![w] = "WATCHING"] /\ UNCHANGED seen
PutAside(w) == status' = [status EXCEPT ![w] = "OTHER"] /\ UNCHANGED seen

\* The owner needs no record to mark a work WATCHED.
MarkByHand(w) ==
  w \in Handled /\ status' = [status EXCEPT ![w] = "WATCHED"] /\ UNCHANGED seen

Next ==
  \E w \in Works :
    \/ \E e \in 1..EpisodeCount[w] : See(w, e)
    \/ Finish(w) \/ TakeUp(w) \/ PutAside(w) \/ MarkByHand(w)

Spec == Init /\ [][Next]_vars
=============================================================================
