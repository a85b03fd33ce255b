------------------------------ MODULE AnnictAPI ------------------------------
(***************************************************************************)
(* The Annict account the server works for, as far as the queries and      *)
(* mutations of annict/query/*.graphql can see it.  Annict itself is not   *)
(* part of the repository: this module is what the client code relies on.  *)
(*                                                                         *)
(* A work has EpisodeCount[w] episodes, numbered from 1 along Annict's     *)
(* nextEpisode links; a record says that the account has watched an        *)
(* episode once, so the records form a bag.                                *)
(***************************************************************************)
EXTENDS Integers, FiniteSets

CONSTANTS
  Works,          \* the works that have an Annict ID
  MaxEpisodes,    \* no work of the instance has more episodes than this
  EpisodeCount,   \* EpisodeCount[w]: 0 for a film, which has no episodes
  SortNumber,     \* SortNumber[w][e]: Annict's sortNumber of an episode
  UserStatuses    \* the statuses the account's owner sets on annict.com

Episode == 1..MaxEpisodes

\* The values of StatusState that the code distinguishes: OTHER stands for
\* WANNA_WATCH, ON_HOLD, STOP_WATCHING and NO_STATE, on which no line branches.
Status == {"WATCHING", "WATCHED", "OTHER"}

ASSUME AnnictAssumption ==
  /\ MaxEpisodes \in Nat
  /\ EpisodeCount \in [Works -> 0..MaxEpisodes]
  /\ SortNumber \in [Works -> [Episode -> Int]]
  /\ UserStatuses \subseteq Status

VARIABLES
  records,        \* records[w][e]: how many records episode e of w has
  status          \* status[w]: viewerStatusState of the work

annictVars == <<records, status>>

AnnictTypeOK ==
  /\ records \in [Works -> [Episode -> Nat]]
  /\ status \in [Works -> Status]

-----------------------------------------------------------------------------

\* The records so far were made in order, from the first episode on.
AnnictInit ==
  \E watched \in [Works -> 0..MaxEpisodes] :
    /\ \A w \in Works : watched[w] <= EpisodeCount[w]
    /\ records = [w \in Works |-> [e \in Episode |->
                    IF e <= watched[w] THEN 1 ELSE 0]]
    /\ status \in [Works -> Status]

Watched(w, e) == records[w][e] > 0

\* Every episode of w, of which there is at least one, has been watched.
Finished(w) == EpisodeCount[w] > 0 /\ Watched(w, EpisodeCount[w])

\* Mutant of NextEpisodes: the nextEpisode of the nextEpisode, which the query
\* ListNextEpisodes also asks for.
NextEpisodesTwice(w) == {e \in 3..EpisodeCount[w] : Watched(w, e - 2)}

\* The nextEpisode of each of the episodes that ListNextEpisodes lists for w.
NextEpisodes(w) == {e \in 2..EpisodeCount[w] : Watched(w, e - 1)}

CreateRecord(w, e) ==
  /\ records' = [records EXCEPT ![w][e] = @ + 1]
  /\ UNCHANGED status

UpdateStatus(w, s) ==
  /\ status' = [status EXCEPT ![w] = s]
  /\ UNCHANGED records
=============================================================================
