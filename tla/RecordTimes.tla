---------------------------- MODULE RecordTimes ----------------------------
(***************************************************************************)
(* What listRecords makes of the account's records: a begin and a finish   *)
(* time per title.                                                         *)
(*                                                                         *)
(* log is the sequence of all records in the order of their creation; the  *)
(* position of a record in it stands for its createdAt.                    *)
(***************************************************************************)
EXTENDS Integers, Sequences, Functions

CONSTANTS
  Works,
  EpisodeCount,   \* EpisodeCount[w]: the episode whose nextEpisode is null
  SortNumber,     \* SortNumber[w][e]
  Title           \* Title[w]: the records are told apart by it, not by the ID

Episodes(w) == 1..EpisodeCount[w]

ASSUME TimesAssumption ==
  /\ EpisodeCount \in [Works -> Nat]
  /\ \A w \in Works : SortNumber[w] \in [Episodes(w) -> Int]
  /\ DOMAIN Title = Works

Record == UNION {[work : {w}, episode : Episodes(w)] : w \in Works}

NoTime == 0
NoTimes == [begin |-> NoTime, finish |-> NoTime]

Key(r) == SortNumber[r.work][r.episode]

\* Mutant of Orders: the records are left as Annict lists them.
Unsorted(log) == Bijection(DOMAIN log, DOMAIN log)

\* The orders in which the loop may meet the records: by the sort numbers of
\* the episodes of all works together.  The query asks for no order, and
\* sort.Slice keeps none among equal numbers.
Orders(log) ==
  {o \in Bijection(DOMAIN log, DOMAIN log) :
     \A i, j \in DOMAIN log : i < j => Key(log[o[i]]) <= Key(log[o[j]])}

\* Mutant of Meet: a record of a last episode begins what it finishes.
MeetForgetful(m, r, time) ==
  LET t == Title[r.work] IN
  IF r.episode = EpisodeCount[r.work] THEN [m EXCEPT ![t] = [begin |-> time, finish |-> time]]
  ELSE IF m[t] = NoTimes THEN [m EXCEPT ![t].begin = time]
  ELSE m

\* One turn of the loop over the records.
Meet(m, r, time) ==
  LET t == Title[r.work] IN
  IF m[t] = NoTimes THEN [m EXCEPT ![t].begin = time]
  ELSE IF r.episode = EpisodeCount[r.work] THEN [m EXCEPT ![t].finish = time]
  ELSE m

\* The map that the loop makes of the records in the order o.
TimesIn(log, o) ==
  LET after[i \in 0..Len(log)] ==
        IF i = 0 THEN [t \in {Title[w] : w \in Works} |-> NoTimes]
        ELSE Meet(after[i - 1], log[o[i]], o[i])
  IN  after[Len(log)]

\* The maps that listRecords may return.
ListedTimes(log) == {TimesIn(log, o) : o \in Orders(log)}
=============================================================================
