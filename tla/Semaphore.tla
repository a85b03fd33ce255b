------------------------------ MODULE Semaphore ------------------------------
(***************************************************************************)
(* The weighted semaphore of golang.org/x/sync that annict/worker.go uses, *)
(* as its two callers see it: process acquires one slot, stop acquires all *)
(* of them.  It is not part of the repository (go.mod requires the version *)
(* of 2020-06-25).  A mutex makes each call one step; a waiter whose turn  *)
(* has come is a holder from then on, even before its Acquire returns.     *)
(***************************************************************************)
EXTENDS Integers, Sequences, FiniteSets, SequencesExt

CONSTANTS
  Size,           \* the number of slots, at least one
  Single,         \* those that acquire one slot, a finite set
  Whole           \* the one that acquires every slot, not in Single

VARIABLES
  cur,            \* the number of slots in use
  waiters,        \* those in Acquire whose turn has not come, oldest first
  holders         \* those whose turn has come and who have not released

Waiter == Single \cup {Whole}

SemTypeOK ==
  /\ cur \in Int
  /\ waiters \in Seq(Waiter)
  /\ holders \subseteq Waiter

SemInit == cur = 0 /\ waiters = <<>> /\ holders = {}

\* The number of slots that a set of callers takes.
SlotsOf(S) == Cardinality(S \cap Single) + (IF Whole \in S THEN Size ELSE 0)

First(rest, n) == {rest[i] : i \in 1..n}

\* notifyWaiters: turns come from the front for as long as the slots last, so a
\* waiter for many slots holds up those behind it.
Notify(inUse, rest, held) ==
  \E n \in 0..Len(rest) :
    /\ inUse + SlotsOf(First(rest, n)) <= Size
    /\ n < Len(rest) => inUse + SlotsOf(First(rest, n + 1)) > Size
    /\ cur' = inUse + SlotsOf(First(rest, n))
    /\ waiters' = SubSeq(rest, n + 1, Len(rest))
    /\ holders' = held \cup First(rest, n)

Fits(x) == cur + SlotsOf({x}) <= Size

\* Mutant of Acquire: a newcomer takes a free slot although others wait.
AcquireBarging(x) ==
  IF Fits(x)
  THEN /\ cur' = cur + SlotsOf({x})
       /\ holders' = holders \cup {x}
       /\ UNCHANGED waiters
  ELSE /\ waiters' = Append(waiters, x)
       /\ UNCHANGED <<cur, holders>>

Acquire(x) ==
  IF Fits(x) /\ waiters = <<>>
  THEN /\ cur' = cur + SlotsOf({x})
       /\ holders' = holders \cup {x}
       /\ UNCHANGED waiters
  ELSE /\ waiters' = Append(waiters, x)
       /\ UNCHANGED <<cur, holders>>

Release(x) ==
  /\ x \in holders
  /\ Notify(cur - SlotsOf({x}), waiters, holders \ {x})

\* Mutant of Cancel: the waiters behind a front one that gives up stay asleep.
CancelQuietly(x) ==
  \E i \in DOMAIN waiters :
    /\ waiters[i] = x
    /\ waiters' = RemoveAt(waiters, i)
    /\ UNCHANGED <<cur, holders>>

\* Mutant of Cancel: the slots that were never taken are given back.
CancelReleasing(x) ==
  \E i \in DOMAIN waiters :
    waiters[i] = x /\ Notify(cur - SlotsOf({x}), RemoveAt(waiters, i), holders)

\* The context of a waiter is done before its turn has come.
Cancel(x) ==
  \E i \in DOMAIN waiters :
    /\ waiters[i] = x
    /\ LET rest == RemoveAt(waiters, i) IN
       IF i = 1 /\ Size > cur
       THEN Notify(cur, rest, holders)
       ELSE waiters' = rest /\ UNCHANGED <<cur, holders>>
=============================================================================
