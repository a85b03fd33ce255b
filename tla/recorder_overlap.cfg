\* Two commands at work at once on one series, every fault, a kill and a
\* restart, and statuses changed by hand.
SPECIFICATION Spec
CONSTANTS
  w1 = w1
  w2 = w2
  film = film
  Works = {w1}
  UnknownWork = UnknownWork
  MaxEpisodes = 3
  EpisodeCount <- MCEpisodeCount
  SortNumber <- MCSortNumber
  UserStatuses = {"WATCHING", "OTHER"}
  Commands = {k1, k2}
  AddTargets = {w1}
  Untitled <- Nothing
  Faults = {"reject", "loseReply", "giveUp"}
  MaxRestarts = 1
  MaxAbandoned = 1
  RecordCap = 2
SYMMETRY CommandSymmetry
INVARIANTS
  TypeOK
  NoEpisodeSkipped
  PendingRecordsFollow
  DuplicatesBoundedByOverlap
PROPERTIES
  OnlyFinishedWorksBecomeWatched
  StartRecordsUnwatchedMiddle
  AccountSpec
CHECK_DEADLOCK FALSE
