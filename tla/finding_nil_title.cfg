\* The test for a missing title in CreateNextEpisodeRecords.
SPECIFICATION Spec
CONSTANTS
  w1 = w1
  w2 = w2
  film = film
  Works = {w1}
  UnknownWork = UnknownWork
  MaxEpisodes = 3
  EpisodeCount <- MCEpisodeCount
  SortNumber <- MCSortNumber
  UserStatuses = {}
  Commands = {k1}
  AddTargets = {}
  Untitled <- LastOfW1
  Faults = {}
  MaxRestarts = 0
  MaxAbandoned = 0
  RecordCap = 3
INVARIANT ProcessStaysUp
CHECK_DEADLOCK FALSE
