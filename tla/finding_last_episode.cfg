\* The comment on CreateNextEpisodeRecords about the last episode.
SPECIFICATION Spec
CONSTANTS
  w1 = w1
  w2 = w2
  film = film
  Works = {w1}
  UnknownWork = UnknownWork
  MaxEpisodes = 3
  EpisodeCount <- MCEpisodeCount
  SortNumber <- MCSortNumber
  UserStatuses = {}
  Commands = {k1}
  AddTargets = {}
  Untitled <- Nothing
  Faults = {}
  MaxRestarts = 0
  MaxAbandoned = 0
  RecordCap = 3
INVARIANT LastEpisodeMarksWork
CHECK_DEADLOCK FALSE
