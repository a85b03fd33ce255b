\* Start is repeated, answers get lost, and nothing else goes wrong.
SPECIFICATION PersistentSpec
CONSTANTS
  w1 = w1
  w2 = w2
  film = film
  Works = {w1, w2}
  UnknownWork = UnknownWork
  MaxEpisodes = 3
  EpisodeCount <- MCEpisodeCount
  SortNumber <- MCSortNumber
  UserStatuses = {}
  Commands = {k1}
  AddTargets = {}
  Untitled <- Nothing
  Faults = {"loseReply", "giveUp"}
  MaxRestarts = 0
  MaxAbandoned = 1
  RecordCap = 5
PROPERTIES
  BegunWorksGetWatched
CHECK_DEADLOCK FALSE
