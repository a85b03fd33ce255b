\* One command at a time on two series, one of them with an untitled episode,
\* and a film: some mutations of a command fail, others do not, and the user
\* tries again, also after a panic and a restart.
SPECIFICATION FairSpec
CONSTANTS
  w1 = w1
  w2 = w2
  film = film
  Works = {w1, w2, film}
  UnknownWork = UnknownWork
  MaxEpisodes = 3
  EpisodeCount <- MCEpisodeCount
  SortNumber <- MCSortNumber
  UserStatuses = {}
  Commands = {k1}
  AddTargets = {w2, film, UnknownWork}
  Untitled <- LastOfW1
  Faults = {"query", "reject", "loseReply", "giveUp"}
  MaxRestarts = 1
  MaxAbandoned = 1
  RecordCap = 2
INVARIANTS
  ReportedEpisodesAreRecorded
PROPERTIES
  EveryCommandEnds
CHECK_DEADLOCK FALSE
