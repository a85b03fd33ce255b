\* Two works of one title, pages of one or two works, up to three records.
CONSTANTS
  w1 = w1
  w2 = w2
  Works = {w1, w2}
  EpisodeCount <- MCEpisodeCount
  SortNumber <- MCSortNumber
  Title <- MCSharedTitle
  Season <- MCSeason
  PageSizes = {0, 1, 2}
  MaxRecords = 3
  Handled = {w1, w2}
SPECIFICATION Spec
INVARIANTS
  TypeOK
  TimesAreOfFirstAndLast
  WatchedWorksHaveFinishTimes
  FinishedAfterBegun
  PagingMissesNothing
