\* A work of two episodes, which is watched to its end and not marked yet.
CONSTANTS
  w1 = w1
  w2 = w2
  Works = {w1, w2}
  EpisodeCount <- MCEpisodeCount
  SortNumber <- MCSortNumber
  Title <- MCTitle
  Season <- MCSeason
  PageSizes = {0, 1}
  MaxRecords = 4
  Handled = {}
SPECIFICATION Spec
INVARIANT WatchingWorksHaveNoFinishTime
