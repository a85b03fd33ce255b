\* One request of every kind beside a listing or a command, in every mode.
CONSTANTS
  c1 = c1
  c2 = c2
  Client = {c1, c2}
  Requests <- MCRequests
  Envs = {"dev", "prod", "other"}
SPECIFICATION FairSpec
INVARIANTS
  TypeOK
  AnswerTellsOutcome
  StayingClientsSeeInternal
  CommandsRunIffAcknowledged
  NothingLeftBehind
  DevModeServes
PROPERTIES
  ExchangeSpec
  EveryExchangeEnds
CHECK_DEADLOCK FALSE
