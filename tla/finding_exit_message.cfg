\* What main prints when it exits.
SPECIFICATION FairSpec
CONSTANTS
  Requests = {r1, r2}
  Commands = {k1}
  MaxWorkers = 1
PROPERTIES
  FailureMessageIsTrue
CHECK_DEADLOCK FALSE
