\* Two requests and Stop compete for one slot, fairly scheduled.
SPECIFICATION FairSpec
CONSTANTS
  Requests = {r1, r2}
  Works = {w1}
  MaxWorkers = 1
  Faults = {"query", "nil"}
PROPERTIES
  EveryRequestReturns
