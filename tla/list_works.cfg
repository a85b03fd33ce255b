\* Two requests for pages of up to two works compete for two slots while Stop
\* is called; clients leave, queries fail and a page makes the handler panic.
SPECIFICATION Spec
CONSTANTS
  Requests = {r1, r2}
  Works = {w1, w2}
  MaxWorkers = 2
  Faults = {"query", "nil"}
SYMMETRY ListSymmetry
INVARIANTS
  TypeOK
  SlotsAccounted
  NoSlotLeaks
  NoneWaitsInVain
  AnswerIsComplete
PROPERTIES
  PoolSpec
  StopIsNotOvertaken
