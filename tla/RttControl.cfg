\* Two tasks that call for the first time together, and a host that types.
SPECIFICATION FairSpec
CONSTANTS
  Tasks = {t1, t2}
  Urgent = t2
  NumUp = 2
  NumDown = 2
  Size = 3
  BufferSizes = {1, 2}
  MaxKeys = 3
  MaxCalls = 3
INVARIANTS TypeOK UndoneOnlyInRace GivenOnce KeysConserved ReadyAfterInit
PROPERTIES CallsReturn
CHECK_DEADLOCK FALSE
