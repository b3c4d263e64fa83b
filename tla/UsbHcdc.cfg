\* The host task from start to the first events.
SPECIFICATION Spec
CONSTANTS
  QueueLen = 2
  NumRecords = 1
  MaxEvents = 4
INVARIANTS ClosedOnlyOnFailure
CHECK_DEADLOCK FALSE
