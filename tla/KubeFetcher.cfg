SPECIFICATION Spec
CONSTANTS
  Kinds = 3
  MaxCalls = 4
INVARIANTS CompleteOrOverlapped WatchedOnce
CHECK_DEADLOCK FALSE
