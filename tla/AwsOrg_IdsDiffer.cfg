SPECIFICATION Spec
CONSTANTS
  Account = {A, B}
  None = None
  MaxIter = 1
  MaxAtOnce = 2
  MaxChanges = 1
  MaxFlight = 2
INVARIANT IdsDiffer
CHECK_DEADLOCK FALSE
