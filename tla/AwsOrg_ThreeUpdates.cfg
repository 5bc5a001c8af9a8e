SPECIFICATION Spec
CONSTANTS
  Account = {A, B}
  None = None
  MaxIter = 3
  MaxAtOnce = 2
  MaxChanges = 1
  MaxFlight = 1
SYMMETRY Symmetry
INVARIANTS Forwarded RegistryIsListing CacheIsRegistry
PROPERTIES KeepsFetchers
CHECK_DEADLOCK FALSE
