SPECIFICATION Spec
CONSTANTS
  Account = {A, B}
  None = None
  MaxIter = 2
  MaxAtOnce = 2
  MaxChanges = 2
  MaxFlight = 2
SYMMETRY Symmetry
INVARIANTS Forwarded RegistryIsListing CacheIsRegistry
PROPERTIES KeepsFetchers
CHECK_DEADLOCK FALSE
