SPECIFICATION FairSpec
CONSTANTS
  Base <- VulnBase
  Updates <- AllUpdates
  MaxReloads = 3
  MayHang = FALSE
INVARIANTS
  OneLiveBeater
  OldBeaterCanEnd
  ConfigIsMergeOfUpdates
PROPERTIES
  Supervises
  ReloadReleased
  StopEnds
