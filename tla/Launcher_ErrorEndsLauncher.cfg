SPECIFICATION FairSpec
CONSTANTS
  Base <- VulnBase
  Updates <- OneUpdate
  MaxReloads = 3
  MayHang = FALSE
PROPERTIES
  ErrorEndsLauncher
