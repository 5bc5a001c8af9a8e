SPECIFICATION Spec
CONSTANTS
  Base <- VulnBase
  Updates <- Mixed
  MaxReloads = 2
  MayHang = TRUE
INVARIANTS
  StopSurvives
