SPECIFICATION ManagerFairSpec
CONSTANTS
  Keys = {hanging, leader}
  Conditional = {leader}
  Initial = {hanging, leader}
  HasUpdater = TRUE
  MayHang = {hanging}
  MaxIter = 2
CHECK_DEADLOCK FALSE
INVARIANTS
  MissedMeansDisturbed
PROPERTIES
  IterationEnds
  NoLeak
  StopDrains
