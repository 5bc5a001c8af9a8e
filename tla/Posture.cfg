SPECIFICATION FairSpec
CONSTANTS
  f1 = f1
  f2 = f2
  Fetchers <- TwoFetchers
  Kind <- OrgAndDirect
  Items = 2
  Cap = 1
  Buffer = 1
  Threshold = 2
  ClientSet = TRUE
CHECK_DEADLOCK FALSE
INVARIANTS
  ExactlyOnceInOrder
  ClosedMeansDrained
PROPERTIES
  Delivers
  EventuallyPublished
  StopEndsRun
