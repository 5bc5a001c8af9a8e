CONSTANTS
  n1 = n1
  n2 = n2
  v1 = v1
  v2 = v2
  Instances = {n1, n2}
  Volumes <- MCVolumes
  MaxIter = 2
SPECIFICATION FairSpec
INVARIANTS NoUseAfterDelete NoSnapshotForgotten OnePipeline NothingLost
PROPERTIES WorkerEnds StopEnds
CHECK_DEADLOCK FALSE
