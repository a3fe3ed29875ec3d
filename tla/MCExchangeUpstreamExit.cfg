SPECIFICATION FairSpec
CONSTANTS
  InitialPermits = 4
  BatchedPermits = 2
  ConcurrentBarriers = 1
  Cardinalities <- MCCardinalities
  MaxMessages = 1
CHECK_DEADLOCK FALSE
PROPERTIES UpstreamExitReachesInput
