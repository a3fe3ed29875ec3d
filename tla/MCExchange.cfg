SPECIFICATION FairSpec
CONSTANTS
  InitialPermits = 4
  BatchedPermits = 2
  ConcurrentBarriers = 1
  Cardinalities <- MCCardinalities
  MaxMessages = 4
CHECK_DEADLOCK FALSE
INVARIANTS TypeOK PermitsConserved NoPermitDeadlock
PROPERTIES SendReturns MessagesArrive UpstreamExitReachesLocalInput
