SPECIFICATION Spec
CONSTANTS
  d1 = d1  d2 = d2  w1 = w1  w2 = w2  j1 = j1  j2 = j2
  Database = {d1}
  Worker = {w1, w2}
  Placement = {w1}
  Job = {j1}
  Backfill = {j1}
  JobDatabase <- OneDatabase
  InFlightBarrierNums = 2
  CheckpointFrequency = 2
  Batch <- DdlBatches
  MaxCommands = 2
  MaxTicks = 2
  MaxFailures = 1
CHECK_DEADLOCK FALSE
INVARIANTS TypeOK EpochsCovered AwaitedBarriersAreOutstanding CommittedIsCollected
  CollectedIsDurable QueuedCommandsAreExpected
PROPERTIES JobFinishedIsDurable
