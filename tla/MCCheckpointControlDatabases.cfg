SPECIFICATION Spec
CONSTANTS
  d1 = d1  d2 = d2  w1 = w1  w2 = w2  j1 = j1  j2 = j2
  Database = {d1, d2}
  Worker = {w1}
  Placement = {w1}
  Job = {j1, j2}
  Backfill = {}
  JobDatabase <- OwnJobs
  InFlightBarrierNums = 2
  CheckpointFrequency = 2
  Batch <- ConfigBatches
  MaxCommands = 4
  MaxTicks = 2
  MaxFailures = 1
CHECK_DEADLOCK FALSE
INVARIANTS EpochsCovered PauseBarrierIsLast AssertionsHold CommittedIsCollected
