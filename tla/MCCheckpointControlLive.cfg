SPECIFICATION FairSpec
CONSTANTS
  d1 = d1  d2 = d2  w1 = w1  w2 = w2  j1 = j1  j2 = j2
  Database = {d1}
  Worker = {w1}
  Placement = {w1}
  Job = {j1}
  Backfill = {}
  JobDatabase <- OneDatabase
  InFlightBarrierNums = 1
  CheckpointFrequency = 2
  Batch <- AllBatches
  MaxCommands = 2
  MaxTicks = 1
  MaxFailures = 1
CHECK_DEADLOCK FALSE
PROPERTIES EveryCommandResolved RecoveryEnds
