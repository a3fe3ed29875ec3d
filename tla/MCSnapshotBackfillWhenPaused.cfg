SPECIFICATION SpecWithSnapshotBackfill
CONSTANTS
  d1 = d1  w1 = w1  j1 = j1
  Database = {d1}
  Worker = {w1}
  Placement = {w1}
  Job = {j1}
  Backfill = {}
  JobDatabase <- OneJob
  InFlightBarrierNums = 3
  CheckpointFrequency = 2
  Batch <- PauseOnly
  MaxCommands = 1
  MaxTicks = 3
  MaxFailures = 0
CHECK_DEADLOCK FALSE
INVARIANTS BarrierChain
