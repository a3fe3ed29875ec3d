SPECIFICATION Spec
CONSTANTS
  w1 = w1  w2 = w2
  Worker = {w1, w2}
  InFlightBarrierNums = 2
  MaxEpoch = 3
  MaxFailures = 1
  MaxWorkerErrors = 0
  MaxCommands = 1
  MaxRetries = 2
CHECK_DEADLOCK FALSE
INVARIANTS BlockedOnlyWhileRecovering
