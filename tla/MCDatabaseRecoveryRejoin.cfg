SPECIFICATION Spec
CONSTANTS
  w1 = w1  w2 = w2
  Worker = {w1, w2}
  InFlightBarrierNums = 2
  MaxEpoch = 4
  MaxFailures = 1
  MaxWorkerErrors = 1
  MaxCommands = 0
  MaxRetries = 2
CHECK_DEADLOCK FALSE
INVARIANTS ActorsExist
