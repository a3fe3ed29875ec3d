SPECIFICATION Spec
CONSTANTS
  g1 = g1
  g2 = g2
  t1 = t1
  t2 = t2
  t3 = t3
  i1 = i1
  i2 = i2
  i3 = i3
  i4 = i4
  Group = {g1, g2}
  Table = {t1, t2, t3}
  Instance = {i1, i2, i3, i4}
  TablesOf <- Tables
  TableOf <- Owner
  Successor <- Replacement
  Droppable = {t2}
  MaxEpoch <- Epochs
  MaxImm = 2
  MaxInFlight = 2
  MaxFaults = 1
PROPERTY ImplementsDurableState
INVARIANTS FlushedInOrder StagesOrdered TaskConsistency ReadYourWrites UploadedNewestFirst StagingEmptyAtUpdate NoneStuck
CHECK_DEADLOCK FALSE
