SPECIFICATION Spec
CONSTANTS
  EventIds = {1, 2, 3}
  Workers = {w1}
  Settle = 1
  MaxTx = 1
  Batch = 2
  RetentionAge = 2
  PurgeBatch = 1
  MaintenanceEvery = 2
  SealInterval = 1
  StampWindow = 3
  StampBatch = 2
  LastBegin = 2
  MaxTime = 5
  MaxTokens = 2
  MaxAlterations = 1
INVARIANTS ChainIndexUnique ChainInTimeOrder AlterationReported
