SPECIFICATION Spec
CONSTANTS
  NULL = NULL
  j1 = j1
  i1 = i1
  i2 = i2
  w1 = w1
  w2 = w2
  Jobs = {j1}
  Items = {i1}
  Workers = {w1, w2}
  JobOf <- MCJobOf
  QueueOf <- AllHttpQueueOf
  WorkerQueue <- AllHttpWorkerQueue
  MaxAttempts = 2
  Budget <- ContendedBudget
INVARIANTS
  TypeOK
  EndBacked
  HoldersCounted
  AttemptsBounded
PROPERTY CancelledIsOut
CHECK_DEADLOCK FALSE
