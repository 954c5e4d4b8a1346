SPECIFICATION FairSpec
CONSTANTS
  NULL = NULL
  j1 = j1
  i1 = i1
  i2 = i2
  w1 = w1
  w2 = w2
  Jobs = {j1}
  Items = {i1, i2}
  Workers = {w1}
  JobOf <- MCJobOf
  QueueOf <- AllHttpQueueOf
  WorkerQueue <- AllHttpWorkerQueue
  MaxAttempts = 2
  Budget <- AloneBudget
INVARIANT SummaryRight
PROPERTIES
  ItemsEnd
  JobsEnd
CHECK_DEADLOCK FALSE
