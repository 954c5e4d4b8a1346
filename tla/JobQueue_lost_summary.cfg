SPECIFICATION Spec
CONSTANTS
  NULL = NULL
  j1 = j1
  i1 = i1
  i2 = i2
  w1 = w1
  w2 = w2
  Jobs = {j1}
  Items = {i1, i2}
  Workers = {w1, w2}
  JobOf <- MCJobOf
  QueueOf <- MixedQueueOf
  WorkerQueue <- MixedWorkerQueue
  MaxAttempts = 3
  Budget <- QuietBudget
INVARIANT SummaryRight
CHECK_DEADLOCK FALSE
