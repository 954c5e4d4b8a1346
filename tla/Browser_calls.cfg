SPECIFICATION FairSpec
CONSTANTS
  f1 = f1
  f2 = f2
  f3 = f3
  r1 = r1
  Lifespan = Lifespan
  Calls <- MCCalls
  Checks <- MCChecks
  Concurrency = 2
  MaxCrashes = 2
INVARIANTS TypeOK OneBrowser NeverPulled PermitsKept
PROPERTY CallsEnd
CHECK_DEADLOCK FALSE
