SPECIFICATION Spec
CONSTANTS
  api = api
  worker = worker
  a1 = a1
  a2 = a2
  NULL = NULL
  Artifacts = {a1}
  Processes = {api, worker}
  Saver <- MCSaver
  Stalls = 0
CHECK_DEADLOCK FALSE
INVARIANTS PublishedIsLoadable
