SPECIFICATION FairSpec
CONSTANTS
  api = api
  worker = worker
  a1 = a1
  a2 = a2
  NULL = NULL
  Artifacts = {a1, a2}
  Processes = {api, worker}
  Saver <- MCSaver
  Stalls = 1
CHECK_DEADLOCK FALSE
INVARIANTS SeenIsComplete LoadedIsWhole SpoiledByStall
PROPERTIES LeftoversGo
