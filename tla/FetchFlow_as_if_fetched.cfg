SPECIFICATION Spec
CONSTANTS
  api = api
  worker = worker
  redis = redis
  u1 = u1
  c1 = c1
  c2 = c2
  c3 = c3
  c4 = c4
  c5 = c5
  NULL = NULL
  Urls = {u1}
  Processes = {api}
  Callers = {c1, c2}
  ProcOf <- AllInApi
  Req <- FallbackReq
  Pages = {"good"}
  Stores = {api}
  StoreOf <- OwnMemory
  Volatile = {api}
  SaveByDefault = TRUE
CHECK_DEADLOCK FALSE
INVARIANTS AsIfFetched
