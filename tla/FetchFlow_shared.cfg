SPECIFICATION FairSpec
CONSTANTS
  api = api
  worker = worker
  redis = redis
  u1 = u1
  c1 = c1
  c2 = c2
  c3 = c3
  c4 = c4
  c5 = c5
  NULL = NULL
  Urls = {u1}
  Processes = {api, worker}
  Callers = {c1, c2, c3, c4, c5}
  ProcOf <- InBoth
  Req <- MixedReq
  Pages = {"bare", "missing", "challenge"}
  Stores = {redis}
  StoreOf <- SharedRedis
  Volatile = {}
  SaveByDefault = TRUE
CHECK_DEADLOCK FALSE
INVARIANTS TypeOK CachedIsGood AnswersFit OneUpstream Coalesced
PROPERTIES Answered
