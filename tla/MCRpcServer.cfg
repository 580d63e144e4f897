CONSTANTS
  Setups <- MCSetups
  c1 = c1
  c2 = c2
  Callers = {c1, c2}
  ClientThreads = 2
  MaxCalls = 2
  NumRequests = 2
  MayDie = {"unary", "batching"}
  MayCancel = {"unary", "batching"}
  Prompt = FALSE
  Kinds = {"unary", "sumd"}
  MaxMessages = 3
  MaxPosts = 2
  MaxBackoff = 64
  MayNotStart = TRUE
  Waits <- MCWaits
  Eager = TRUE
  SameThread = TRUE
  Joins = TRUE
SPECIFICATION RpcFairSpec
INVARIANTS InOrder OperationsSound SingleSound TransportSound
PROPERTIES CallsEnd
CHECK_DEADLOCK FALSE
