CONSTANTS
  r1 = r1  r2 = r2  s1 = s1
  Requests <- TwoRequests
  Posts = {r1}
  States <- OneState
  Timeout = TRUE
  WriteTimeout = TRUE
  MayDrain = TRUE
SPECIFICATION FairSpec
INVARIANTS TypeOK FailureIsUpstreams StreamReleased
PROPERTIES RelaySpec EveryExchangeEnds DrainEndsStreams
CHECK_DEADLOCK FALSE
