CONSTANTS
  r1 = r1  r2 = r2  s1 = s1
  Requests <- TwoRequests
  Posts <- TwoRequests
  States <- OneState
  Timeout = FALSE
  WriteTimeout = FALSE
  MayDrain = FALSE
SPECIFICATION Spec
INVARIANTS SameBytesUpstream
CHECK_DEADLOCK FALSE
