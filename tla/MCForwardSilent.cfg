CONSTANTS
  r1 = r1  r2 = r2  s1 = s1
  Requests <- OneRequest
  Posts <- OneRequest
  States <- OneState
  Timeout = TRUE
  WriteTimeout = TRUE
  MayDrain = FALSE
SPECIFICATION Spec
INVARIANTS SilenceMeansGone
CHECK_DEADLOCK FALSE
