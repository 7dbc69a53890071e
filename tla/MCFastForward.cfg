CONSTANTS
  r1 = r1  r2 = r2  c1 = c1  c2 = c2
  Requests <- TwoRequests
  Contexts <- OneContext
  Timeout = TRUE
SPECIFICATION FairSpec
INVARIANTS TypeOK ReleasedByLastUser SameBytesUpstream TakenAgainOnlyOnce LeftStreamRetired
PROPERTIES RelaySpec ForwardsEnd
CHECK_DEADLOCK FALSE
