CONSTANTS
  g = g  h = h  bad = bad  deep = deep  esc = esc  r1 = r1
  Requests <- OneRequest
  Shapes <- AllShapes
  Documents <- MCDocuments
  Class <- MCClass
  MaxBody = 1
  MaxBatch = 2
  MaxPublishes = 2
  Impls = {"nethttp", "fasthttp"}
  Texts <- MCTexts
  Upstreams <- MCUpstreams
  Lines <- MCLines
  Peer = "peer"
  Host = "host"
  Scheme = "scheme"
SPECIFICATION WireSpec
INVARIANTS TypeOK DecidedByTheList CapHolds RefusedAlike TotalsAgree ReadAsApisRead
  HeadersSentOn
PROPERTIES LookupsAreAtomic
CHECK_DEADLOCK FALSE
