CONSTANTS
  a = a  a2 = a2  b = b  bad = bad  ka = ka  kb = kb
  start = start  l1 = l1  l2 = l2  status = status  metrics = metrics
  NFiles = 2
  Docs <- MCDocs
  Parses <- MCParses
  Taken <- MCTaken
  Keys <- MCKeys
  HashOf <- MCHashOf
  Loaders <- MCLoaders
  Main = start
  Token = "right"
  Given = {"right", "wrong"}
  Scrapers <- MCScrapers
  Bounds <- MCBounds
  Readers = {r1}
  MaxEdits = 1
  MaxLoads = 3
SPECIFICATION FairControlSpec
INVARIANTS TypeOK ResultsAddUp AnsweredReloadServes TotalsOfTheDirectory
PROPERTIES LookupsAreAtomic ScrapesAreTrue ReloadsSettle
CHECK_DEADLOCK FALSE
