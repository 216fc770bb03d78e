SPECIFICATION FairSpec
CONSTANTS
  p1 = p1
  p2 = p2
  d1 = d1
  d2 = d2
  Pages = {p1, p2}
  Documents = {d1, d2}
  Links <- TwoPages
  Seeds = {p1}
  Validators = {}
  Short = {}
  Crawler = crawler
  Singles = {}
  AutoIngest = {TRUE}
  Sqlite = FALSE
  Calls = {"stop"}
  Faults = {"network"}
  MaxVersion = 2
  MaxUpdates = 3
  MaxCalls = 1
  MaxFaults = 1
INVARIANTS TypeOK EntryIsStored PageHasOneText
PROPERTIES RecrawlSettles
CHECK_DEADLOCK FALSE
