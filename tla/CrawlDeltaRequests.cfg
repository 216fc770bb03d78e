SPECIFICATION Spec
CONSTANTS
  p1 = p1
  p2 = p2
  d1 = d1
  d2 = d2
  Pages = {p1}
  Documents = {d1}
  Links <- OnePage
  Seeds = {p1}
  Validators = {d1}
  Short = {2}
  Crawler = crawler
  Singles = {s1}
  AutoIngest = {TRUE}
  Sqlite = FALSE
  Calls = {"single", "stop", "sweep", "purge"}
  Faults = {"network", "embed", "database", "crash"}
  MaxVersion = 2
  MaxUpdates = 1
  MaxCalls = 2
  MaxFaults = 1
INVARIANTS TextIsIndexed EntryHasDocument
CHECK_DEADLOCK FALSE
