SPECIFICATION Spec
CONSTANTS
  Threads = {t1, t2, t3}
  Chunks = {1, 2, 3}
  Scraped = {2}
  MaxChunks = 8
  Calls = {"search", "add", "commit", "delete"}
  MaxCalls = 3
  None = None
SYMMETRY Symmetry
INVARIANTS TypeOK SearchIsSound NoSearchError CorpusComplete
CHECK_DEADLOCK FALSE
