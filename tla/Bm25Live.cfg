SPECIFICATION FairSpec
CONSTANTS
  Threads = {t1, t2}
  Chunks = {1, 2, 3}
  Scraped = {2}
  MaxChunks = 8
  Calls = {"search", "add", "stream", "purge", "reload", "commit", "delete"}
  MaxCalls = 2
  None = None
INVARIANTS Aligned
PROPERTIES CallsEnd
CHECK_DEADLOCK FALSE
