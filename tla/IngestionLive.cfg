SPECIFICATION RescanSpec
CONSTANTS
  Paths = {p1, p2}
  Contents = {a, b}
  NoContent = NoContent
  Celery = {w1}
  Api = {}
  Serialised = TRUE
  Watched = TRUE
  AdminOps = {"clear"}
  Faults = {"extract", "record"}
  MaxRetries = 1
  MaxMtime = 1
  MaxOps = 1
  MaxFaults = 1
INVARIANTS ProcessingIsOwned
PROPERTIES EventuallySettled
CHECK_DEADLOCK FALSE
