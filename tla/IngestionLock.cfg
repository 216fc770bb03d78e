SPECIFICATION Spec
CONSTANTS
  Paths = {p1, p2}
  Contents = {a, b}
  NoContent = NoContent
  Celery = {w1}
  Api = {r1}
  Serialised = TRUE
  Watched = TRUE
  AdminOps = {"ingest", "clear"}
  Faults = {"extract", "raise", "crash"}
  MaxRetries = 1
  MaxMtime = 1
  MaxOps = 1
  MaxFaults = 1
SYMMETRY Symmetry
INVARIANTS TypeOK DoneIsCurrent SingleOwner OneDocumentPerVersion
CHECK_DEADLOCK FALSE
