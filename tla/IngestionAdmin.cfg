SPECIFICATION Spec
CONSTANTS
  Paths = {p1}
  Contents = {a, b}
  NoContent = NoContent
  Celery = {w1}
  Api = {r1}
  Serialised = FALSE
  Watched = TRUE
  AdminOps = {"force", "audit", "dismiss", "delete", "refetch"}
  Faults = {"crash", "qdrant", "read"}
  MaxRetries = 0
  MaxMtime = 1
  MaxOps = 2
  MaxFaults = 1
SYMMETRY Symmetry
INVARIANTS IndexedIsEmbedded
CHECK_DEADLOCK FALSE
