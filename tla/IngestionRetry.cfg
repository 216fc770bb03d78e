SPECIFICATION Spec
CONSTANTS
  Paths = {p1}
  Contents = {a, b}
  NoContent = NoContent
  Celery = {w1}
  Api = {}
  Serialised = TRUE
  Watched = TRUE
  AdminOps = {}
  Faults = {"raise"}
  MaxRetries = 1
  MaxMtime = 1
  MaxOps = 0
  MaxFaults = 1
INVARIANTS DoneIsIndexed
CHECK_DEADLOCK FALSE
