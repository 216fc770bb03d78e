SPECIFICATION MCSpec
CONSTANTS
  q1 = q1
  q2 = q2
  alike = alike
  cs = cs
  me = me
  d1 = d1
  d2 = d2
  c1 = c1
  c2 = c2
  r1 = r1
  r2 = r2
  r3 = r3
  u1 = u1
  u2 = u2
  f1 = f1
  f2 = f2
  Questions = {q1, q2}
  Classes = {alike}
  Class <- MCClass
  Scopes = {cs, me, all}
  All = all
  MemoryMax = 1
  VectorMax = 1
  Chats = {c1, c2}
  Sqlite = TRUE
  Rules = {r1, r2, r3}
  Defaults = {r1}
  Unsafe = {r3}
  Cycles = {y1, y2}
  MaxScore = 1
  None = None
  MaxTasks = 4
  MaxEdits = 2
  MaxCycles = 3
  Documents = {d1, d2}
  Home <- MCHome
  Near <- MCNear
  Asked <- MCAsked
  MaxAsks = 2
  MaxClears = 1
  MaxFaults = 2
  Uri <- MCUri
  Folder <- MCFolder
  Root = root
  Readers = {g1, g2}
  OneWriter = TRUE
  TTL = 1
  MaxClock = 1
  MaxVisits = 2
INVARIANTS TypeOK ScopeIsolated ClearedIsGone TotalsMatch ActiveWasScored TiersFollow TreeIsRecent
PROPERTIES RequestsEnd
CHECK_DEADLOCK FALSE
