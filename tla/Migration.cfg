SPECIFICATION MCSpec
CONSTANTS
  alice = alice
  bob = bob
  S = S
  T = T
  Users = {alice, bob}
  Default = alice
  Service = service
  Sessions = {s1, s2}
  Servers = {S, T}
  Source = S
  Sqlite = TRUE
  Calls = {"login", "password", "create", "status", "update", "delete"}
  Wishes <- MCWishes
  Copier = copier
  None = None
  MaxCalls = 2
  Docs = {1, 2}
  Targets = {T}
  Named = {"database", "vectors", "redis"}
  HasEnv = TRUE
  Switchers = {k}
  Faults = {"remote", "crash", "dispose", "client"}
  Patient = TRUE
  MaxJobs = 2
  MaxSwitches = 2
  MaxWrites = 2
  MaxFaults = 1
INVARIANTS TypeOK SuperadminRemains OldRowsCopied ParityIsEquality OneServer
PROPERTIES NewServerHasSuperadmin MigrationEnds
CHECK_DEADLOCK FALSE
