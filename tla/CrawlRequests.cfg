SPECIFICATION FairSpec
CONSTANTS
  Jobs = {j1}
  NoJob = NoJob
  Periodic = {j1}
  Users = {u1, u2}
  Scheduler = scheduler
  Slots = {k1, k2}
  Faults = {"crawl"}
  MaxUrls = 2
  MaxFaults = 1
INVARIANTS TypeOK BusyHasCrawl RunningHasCrawl
PROPERTIES ScheduledRuns
CHECK_DEADLOCK FALSE
