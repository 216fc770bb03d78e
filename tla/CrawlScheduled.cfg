SPECIFICATION Spec
CONSTANTS
  Jobs = {j1, j2}
  NoJob = NoJob
  Periodic = {j1}
  Users = {}
  Scheduler = scheduler
  Slots = {k1, k2}
  Faults = {"database", "crawl", "crash"}
  MaxUrls = 2
  MaxFaults = 2
PROPERTIES ImplementsOneCrawler
CHECK_DEADLOCK FALSE
