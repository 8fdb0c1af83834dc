SPECIFICATION Spec
CONSTANTS
  Jobs = {1, 2}
  DirectJobs = {2}
  Processes = {p1, p2}
  NoOwner = NoOwner
  Lost = Lost
  NoJob = NoJob
  HeartbeatTimeout = 2
  LeaseDuration = 3
INVARIANTS
  AnotherOnlyAfterLapse
  NoOrphanRequest

  
