SPECIFICATION FlowSpec
CONSTANTS
  Jobs = {1, 2}
  DirectJobs = {2}
  Processes = {p1}
  NoOwner = NoOwner
  Lost = Lost
  NoJob = NoJob
  HeartbeatTimeout = 1
  LeaseDuration = 2
INVARIANTS
  OneInProgress
PROPERTIES
  OutcomesCommitTogether
  OutcomeClosesBrowser
  SessionStallsOnlyAbandoned
