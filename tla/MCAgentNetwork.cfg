SPECIFICATION NetSpec
CONSTANTS
  Jobs = {j1, j2}
  MaxRetryAttempts = 2
  Workers = 2
  CycleLimit = 2
  AutoSubmitModes = {TRUE}
  RequeueStatuses = {}
  Threshold = 2
  Cooldown = 2
  RequestTime = 1
  Attempts <- MCAttempts
INVARIANTS
  DocumentsNotLost
PROPERTIES
  ProcessingEnds
  DeferralsEnd
  ProbesAreSpaced
  RefinesPipeline
