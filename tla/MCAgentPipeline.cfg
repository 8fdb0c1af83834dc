SPECIFICATION Spec
CONSTANTS
  Jobs = {j1}
  MaxRetryAttempts = 3
  Workers = 1
  CycleLimit = 2
  AutoSubmitModes = {TRUE, FALSE}
  RequeueStatuses = {"BLOCKED_CAPTCHA", "FAILED_SUBMIT", "APPLIED", "RETRY_EXHAUSTED"}
INVARIANTS
  DedupIsEarned
PROPERTIES
  WorkedRowIsClaimed
  NoResubmission
  AppliedStays
