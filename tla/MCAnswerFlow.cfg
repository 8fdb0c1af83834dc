SPECIFICATION AnswerFairSpec
CONSTANTS
  Jobs = {1}
  DirectJobs = {}
  Processes = {p1, p2}
  Keys = {k1}
  NoOwner = NoOwner
  Lost = Lost
  NoJob = NoJob
  HeartbeatTimeout = 2
  LeaseDuration = 3
INVARIANTS
  HandedOverOnce
  OutcomeHoldsNoAnswers
  FillOnScreenIsAssisted
PROPERTIES
  AnswersHandled
  ContinueHandled
  DeadLeaseExpires
