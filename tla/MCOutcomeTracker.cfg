SPECIFICATION FairSpec
CONSTANTS
  p1 = p1
  p2 = p2
  acme = acme
  named = named
  vague = vague
  bare = bare
  receipt = receipt
  Gone = Gone
  None = None
  Postings <- MCPostings
  CompanyOf <- MCCompanyOf
  Mails <- MCMails
  Content <- MCContent
  UnmatchableNames = {}
  CommonWords = {}
  MaxMail = 2
  BatchSize = 1
  MaxFaults = 1
  MaxGenerations = 2
INVARIANTS
  NothingSkipped
  AcknowledgedMovesOne
PROPERTIES
  MailHandled
CHECK_DEADLOCK FALSE
