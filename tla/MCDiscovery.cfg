SPECIFICATION Spec
CONSTANTS
  Threshold = 1
  Cooldown = 1
  Profile <- MCProfile
  Inquiries = {"jobicy", "acme", "globex", "query1", "query2"}
  Postings = {"acme1", "acme2", "globex1"}
  Channel <- MCChannel
  Ad <- MCAd
  Listed <- MCListed
  Recorded <- MCRecorded
  SerpApiKey = TRUE
  Parallel <- MCParallel
  MaxBoards = 1
  MaxRetries = 2
  Cap = 1
  Workers = 1
INVARIANTS
  PendingBounded
PROPERTIES
  RefreshEnds
  PostingIsRecorded
