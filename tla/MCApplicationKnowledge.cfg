SPECIFICATION KnowledgeSpec
CONSTANTS
  Jobs = {1, 2}
  Questions <- MCQuestions
  Requests = {r1, r2}
  Profiles <- MCProfiles
  Scopes <- MCScopes
  DecisionLimit = 2
  ChangeLimit = 3
SYMMETRY RequestSymmetry
INVARIANTS
  DeclarationsAreGranted
  DeclaredWordingsConfirmed
  ReportIsAsRead
