SPECIFICATION FairSpec
CONSTANTS
  MaxAttempts = 3
  MaxTargetRecoveryAttempts = 1
  Routes = {"linkedin", "dedicated", "generic"}
  Wordings = {{}, {"form", "after"}}
INVARIANTS
  MarkedBeforeFill
  NeverClicksUnasked
  FiledTwiceOnlyUnseen
PROPERTIES
  SuccessHasEvidence
  AttemptEnds
