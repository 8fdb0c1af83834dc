SPECIFICATION FairSpec
CONSTANTS
  Agents = {a1, a2}
  ViaGoRun = {}
  None = None
  StallCycles = 2
  Modes = {"find_only", "automatic"}
  Scopes = {us}
  ProfileScope = world
  Unset = Unset
  Missing = Missing
  Corrupt = Corrupt
INVARIANTS
  AtMostOneAgent
  StartAnswerIsTrue
PROPERTIES
  SettingsSettle
  StallIsAlerted
CHECK_DEADLOCK FALSE
