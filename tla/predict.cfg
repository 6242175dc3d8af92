SPECIFICATION Spec
CONSTANTS
  Key = {"a", "b"}
  Width = 3
  EditPause = 1
  EchoPause = 1
  PromptPause = 2
  MaxKeys = 3
  MaxOutput = 1
INVARIANT TypeOK
PROPERTIES
  SyncKept
  PauseKept
CHECK_DEADLOCK FALSE
