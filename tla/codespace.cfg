\* launch() ends; the codespace is then somebody else's business.
SPECIFICATION Spec
CONSTANTS
  Tries = 8
  NudgeAfter = 2
  MaxDelay = 2
INVARIANTS
  TypeOK
  NudgeRate
  Patient
PROPERTY LaunchReturns
CHECK_DEADLOCK FALSE
