SPECIFICATION Spec
CONSTANTS
  Client = {c1, c2}
  NoClient = NoClient
  MaxPolls = 1
  MaxSent = 2
INVARIANTS
  TypeOK
  PageServed
PROPERTIES
  ImplementsPipes
  EndsPassOn
  PollEnds
CHECK_DEADLOCK FALSE
