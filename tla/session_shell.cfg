SPECIFICATION Spec
CONSTANTS
  MaxGen = 2
  ReconnectLimit = 1
  Minute = 2
INVARIANT LiveHasShell
