\* The chain of tries ends when a socket is open or all have failed.
SPECIFICATION Spec
CONSTANTS
  DirectTries = 2
  WorkerTries = 3
INVARIANTS
  TypeOK
  OneChain
  OutcomeHonest
PROPERTY RelaySettles
CHECK_DEADLOCK FALSE
