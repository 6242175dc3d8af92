SPECIFICATION Spec
CONSTANTS
  Ports = {agent, sshd}
  Calls = {c1, c2, c3}
  NoPort = none
INVARIANTS
  TypeOK
  NoLostWakeup
  ClosedOnce
PROPERTIES
  KeepsPromise
  WaitReturns
