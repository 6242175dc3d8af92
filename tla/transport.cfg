\* A transport stops for good when its promise is rejected or its shell ended.
SPECIFICATION Spec
INVARIANT TypeOK
PROPERTIES
  Contract
  HandshakeSettles
  ShellEndReported
CHECK_DEADLOCK FALSE
