SPECIFICATION Spec
PROPERTY HandshakeDropReported
CHECK_DEADLOCK FALSE
