SPECIFICATION Spec
CONSTANTS
  Byte <- MCByte
  Chunks <- MCChunks
  Readers = {r1, r2}
  ReadSize = 2
  MaxBytes = 4
INVARIANTS
  TypeOK
  NoSleeper
PROPERTIES
  ImplementsStream
  AllDelivered
