CONSTANTS
  MaxBytes = 4
  MaxRead = 2
  MaxBuffers = 6
SPECIFICATION Spec
INVARIANTS EchoIsPrefix BuffersFreedOnce
PROPERTIES EchoComplete EventuallyClosed StopNoticed
