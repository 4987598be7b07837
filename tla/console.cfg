CONSTANTS
  HexDigits = 2
  FifoSize = 2
  Scripts <- MC_Scripts
  Leftover = 13
  Noise = 200
SPECIFICATION Spec
INVARIANTS
  TypeOK
  LineSays
  TestByteConsumed
  Configured
PROPERTY AllSaid
