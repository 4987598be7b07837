CONSTANTS
  Size = 5
  ByteSpan = 3
  Ints <- MC_Ints
SPECIFICATION Spec
INVARIANTS
  TypeOK
  WritesExactly
  ComparesExactly
  ReadsInside
PROPERTY Returns
