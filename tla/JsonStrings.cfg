CONSTANTS
  BufferSize = 16
  Literals <- MCLiterals
  Strings <- MCStrings
SPECIFICATION Spec
INVARIANTS
  StaysInBuffer
  ThrowsIfIllFormed
  ScansUtf8
  ComesBack
PROPERTY ReturnsOrThrows
\* Every call ends, and with it the specification.
CHECK_DEADLOCK FALSE
