SPECIFICATION Spec

CONSTANTS
  Bits32 = 16
  Bits64 = 24
  MessageType <- MCMessageType
  Field <- MCField
  Schema <- MCSchema
  Text <- MCText
  TextBytes <- MCTextBytes
  DecodedBytes <- MCDecodedBytes
  Root = "Strict"
  Docs <- StrictDocs
  Json <- StrictJson
  IntMax = 100000

INVARIANTS
  WritesWithinBuffer
PROPERTIES
  WritePassNeverThrows

\* A call of serializeMessage ends.
CHECK_DEADLOCK FALSE
