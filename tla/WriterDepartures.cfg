SPECIFICATION Spec

CONSTANTS
  Bits32 = 16
  Bits64 = 24
  MessageType <- MCMessageType
  Field <- MCField
  Schema <- MCSchema
  Text <- MCText
  TextBytes <- MCTextBytes
  DecodedBytes <- MCDecodedBytes
  Root = "Strict"
  Docs <- DepartingDocs
  Json <- DepartingJson
  IntMax = 100000

INVARIANTS
  ReturnsEncoding

\* A call of serializeMessage ends.
CHECK_DEADLOCK FALSE
