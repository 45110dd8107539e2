SPECIFICATION Spec

CONSTANTS
  Bits32 = 16
  Bits64 = 24
  MessageType <- MCMessageType
  Field <- MCField
  Schema <- MCSchema
  Text <- MCText
  TextBytes <- MCTextBytes
  DecodedBytes <- MCDecodedBytes
  Root = "Chain"
  Docs <- NestedDocs
  Json <- NestedJson
  IntMax = 300

INVARIANTS
  TypeOK
  PayloadMatchesPrefix
PROPERTIES
  KeepsPromise

\* A call of serializeMessage ends.
CHECK_DEADLOCK FALSE
