SPECIFICATION Spec

CONSTANTS
  Bits32 = 16
  Bits64 = 24
  MessageType <- MCMessageType
  Field <- MCField
  Schema <- MCSchema
  Text <- MCText
  TextBytes <- MCTextBytes
  TextWith <- MCTextWith
  DecodedBytes <- MCDecodedBytes
  Utf8 <- MCUtf8
  Json = {}
  Root = "Departing"
  Inputs <- EndlessInputs
  Texts <- SampleTexts
  LoopBound = 3
  Leftovers = {0, 1}

PROPERTIES
  Ends

\* A call of readMessage ends.
CHECK_DEADLOCK FALSE
