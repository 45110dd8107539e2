CONSTANTS
  Tokens <- MCTokens
  MaxTokens = 10
  MaxRejected = 1
SPECIFICATION Spec
INVARIANTS
  PointersLive
  ParsesGrammar
  DumpIsInverse
\* parse returns or throws, and the specification ends.
CHECK_DEADLOCK FALSE
