SPECIFICATION Spec

CONSTANTS
  Bits = 16
  Texts <- MCTexts
  Numbers <- MCNumbers
  One = 10
  Tolerance = 2
  Comparable <- MCComparable
  Documents <- MCDocuments
  Pointers <- MCPointers
  Patchable <- MCPatchable
  Patches <- MCPatches
  Merges <- MCMerges
  Encodable <- MCEncodable
  Readers <- MCReaders
  Beginnings <- MCBeginnings
  Octets <- MCOctets
  MaxOctets = 3
  Programs <- MCPrograms
  Contents <- MCContents
  Additions <- MCAdditions
  NewKeys <- MCNewKeys
  MaxChanges = 2

INVARIANTS
  ScansNumbers
  ComparesSoundly
  PointersResolve
  PatchesApply
  DiffPatches
  FlattenRestores
  BinaryComesBack
  TruncatedIsRefused
  ReadAgain
  BsonSizesExact
PROPERTIES
  IntegersComeBack
  IteratorsKeepPlace

\* The last call returns, the scanner ends.
CHECK_DEADLOCK FALSE
