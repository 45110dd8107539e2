SPECIFICATION Spec

CONSTANTS
  Bits = 16
  Texts = {}
  Numbers = {}
  One = 10
  Tolerance = 2
  Comparable = {}
  Documents = {}
  Pointers = {}
  Patchable = {}
  Patches = {}
  Merges = {}
  Encodable = {}
  Readers = {}
  Beginnings <- MCBeginnings
  Octets <- MCOctets
  MaxOctets = 0
  Programs <- MCDepartures
  Contents = {}
  Additions = {}
  NewKeys = {}
  MaxChanges = 0

INVARIANT AsDocumented

\* The last call returns.
CHECK_DEADLOCK FALSE
