SPECIFICATION Spec

CONSTANTS
  Dir <- MCDir
  File <- MCFile
  Symbol <- MCSymbol
  Descriptor <- MCDescriptor
  Disk <- MCDisk
  Cwd = "."
  IncludePaths <- MCIncludePaths
  MaxLoads = 3

INVARIANTS
  LoadsExactly
  FreshLoaderAgrees
  FailureIsExplained
  WalksAgree
PROPERTIES
  DescriptorsSettle
  LoadsEnd

\* After MaxLoads calls the loader is left alone.
CHECK_DEADLOCK FALSE
