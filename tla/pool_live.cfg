CONSTANTS
  NumberFiles = 2
  NbThreads = 2
  UintMax <- SmallUintMax
  SymbolWrites = 1
  DebugToOutput = TRUE
SPECIFICATION Spec
INVARIANTS
  RecordsContiguous
PROPERTIES
  Termination
  ArchiveSpec
