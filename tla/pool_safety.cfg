CONSTANTS
  NumberFiles = 2
  NbThreads = 3
  UintMax <- SmallUintMax
  SymbolWrites = 0
  DebugToOutput = FALSE
SPECIFICATION Spec
INVARIANTS
  TypeOK
  UniqueClaim
  SemaphoresHeld
  NameAlive
  DestroyedIdle
  OverrunBound
  FilesAccounted
