CONSTANTS
  NumberFiles = 2
  NbThreads = 2
  UintMax <- SmallUintMax
  SymbolWrites = 0
  DebugToOutput = FALSE
SPECIFICATION Spec
INVARIANTS
  NeverExceeds
