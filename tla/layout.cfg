CONSTANTS
  Modulus = 64
  BlockSizes <- SomeBlockSizes
  SymbolSizes <- SomeSymbolSizes
  RedundanceSizes <- SomeRedundanceSizes
  MessageSizes <- SomeMessageSizes
  Missing <- SomeMissing
SPECIFICATION Spec
INVARIANTS
  TypeOK
  CopiesInside
  WrittenInOrder
  RecordLength
  CrashCause
