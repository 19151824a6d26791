CONSTANTS
  Modulus = 64
  BlockSizes <- SomeBlockSizes
  SymbolSizes <- SomeSymbolSizes
  RedundanceSizes <- SomeRedundanceSizes
  MessageSizes <- SomeMessageSizes
  Missing = {0}
SPECIFICATION Spec
INVARIANTS
  MessageWritten
