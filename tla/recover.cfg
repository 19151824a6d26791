CONSTANTS
  NumberBlocks = 2
  CountModulus = 256
  FirstSize = 2
  LastSize = 1
  SizeRedundance = 2
  Elem <- GF4
  Zero = 0
  One = 1
  Add <- AddGF4
  Mul <- MulGF4
  Inv <- InvGF4
  Coefficients <- SomeCoefficients
  Losses <- SomeLosses
  Garbage = {0, 2}
  Messages <- SomeMessages
SPECIFICATION DecoderSpec
INVARIANTS
  TypeOK
  Restored
  CrashCause
  UnsolvedShows
  FewLossesRestored
PROPERTIES
  OnlyLostFilled
  KeepsContract
