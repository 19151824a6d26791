CONSTANTS
  N = 2
  Elem <- GF4
  Zero = 0
  One = 1
  Add <- AddGF4
  Mul <- MulGF4
  Inv <- InvGF4
  Matrices <- PivotsNotZero
  Unknowns <- AllUnknowns
SPECIFICATION Spec
INVARIANTS
  Resolves
