CONSTANTS
  N = 3
  Elem <- GF4
  Zero = 0
  One = 1
  Add <- AddGF4
  Mul <- MulGF4
  Inv <- InvGF4
  Matrices <- SomeMatrices
  Unknowns <- SomeUnknowns
SPECIFICATION Spec
INVARIANTS
  TypeOK
  SolutionKept
  Solved
  ZeroedStaysLost
  AsFunction
