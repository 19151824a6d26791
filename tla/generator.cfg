CONSTANTS
  Seeds <- MCSeeds
  Shapes <- MCShapes

SPECIFICATION Spec

INVARIANTS
  TypeOK
  MatchesVector
PROPERTIES
  StreamSpec
