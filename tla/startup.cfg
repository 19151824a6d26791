CONSTANTS
  CommandLines <- SomeCommandLines
  Byte = 8
  Names = {"a", "b"}
  DotListings <- SomeDotListings
  Modulus = 32
  MaxChanges = 3
SPECIFICATION Spec
INVARIANTS
  TypeOK
  ThreadCount
  StreamChosen
  OverrunBounded
  GapBounded
  FilledInOrder
  UntouchedComplete
  PoolReady
