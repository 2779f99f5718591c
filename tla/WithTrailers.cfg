\* Every body of up to MaxResults results with every way its future resolves.
CONSTANTS
  MaxResults = 4
  MaxU64 = 15
  Name = {"a", "b"}
  Value = {1, 2}
  DataFrame <- MCDataFrame
  TrailerFrame <- MCTrailerFrame
  Script <- MCScript
  Future <- MCFuture
  Hints = {"none", "exact", "upper"}
SPECIFICATION Spec
INVARIANTS
  HintsAreSound
PROPERTIES
  ImplementsStream
  Finishes
