\* Every pair of bodies of up to MaxResults results, with or without a hint.
CONSTANTS
  MaxResults = 3
  MaxU64 = 15
  Name = {"a", "b"}
  Value = {1, 2}
  DataFrame <- MCDataFrame
  TrailerFrame <- MCTrailerFrame
  FirstScript <- MCFirst
  SecondScript <- MCSecond
  Hints = {"none", "exact"}
SPECIFICATION Spec
INVARIANTS
  HintsAreSound
PROPERTIES
  ImplementsStream
  Finishes
