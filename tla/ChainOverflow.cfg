\* Violated: see the findings.
CONSTANTS
  MaxResults = 1
  MaxU64 = 15
  Name = {"a", "b"}
  Value = {1, 2}
  DataFrame <- MCDataFrame
  TrailerFrame <- MCTrailerFrame
  FirstScript <- MCFirst
  SecondScript <- MCSecond
  Hints = {"max", "exact"}
SPECIFICATION Spec
INVARIANT HintsAreSound
