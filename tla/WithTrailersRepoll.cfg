\* Violated: see the findings.
CONSTANTS
  MaxResults = 2
  MaxU64 = 15
  Name = {"a", "b"}
  Value = {1, 2}
  DataFrame <- MCDataFrame
  TrailerFrame <- MCTrailerFrame
  Script <- MCScript
  Future <- MCFuture
  Hints = {"none"}
SPECIFICATION Spec
INVARIANT EndIsRepeatable
