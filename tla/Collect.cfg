\* Every body of up to MaxResults results, read in every way.
CONSTANTS
  MaxResults = 4
  MaxU64 = 15
  Name = {"a", "b"}
  Value = {1, 2}
  DataFrame <- MCDataFrame
  TrailerFrame <- MCTrailerFrame
  Script <- MCScript
SPECIFICATION Spec
INVARIANTS
  BytesConserved
  ChunkShowsProgress
  TrailersConserved
  FailureIsNotEnd
PROPERTIES
  Resolves
