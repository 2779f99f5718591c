\* Every wrapper over every body of up to MaxResults results: for Fuse those that
\* go on after their end and after an error too.
CONSTANTS
  MaxResults = 3
  MaxU64 = 15
  Name = {"a"}
  Value = {1}
  DataFrame <- MCDataFrame
  TrailerFrame <- MCTrailerFrame
  MapF <- MCMapF
  Script <- MCScript
  Limits = {0, 1, 2, 3, 15}
  Future = {0, 1}
  Hints = {"none", "exact", "upper", "max"}
SPECIFICATION Spec
INVARIANTS
  TypeOK
  HintsAreSound
  ResolvesOnce
PROPERTIES
  LimitIsExact
  ImplementsStream
  NeverPolledAgain
  Finishes
