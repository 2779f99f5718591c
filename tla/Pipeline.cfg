\* A Channel behind Fuse, WithTrailers or both, on one thread and on several.
CONSTANTS
  data = data
  trailers = trailers
  Late = late
  Frame = {data, trailers}
  TrailerFrame = {trailers}
  Buffer = 2
  MaxPush = 4
  Preemptive = TRUE
  Stacks <- MCStacks
SPECIFICATION StackSpec
INVARIANTS
  NothingLostInStack
  StackNoLostWakeup
  StackNoMutualWait
  EndOfStackIsWhole
  FailureOfStackIsNotEnd
  FuseIsFinal
PROPERTIES
  PendingSendResolves
  StackFinishes
