\* Sender and consumer on two threads: safety and progress.
CONSTANTS
  f1 = f1
  f2 = f2
  Frame = {f1, f2}
  Buffer = 2
  MaxPush = 4
  Preemptive = TRUE
SPECIFICATION Spec
INVARIANTS
  TypeOK
  FrameConservation
  CapacityConserved
  NoLostWakeup
  NoMutualWait
  AbortIsNotEnd
  EndCoversPoll
PROPERTIES
  PendingSendResolves
  AcceptedIsReturned
  SenderGoneIsReported
