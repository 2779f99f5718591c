\* Sender and consumer on one thread: the Channel is a FrameStream.
CONSTANTS
  f1 = f1
  f2 = f2
  Frame = {f1, f2}
  Buffer = 2
  MaxPush = 4
  Preemptive = FALSE
SPECIFICATION Spec
PROPERTY ImplementsStream
