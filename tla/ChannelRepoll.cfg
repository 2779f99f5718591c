\* Violated: see the findings.
CONSTANTS
  f1 = f1
  f2 = f2
  Frame = {f1, f2}
  Buffer = 2
  MaxPush = 4
  Preemptive = TRUE
SYMMETRY FrameSymmetry
SPECIFICATION Spec
INVARIANT EndIsRepeatable
