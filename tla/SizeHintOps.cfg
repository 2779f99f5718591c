\* Two variables and every sequence of calls on bounds from 0 to MaxU64.
CONSTANTS
  MaxU64 = 5
  Reg = {r1, r2}
SPECIFICATION Spec
SYMMETRY RegSymmetry
INVARIANTS
  Ordered
  AddsPerfectly
