SPECIFICATION Spec
CONSTANTS
  Requests = {r1, r2, r3, r4}
  None = None
  Window = 2
  MaxTime = 4
  MaxJumps = 1
SYMMETRY RequestSymmetry
INVARIANT SingleFlight
PROPERTY WindowKept
CHECK_DEADLOCK FALSE
