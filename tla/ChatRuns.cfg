SPECIFICATION Spec
CONSTANTS
  Runs = {r1, r2}
  Conversations = {c1, c2}
  Saved = {c1}
  Paths = {"child", "openclaw"}
  None = None
  MaxPending = 1
  MaxSettled = 1
  MaxLaunches = 2
  MaxTails = 0
SYMMETRY RunSymmetry
INVARIANTS LiveIsReachable LiveIsTailed StopReachesChild AnsweredIsCancelled
CHECK_DEADLOCK FALSE
