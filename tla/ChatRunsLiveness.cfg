SPECIFICATION Spec
CONSTANTS
  Runs = {r1}
  Conversations = {c1}
  Saved = {c1}
  Paths = {"child", "http", "openclaw"}
  None = None
  MaxPending = 1
  MaxSettled = 1
  MaxLaunches = 2
  MaxTails = 2
INVARIANT OpenClawCapped
PROPERTIES StoppedEnds OpenClawEnds
CHECK_DEADLOCK FALSE
