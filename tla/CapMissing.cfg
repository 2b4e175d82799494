SPECIFICATION Spec
CONSTANTS
  Runs = {r1}
  Conversations = {c1}
  Saved = {c1}
  Paths = {"child"}
  None = None
  MaxPending = 1
  MaxSettled = 1
  MaxLaunches = 2
  MaxTails = 1
INVARIANT UnwatchedIsCapped
CHECK_DEADLOCK FALSE
