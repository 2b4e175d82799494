SPECIFICATION Spec
CONSTANTS
  Topics = {board, sessions}
  Modes = {"off", "shadow", "primary"}
  None = None
  RingLimit = 1
  BufferLimit = 1
  MaxWrites = 3
  MaxRestarts = 1
  MaxCuts = 1
  MaxToggles = 3
SYMMETRY TopicSymmetry
INVARIANTS NothingLost HeldIsScheduled NeverRefused
CHECK_DEADLOCK FALSE
