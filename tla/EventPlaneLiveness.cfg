SPECIFICATION Spec
CONSTANTS
  Topics = {board}
  Modes = {"off", "shadow", "primary"}
  None = None
  RingLimit = 1
  BufferLimit = 1
  MaxWrites = 2
  MaxRestarts = 1
  MaxCuts = 1
  MaxToggles = 3
PROPERTIES OwedDelivered ListenedBecomesReady
CHECK_DEADLOCK FALSE
