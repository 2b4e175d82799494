SPECIFICATION Spec
CONSTANTS
  Items = {chat, flow}
  Chats = {chat}
  Polls = {p1, p2}
  Targets = {t1, t2}
  None = None
  MaxItems = 2
  MaxEvents = 2
INVARIANTS ReplayedOnce StaleUntilHome
PROPERTIES QueuedIsReplayed StaleEnds
CHECK_DEADLOCK FALSE
