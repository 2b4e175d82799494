SPECIFICATION FairSpec
CONSTANTS
  c1 = c1
  c2 = c2
  p1 = p1
  p2 = p2
  r1 = r1
  r2 = r2
  Proc = {p1, p2}
  Chat = {c1}
  Reply = {r1, r2}
  chatOf <- OneChat
  sendAt <- MCSendAt
  None = None
  MaxScheduled = 2
  MaxRevision <- Restarts
  MaxTime = 2
  MaxFaults = 1
INVARIANTS OneOwner StatusTellsTruth OneDeliveryPerChat
PROPERTIES NeverOvertaken DueIsTakenUp
CHECK_DEADLOCK FALSE
