SPECIFICATION FairSpec
CONSTANTS
  Pairing = {r1, r2, r3}
  Serial = {1, 2}
  MaxEntries = 2
  Ttl = 1
  MaxTime = 1
  MaxFaults = 1
  MaxQueued = 2
INVARIANTS OneCredentialPerApproval ApprovalKept MapsBounded
PROPERTIES NothingUndone ApprovalIsHonoured
CHECK_DEADLOCK FALSE
