SPECIFICATION FairCallsSpec
CONSTANTS
    c1 = c1
    c2 = c2
    c3 = c3
    c4 = c4
    p1 = p1
    p2 = p2
    Call = {c1, c2, c3, c4}
    Process = {p1, p2}
    procOf <- MCProcOf
    None = None
INVARIANT OperationsCovered
PROPERTY CallsEnd
CHECK_DEADLOCK FALSE
