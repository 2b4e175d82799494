SPECIFICATION FairSpec
CONSTANTS
    a1 = a1
    a2 = a2
    p1 = p1
    p2 = p2
    p3 = p3
    pidA = pidA
    pidB = pidB
    Attempt = {a1, a2}
    Proc = {p1, p2, p3}
    Pid = {pidA, pidB}
    owner <- RecycledOwner
    pidOf <- RecycledPidOf
    rank <- MCRank
    MaxFaults = 2
INVARIANTS
    MutualExclusion
    FirstComeFirstServed
    LiveFilesKept
PROPERTIES
    ImplementsMutex
    WaitersEnter
    FilesRemoved
CHECK_DEADLOCK FALSE
