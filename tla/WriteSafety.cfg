SPECIFICATION FairSpec
CONSTANTS
    p1 = p1
    p2 = p2
    r1 = r1
    r2 = r2
    Process <- MCProcess
    Request <- TwoRequests
    NoRequest = NoRequest
    Free = Free
    Orphan = Orphan
    Deadline <- Deadline2
    MaxTime = 1
INVARIANTS
    OneWriter
    HistoryIntact
    AppliedIsDurable
    RepliesAreTruthful
PROPERTIES
    NoLostUpdate
    ImplementsLog
    InvocationsEnd
    LockFreed
