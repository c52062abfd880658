SPECIFICATION Spec
CONSTANTS
    t1 = t1
    t2 = t2
    worker = worker
    maintainer = maintainer
    release = release
    Nobody = Nobody
    NoGate = NoGate
    Task <- GatedTask
    Agent <- MCAgent
    Gate <- NoTask
    Deps <- GatedDeps
    NeedsReview <- GatedTask
    GateOf <- FreeGateOf
    Start <- GatedStart
    Role <- MCRole
    Offers <- HistoryOffers
    GateOffers <- SomeGateOffers
    Skew = 0
    MaxTime = 2
    MaxGen = 2
    MaxHead = 1
    MaxRevision = 5
INVARIANTS
    ResultsCarryLiveFence
    HistoryReplays
    UnexpiredClaimNotReassigned
CHECK_DEADLOCK FALSE
