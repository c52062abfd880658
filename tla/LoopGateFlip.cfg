SPECIFICATION Spec
CONSTANTS
    t1 = t1
    t2 = t2
    worker = worker
    maintainer = maintainer
    release = release
    Nobody = Nobody
    NoGate = NoGate
    Task <- GatedTask
    Agent <- MCAgent
    Gate <- GatedGate
    Deps <- GatedDeps
    NeedsReview <- GatedTask
    GateOf <- GatedGateOf
    Start <- GatedStart
    Role <- MCRole
    Offers <- GatedOffers
    GateOffers <- AllGateOffers
    Skew = 1
    MaxTime = 1
    MaxGen = 1
    MaxHead = 0
    MaxRevision = 8
INVARIANTS
    GatesSettledAtCompletion
CHECK_DEADLOCK FALSE
VIEW View
