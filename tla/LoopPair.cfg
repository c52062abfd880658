SPECIFICATION Spec
CONSTANTS
    t1 = t1
    t2 = t2
    worker = worker
    maintainer = maintainer
    release = release
    Nobody = Nobody
    NoGate = NoGate
    Task <- PairTask
    Agent <- MCAgent
    Gate <- NoTask
    Deps <- PairDeps
    NeedsReview <- NoTask
    GateOf <- PairGateOf
    Start <- PairStart
    Role <- MCRole
    Offers <- PairOffers
    GateOffers <- AllGateOffers
    Skew = 1
    MaxTime = 2
    MaxGen = 2
    MaxHead = 1
    MaxRevision = 4
INVARIANTS
    WorkIsFenced
    ExpiredAfterDeadline
    RevocationAlwaysPossible
    RebindAlwaysPossible
PROPERTIES
    FencesGrow
    ImplementsBoard
CHECK_DEADLOCK FALSE
VIEW View
