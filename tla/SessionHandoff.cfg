SPECIFICATION FairSpec
CONSTANTS
    Call = {c1, c2}
    r1 = r1
    r2 = r2
    k1 = k1
    Rollover = {r1, r2}
    Checkpoint = {k1}
    Request <- MCRequest
    NoRequest = NoRequest
    MaxEntries = 2
INVARIANTS
    OneSessionPerRollover
    ReceiptsTruthful
    NoTrackedSurvivors
PROPERTIES
    HandoffsEnd
CHECK_DEADLOCK FALSE
