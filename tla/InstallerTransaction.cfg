SPECIFICATION FairSpec
CONSTANTS
    a = a
    b = b
    v1 = v1
    v2 = v2
    Process = {a, b}
    Version = {v1, v2}
    Want <- MCWant
    Payload <- MCPayload
    NumArtifacts = 2
    NumReceipts = 2
    Absent = Absent
    Mine = Mine
    MaxEdits = 1
    MaxFaults = 1
INVARIANTS
    AllOrNothing
    ReceiptNeverAhead
PROPERTIES
    NothingDestroyed
    LockFreed
CHECK_DEADLOCK FALSE
