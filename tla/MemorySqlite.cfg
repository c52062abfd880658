SPECIFICATION Spec
CONSTANTS
    p1 = p1
    p2 = p2
    memo = memo
    v1 = v1
    v2 = v2
    k1 = k1
    k2 = k2
    k3 = k3
    None = None
    Process = {p1, p2}
    Record = {memo}
    Version = {v1, v2}
    Key = {k1, k2, k3}
    Authorities <- MCAuthorities
    MaxTime = 1
INVARIANTS
    StoreIsHistory
    ReceiptsTruthful
PROPERTIES
    ImplementsLog
SYMMETRY Symmetry
