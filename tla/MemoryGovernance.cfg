SPECIFICATION Spec
CONSTANTS
    Core = {c1, c2}
    Item = {i1}
    Operation = {o1, o2, o3}
    Content = {x}
    Copies = {p, q}
    Nothing = Nothing
    Confirm = 1
    ProofLife = 1
    MaxItems = 1
    MaxVersions = 2
    MaxProofs = 3
    Reserve = 0
    MaxTime = 1
    MaxFaults = 1
SYMMETRY Symmetry
VIEW AnswersView
INVARIANTS
    RootStaysUsable
    CommittedAsConfirmed
    RepliesAreHonest
    AuditsSeeOneState
CHECK_DEADLOCK FALSE
