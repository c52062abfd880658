SPECIFICATION Spec
CONSTANTS
    Hook = {h1, h2}
    Operator = {o1}
    Nobody = Nobody
    MaxHead = 1
SYMMETRY Symmetry
INVARIANTS
    FreshIsExact
    OneAnalyzer
    
    
CHECK_DEADLOCK FALSE
