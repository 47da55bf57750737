SPECIFICATION Spec
CONSTANTS
    s1 = s1
    s2 = s2
    s3 = s3
    o1 = o1
    o2 = o2
    o3 = o3
    Orders = {o1, o2, o3}
    Symbols = {s1, s2, s3}
    MaxOpenPositions = 2
    MaxCorrelatedNotional = 0
    CapitalBudget = 6
    LossPct = 5
    RiskPct = 3
    Notionals = {2}
    Balance = 5
    Faults = {}
    MaxDecisions = 2
SYMMETRY Symmetry
INVARIANTS
    WithinPositionCap
