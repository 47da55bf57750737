SPECIFICATION Spec
CONSTANTS
    p1 = p1
    Procs = {p1}
    Unlocked = {}
    NTiers = 2
    SizePct <- TwoTierSizes
    Target <- TwoTierTargets
    EntryPrice = 2
    InitialStop = 1
    BreakevenTier = 1
    LockTier = 2
    TrailDistance = 1
    Qty = 3
    MinQty = 1
    Marks = {1, 5}
    ExtraBase = 6
    Operator = {}
    Faults = {"race"}
    TTLAge = 2
    MaxAge = 2
    MaxOrders = 9
    MaxFails = 0
    MaxExpiries = 1
INVARIANTS
    CanceledIsFlat
CHECK_DEADLOCK FALSE
