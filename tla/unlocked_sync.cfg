SPECIFICATION Spec
CONSTANTS
    p1 = p1
    p2 = p2
    Procs = {p1, p2}
    Unlocked = {p2}
    NTiers = 2
    SizePct <- TwoTierSizes
    Target <- TwoTierTargets
    EntryPrice = 2
    InitialStop = 1
    BreakevenTier = 1
    LockTier = 2
    TrailDistance = 1
    Qty = 3
    MinQty = 1
    Marks = {1, 5}
    ExtraBase = 6
    Operator = {}
    Faults = {"race"}
    TTLAge = 2
    MaxAge = 2
    MaxOrders = 6
    MaxFails = 0
    MaxExpiries = 0
INVARIANTS
    TierSoldAtMostOnce
CHECK_DEADLOCK FALSE
