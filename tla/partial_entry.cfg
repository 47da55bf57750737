SPECIFICATION FairSpec
CONSTANTS
    p1 = p1
    Procs = {p1}
    Unlocked = {}
    NTiers = 2
    SizePct <- TwoTierSizes
    Target <- TwoTierTargets
    EntryPrice = 2
    InitialStop = 1
    BreakevenTier = 1
    LockTier = 2
    TrailDistance = 1
    Qty = 3
    MinQty = 1
    Marks = {1, 5}
    ExtraBase = 6
    Operator = {}
    Faults = {"partial"}
    TTLAge = 2
    MaxAge = 2
    MaxOrders = 6
    MaxFails = 0
    MaxExpiries = 1
PROPERTIES
    DeadEntryManaged
CHECK_DEADLOCK FALSE
