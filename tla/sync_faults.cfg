SPECIFICATION Spec
CONSTANTS
    p1 = p1
    p2 = p2
    Procs = {p1, p2}
    Unlocked = {}
    NTiers = 2
    SizePct <- SoldOutSizes
    Target <- TwoTierTargets
    EntryPrice = 2
    InitialStop = 1
    BreakevenTier = 1
    LockTier = 2
    TrailDistance = 1
    Qty = 2
    MinQty = 1
    Marks = {1}
    ExtraBase = 1
    Operator = {"close"}
    Faults = {"race", "cancel", "malformed", "trades", "partial"}
    TTLAge = 2
    MaxAge = 2
    MaxOrders = 5
    MaxFails = 1
    MaxExpiries = 1
SYMMETRY Symmetry
INVARIANTS
    TypeOK
    TierSoldAtMostOnce
    LiveEntryTracked
    BankedTierSold
    BankedTierLocksStop
PROPERTIES
    FinalRowFrozen
    StopOnlyRises
    RefinesLifecycle
CHECK_DEADLOCK FALSE
