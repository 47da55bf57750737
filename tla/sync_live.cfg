SPECIFICATION FairSpec
CONSTANTS
    p1 = p1
    Procs = {p1}
    Unlocked = {}
    NTiers = 1
    SizePct <- OneTierSize
    Target <- OneTierTarget
    EntryPrice = 2
    InitialStop = 1
    BreakevenTier = 1
    LockTier = 2
    TrailDistance = 1
    Qty = 3
    MinQty = 2
    Marks = {1}
    ExtraBase = 1
    Operator = {}
    Faults = {"malformed", "partial"}
    TTLAge = 2
    MaxAge = 2
    MaxOrders = 6
    MaxFails = 1
    MaxExpiries = 1
PROPERTIES
    SubmitResolved
    FilledEntryManaged
CHECK_DEADLOCK FALSE
