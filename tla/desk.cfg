SPECIFICATION DeskSpec
CONSTANTS
    MaxAttempts = 3
    Amounts = {0, 1, 2, 3, 5}
    Filters <- McFilters
    NoOffset = NoOffset
    Shapes <- McShapes
    MaxCandles = 6
    Views <- McViews
    Bins = 4
    Tolerance = 1
    MaxZones = 6
    Risk <- McRisk
    Sizing <- McSizing
    SkillTtl = 1
    FreeTtl = 2
    NoPayload = NoPayload
    Orders = {o1}
    EntryPrices = {10, 12}
    ExitPrices = {9, 13}
    FeeAssets = {"quote", "base", "third"}
    NoLesson = NoLesson
    Bars <- McBars
    MaxBars = 6
    Bids <- McBids
    BidLots = 10
    EntryTtl = 1
    ZoneTtl = 3
    ReplayTtl = 2
    FeePct = 1
    Slip = 1
    ExitConfig <- McExits
    None = None
INVARIANTS
    DeskTypeOK
    PlacedAtMostOnce
    SentPassesFilters
    LadderSound
    SizedLadderKept
    EvidenceGrounded
    BookSound
    ReplayFaithful
    LadderBanksStand
CHECK_DEADLOCK FALSE
