SPECIFICATION AgentsSpec
CONSTANTS
    MaxPositions = 1
    MaxBuys = 2
    IntervalPolls = 3
    TickPolls = 2
    r1 = r1
    r2 = r2
    Runners = {r1, r2}
    StaleAfter = 1
    Interval = 1
    Backoff = 2
    MaxBackoff = 3
    Durations = {2, Unlimited}
    MaxFailures = 2
    Unlimited = Unlimited
    NoLock = NoLock
    s1 = s1
    s2 = s2
    Symbols = {s1, s2}
    MaxOpen = 2
    CorrelatedCap = 5
    MinNotional = 2
    Sizes = {2, 4}
    Attempts = 2
INVARIANTS
    AgentsTypeOK
    HeldCanResume
    SafeBoundary
    NoLockLeft
    
    StatusSettled
PROPERTIES
    OpensBelowCap
    StopEnds
    WatchedUnlessHeld
    StopObeyed
    HeldReviewed
CHECK_DEADLOCK FALSE
