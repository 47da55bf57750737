SPECIFICATION ProcessSpec
CONSTANTS
    r1 = r1
    r2 = r2
    Runners = {r1, r2}
    StaleAfter = 2
    Interval = 2
    Backoff = 1
    MaxBackoff = 3
    Durations = {2, Unlimited}
    MaxFailures = 3
    Unlimited = Unlimited
    NoLock = NoLock
INVARIANTS
    SingleRunner
