SPECIFICATION Spec
CONSTANTS
    Runners = {r1, r2}
    Plans = {p1, p2}
    Accounts = {1, 2}
    MaxPriority = 2
    BatchSize = 1
    MaximumRetries = 1
    SessionMayBeLost = TRUE
    RequestsMayBeLate = FALSE
    MaxFaults = 1
    NoRunner = NoRunner
    NoPlan = NoPlan
INVARIANT WritersExcludeEachOther
