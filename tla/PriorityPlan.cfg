SPECIFICATION Spec
CONSTANTS
    Runners = {r1, r2}
    Plans = {p1, p2}
    Accounts = {1, 2}
    MaxPriority = 3
    BatchSize = 1
    MaximumRetries = 1
    SessionMayBeLost = FALSE
    RequestsMayBeLate = FALSE
    MaxFaults = 2
    NoRunner = NoRunner
    NoPlan = NoPlan
INVARIANTS
    ExecutingOwnsLock
    RiskReductionFirst
PROPERTIES
    SettledByItsRun
    FinalStatusStays
    AppliedMeansInForce
