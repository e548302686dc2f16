SPECIFICATION Spec
CONSTANTS
    Calls = {c1, c2, c3}
    Keys = {k1, k2}
    CacheMax = 1
    MaxVersion = 1
    NoCall = NoCall
    Unissued = Unissued
    Pending = Pending
    Rejected = Rejected
SYMMETRY Symmetry
INVARIANTS
    NoLostWaiter
    OneReadPerKey
    OneOperationPerConnection
PROPERTIES
    CacheNeverGoesBack
    ManualFirst
    ImplementsService
CHECK_DEADLOCK FALSE
