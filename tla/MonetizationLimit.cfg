\* Two threads track usage at the same time.
SPECIFICATION Spec
CONSTANTS
    Threads = {t1, t2}
    Clients = {c1}
    Plans = {"basic", "pro"}
    Basic = "basic"
    Limit <- SmallLimits
    Rate <- SmallRates
    Access = {"pro"}
    MaxUnits = 2
    MaxTotal = 5
    NoClient = NoClient
    NoPlan = NoPlan
    MaxFaults = 2
    MaxCrashes = 1
SYMMETRY Symmetry
INVARIANTS
    LimitIsEnforced
CHECK_DEADLOCK FALSE
