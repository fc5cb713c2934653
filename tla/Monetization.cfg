\* A client is created while two threads race for the limits of its plan: the
\* totals allow for a record more than the limits do.
SPECIFICATION Spec
CONSTANTS
    Threads = {t1, t2}
    Clients = {c1}
    Plans = {"basic", "pro"}
    Basic = "basic"
    Limit <- SmallLimits
    Rate <- SmallRates
    Access = {"pro"}
    MaxUnits = 2
    MaxTotal = 5
    NoClient = NoClient
    NoPlan = NoPlan
    MaxFaults = 2
    MaxCrashes = 1
SYMMETRY Symmetry
INVARIANTS
    TypeOK
    CreateKeepsItsWord
PROPERTIES
    LimitsHold
CHECK_DEADLOCK FALSE
