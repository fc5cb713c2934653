SPECIFICATION Spec
CONSTANTS
    Launches = {l1, l2}
    Templates <- MCTemplates
    Requests <- MCRequests
    Added <- MCAdded
    Rank <- MCRank
    MaxFaults = 1
SYMMETRY Symmetry
INVARIANTS
    TypeOK
    RunsWhatItFound
    TrailIsHonest
\* Every launch may be done.
CHECK_DEADLOCK FALSE
