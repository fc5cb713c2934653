\* One onboarding (two share nothing), two requests at a time of three to its
\* task, two failing saves and a crash.
SPECIFICATION OSpec
CONSTANTS
    Threads = {t1}
    Instances = {i1}
    Editors = {a1, a2}
    N = 6
    Reversible = {2, 3, 4, 6}
    NoInstance = NoInstance
    NoRecord = NoRecord
    NoEntity = NoEntity
    MaxRuns = 1
    MaxFaults = 2
    MaxCrashes = 1
    MaxEdits = 3
SYMMETRY Symmetry
INVARIANTS
    OTypeOK
    FailedLeavesNothing
    LinksAreHonest
PROPERTIES
    ImplementsEngine
CHECK_DEADLOCK FALSE
