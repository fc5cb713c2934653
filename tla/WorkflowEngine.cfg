\* Two threads on one instance of a three-step workflow, run and retried; step 3
\* gives no rollback data.  Safety and progress.
SPECIFICATION FairSpec
CONSTANTS
    Threads = {t1, t2}
    Instances = {i1}
    N = 3
    Reversible = {1, 2}
    NoInstance = NoInstance
    NoRecord = NoRecord
    MaxRuns = 2
    MaxFaults = 2
    MaxCrashes = 1
INVARIANTS
    TypeOK
    HistoryIsHonest
PROPERTIES
    UndoInReverse
    EventuallySettles
CHECK_DEADLOCK FALSE
