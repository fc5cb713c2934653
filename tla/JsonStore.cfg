\* Two threads on a store of two records, one crash: safety, refinement, progress.
SPECIFICATION FairSpec
CONSTANTS
    Threads = {t1, t2}
    Keys = {k1, k2}
    Values = {v1}
    NoRecord = NoRecord
    NoCall = NoCall
    NoThread = NoThread
    NoFile = NoFile
    Partial = Partial
    MaxCrashes = 1
INVARIANTS
    TypeOK
PROPERTIES
    LockIsReleased
    ImplementsAtomicMap
