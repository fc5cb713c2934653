\* Two requests on two threads: one may be billed under the lock while another
\* logs its steps; any two records may raise, and the process may die.
SPECIFICATION FairSpec
CONSTANTS
    Threads = {t1, t2}
    Requests = {r1, r2}
    NoRequest = NoRequest
    NoThread = NoThread
    NoCounters = NoCounters
    MaxSteps = 2
    MaxCalls = 2
    MaxLosses = 2
    MaxCrashes = 1
INVARIANTS
    TypeOK
    BilledHonestly
PROPERTIES
    LockIsReleased
CHECK_DEADLOCK FALSE
