\* Two threads, two clients, two executions, two failing saves and a crash:
\* safety, the lifecycle and progress.
SPECIFICATION FairSpec
CONSTANTS
    Threads = {t1, t2}
    Clients = {c1, c2}
    Executions = {e1, e2}
    NoThread = NoThread
    NoClient = NoClient
    NoExecution = NoExecution
    NoRecord = NoRecord
    NoState = NoState
    MaxFaults = 2
    MaxCrashes = 1
INVARIANTS
    TypeOK
    OpenIsHeld
    RecordsAreHonest
PROPERTIES
    EveryExecutionEnds
    ImplementsLifecycle
CHECK_DEADLOCK FALSE
