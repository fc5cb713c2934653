\* Two threads, one client, two executions (one may retry the other), a failing
\* save and a crash.  When both executions are over nothing need happen.
SPECIFICATION CSpec
CONSTANTS
    Threads = {t1, t2}
    Clients = {c1}
    Executions = {e1, e2}
    NoThread = NoThread
    NoClient = NoClient
    NoExecution = NoExecution
    NoRecord = NoRecord
    NoState = NoState
    NoCommand = NoCommand
    NoRow = NoRow
    MaxFaults = 1
    MaxCrashes = 1
SYMMETRY Symmetry
INVARIANTS
    CTypeOK
    AdmittedInTime
    MonitorAgrees
PROPERTIES
    ImplementsExecution
CHECK_DEADLOCK FALSE
