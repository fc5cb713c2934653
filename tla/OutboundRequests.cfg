\* Two calls at the default of two retries, with any server and network, which
\* may never answer.
SPECIFICATION FairSpec
CONSTANTS
    Calls = {c1, c2}
    MaxRetries = 2
INVARIANTS
    TypeOK
    ReportIsHonest
PROPERTIES
    EveryCallEnds
CHECK_DEADLOCK FALSE
