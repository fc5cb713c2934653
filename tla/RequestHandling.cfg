\* Two connections, a store of two events, one failing write of the log.  A
\* server that has answered everything stops here, hence CHECK_DEADLOCK.
SPECIFICATION FairSpec
CONSTANTS
    c1 = c1
    c2 = c2
    Threads <- MCThreads
    RequestsOf <- MCRequestsOf
    Limit = 2
    MaxLogFaults = 1
INVARIANTS
    TypeOK
    AnswerIsTrue
    LogIsTrue
    StoreIsWindow
PROPERTIES
    EveryRequestEnds
CHECK_DEADLOCK FALSE
