CONSTANTS
    MaxRetries = 1
    RequestTimeout = 1
    Statuses <- MC_Statuses
    RetryAfterValues <- MC_RetryAfterValues
    NoHeader = NoHeader
    Latencies <- MC_Latencies
    NoBody = NoBody
    Timeout = 3
    PollInterval = 1
SPECIFICATION Spec
VIEW ElapsedView
\* quick_run_docker returns or raises, and the model stops there.
CHECK_DEADLOCK FALSE
INVARIANTS
    TypeOK
    ResultOnlyOfCompleted
PROPERTIES
    QuickRunEnds
