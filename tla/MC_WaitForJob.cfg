CONSTANTS
    MaxRetries = 2
    RequestTimeout = 1
    Statuses <- MC_Statuses
    RetryAfterValues <- MC_RetryAfterValues
    NoHeader = NoHeader
    Latencies <- MC_Latencies
    NoBody = NoBody
    Timeout = 4
    PollInterval = 1
    HasCallback = TRUE
SPECIFICATION Spec
VIEW ElapsedView
\* wait_for_job returns, raises or times out, and the model stops there.
CHECK_DEADLOCK FALSE
INVARIANTS
    TypeOK
    ReturnedMatchesServer
    CallbackSeesReturned
PROPERTIES
    WaitEnds
    ImplementsJobWait
