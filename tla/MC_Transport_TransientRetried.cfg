CONSTANTS
    MaxRetries = 3
    RequestTimeout = 1
    Statuses <- MC_Statuses
    RetryAfterValues <- MC_RetryAfterValues
    NoHeader = NoHeader
    Latencies <- MC_Latencies
    Bodies <- MC_Bodies
    NoBody = NoBody
INIT TInit
NEXT TNext
CONSTRAINT TimeBound
INVARIANT
    TransientRetried
