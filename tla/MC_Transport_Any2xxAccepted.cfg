CONSTANTS
    MaxRetries = 3
    RequestTimeout = 1
    Statuses <- MC_StatusesNoContent
    RetryAfterValues <- MC_RetryAfterValues
    NoHeader = NoHeader
    Latencies <- MC_Latencies
    Bodies <- MC_Bodies
    NoBody = NoBody
INIT TInit
NEXT TNext
CONSTRAINT TimeBound
INVARIANT
    Any2xxAccepted
