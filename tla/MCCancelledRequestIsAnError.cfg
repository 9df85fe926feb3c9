SPECIFICATION Spec
CONSTANTS
    Size = 2
    Threshold = 2
    EarlyExitCount = 1
    SoftThreshold = 1
    Cap = 1
    MaxChunks = 3
    Streams <- MCStreams
    Chunks <- MCChunks
INVARIANT
    CancelledRequestIsAnError
\* A request comes to an end.
CHECK_DEADLOCK FALSE
