SPECIFICATION Spec
CONSTANTS
    Cap = 2
    MaxChunks = 5
    Streams <- MCStreams
    Chunks <- MCChunks
INVARIANT
    EveryRequestIsCounted
\* A request comes to an end.
CHECK_DEADLOCK FALSE
