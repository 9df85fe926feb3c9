SPECIFICATION Spec
CONSTANTS
    Cap = 2
    MaxChunks = 5
    Streams <- MCStreams
    Chunks <- MCChunks
INVARIANT
    TimeoutIs504
\* A request comes to an end.
CHECK_DEADLOCK FALSE
