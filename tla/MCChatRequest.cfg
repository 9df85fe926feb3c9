SPECIFICATION FairSpec
CONSTANTS
    Cap = 2
    MaxChunks = 5
    Streams <- MCStreams
    Chunks <- MCChunks
INVARIANTS
    AnswerIsWhole
    RecordsAgree
PROPERTIES
    ImplementsExchange
    HandlerReturns
    HeavyEndsOrIsStuck
\* A request comes to an end.
CHECK_DEADLOCK FALSE
