SPECIFICATION FairSpec
CONSTANTS
    Size = 2
    Threshold = 2
    EarlyExitCount = 1
    Cap = 1
    MaxChunks = 4
    Streams <- MCStreams
    Chunks <- MCChunks
INVARIANTS
    RoutedByTheRule
    DraftIsWhole
PROPERTIES
    RouteReturns
    DrafterEndsOrIsStuck
\* A request comes to an end.
CHECK_DEADLOCK FALSE
