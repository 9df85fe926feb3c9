SPECIFICATION FairSpec
CONSTANTS
    Size = 2
    Threshold = 2
    EarlyExitCount = 1
    SoftThreshold = 1
    Cap = 1
    MaxChunks = 3
    Streams <- MCStreams
    Chunks <- MCChunks
INVARIANTS
    HeavyHasOneOwner
    AtMostOneHeavy
    HeadStartIsWhole
    SpeculationIsAccounted
    AcceptedDraftIsWhole
    AcceptedDraftIsCold
PROPERTIES
    RoutesLikeTheRouter
    ExecuteReturns
    DrafterEndsOrIsStuck
    ReleasedHeavyEnds
    ImplementsLifecycle
\* A request comes to an end.
CHECK_DEADLOCK FALSE
