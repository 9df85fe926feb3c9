SPECIFICATION FairSpec
CONSTANTS
    p1 = p1
    p2 = p2
    p3 = p3
    Prompts <- MCPrompts
    Dataset <- MCDataset
    Concurrency = 2
    Retries = 1
    MaxRuns = 3
INVARIANTS
    WorkersAreBounded
    OneRecordEach
    RunIsComplete
PROPERTIES
    RunEnds
\* The runs come to an end.
CHECK_DEADLOCK FALSE
