\* The gateway process and its restarts around requests, the cache and evictions.
CONSTANTS
    NaN = NaN
    Inf = Inf
    NegInf = NegInf
    Requests = {r1, r2}
    Evictions = {e1}
    Prompts <- MCPrompts
    Similarity <- MCSimilarity
    MinScore = 10
    RawConfigs <- MCRawConfigs
    MaxRuns = 2

SPECIFICATION FairSpec

INVARIANTS
    LoadedConfigFits
    CleanStopAnswersAll
    CachedAnswersAreDrafts

PROPERTY StopEnds

\* After MaxRuns processes nothing is started again.
CHECK_DEADLOCK FALSE
