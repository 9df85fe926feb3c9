SPECIFICATION MCSpec
CONSTANTS
    Size = 3
    Thresholds = {1, 2}
    EarlyExitCount = 2
    Entropies <- MCEntropies
    MaxTokens = 7
INVARIANTS
    SumIsOfLastEntropies
    DecisionsAreReference
    RingHoldsRecent
    QuietMeansCold
