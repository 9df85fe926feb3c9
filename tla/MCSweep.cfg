\* The threshold sweep over small files.
CONSTANTS
    Inputs <- MCInputs
    Sweeps <- MCSweeps
    Categories = {"facts", "code"}
    Size = 2
    EarlyExitCount = 1
    MaxLines = 3

SPECIFICATION SweepSpec

INVARIANTS
    SweepTypeOK
    StatsAreReference
    EscalationFallsWithThreshold
    SelectedIsBest

\* The sweep ends.
CHECK_DEADLOCK FALSE
