\* What the experiments measure and draw.
CONSTANTS
    MaxPts = 5
    MaxConns = 2
    MaxRows = 3
    MaxPoints = 4
    Times <- MCTimes
    Durations <- MCDurations
    Gateways = 3
SPECIFICATION ExperimentsSpec
CONSTRAINT OneSide
INVARIANTS
    ExperimentsTypeOK
    VerdictExact
    QuietMeansContiguous
    ContinuityNeedsSizes
    LossCounted
    DropMarked
    QuantileTrue
    WindowsPartition
    TotalsTrue
CHECK_DEADLOCK FALSE
