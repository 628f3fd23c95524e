SPECIFICATION BackupSpec

CONSTANTS
    p1 = p1
    p2 = p2
    None = None
    Outputs <- TwoPoints
    FileCount = 2
    MaxAge = 1
    MaxCaptures = 1
    MaxVersion = 1
    MaxTime = 2

SYMMETRY Symmetry

CHECK_DEADLOCK FALSE

INVARIANT PairIsOneMoment

PROPERTY SilentMeansRecovered
