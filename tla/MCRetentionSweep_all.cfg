SPECIFICATION Spec

CONSTANTS
    b1 = b1
    b2 = b2
    None = None
    Builds <- TwoBuilds
    FileCount = 2
    LogCount = 1
    MaxCandidates = 2
    MaxEntries = 3
    MaxOperations = 2
    KeepBuilds = 1
    MaxFaults = 2

INVARIANT EvidenceIsWholeOrExpired

PROPERTIES
    OnlyTheIntendedIsUnlinked
    SelectedIsSettled
