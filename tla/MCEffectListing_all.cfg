SPECIFICATION Spec
CONSTANTS
    Effects = {1, 2, 3}
    Classifiers = {k1, k2}
    PageLimit = 1
    ChunkSize = 2
    MaxSeq = 3
    MaxBackups = 2
    MaxRestores = 2
    None = None
SYMMETRY Sessions
INVARIANTS
    CursorHidesNothing
PROPERTY WalkIsComplete
