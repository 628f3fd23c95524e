SPECIFICATION Spec
CONSTANTS
    c1 = c1
    c2 = c2
    o1 = o1
    o2 = o2
    a1 = a1
    a2 = a2
    a3 = a3
    None = None
    Controllers <- TwoControllers
    Operators <- TwoOperators
    Attempts <- ThreeAttempts
    MaxFiles = 3
SYMMETRY Symmetry
CHECK_DEADLOCK FALSE
INVARIANTS
    WritersAreMarked
    ReadyIsTrue
    InitLeavesAllOrNothing
PROPERTIES
    ClearsAreAccountedFor
    RecoveryFollowsExtinction
