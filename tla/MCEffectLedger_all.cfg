SPECIFICATION Spec
CONSTANTS
    a1 = a1
    a2 = a2
    w1 = w1
    w2 = w2
    None = None
    Attempts <- OneAttempt
    Owners <- TwoOwners
    MaxFence = 3
    MaxRestores = 2
CHECK_DEADLOCK FALSE
INVARIANTS
    EffectAtMostOnce
    LedgerKnows
    TerminalImpliesConfirmed
PROPERTIES
    AmbiguityIsResolved
