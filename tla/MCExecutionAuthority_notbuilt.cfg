SPECIFICATION Spec
CONSTANTS
    b1 = b1
    b2 = b2
    a1 = a1
    a2 = a2
    w1 = w1
    w2 = w2
    ag = ag
    None = None
    Builds <- OneBuild
    Attempts <- TwoAttempts
    LocalWorkers <- TwoWorkers
    Agents <- OneAgent
    Results = {"success", "not_built"}
    AttemptLimits = {1, 2}
    LeaseTerm = 1
    MaxFence = 2
    MaxEpoch = 1
SYMMETRY Symmetry
CHECK_DEADLOCK FALSE
PROPERTY NoCancellationAfterTerminal
