SPECIFICATION Spec
CONSTANTS
    MaxAttempts = 2
    Byte = {0, 1, 2}
    Outputs <- SmallOutputs
    NewLine = 0
    MaxFrameBytes = 1
    ByteBudget = 4
    FrameBudget = 2
    PageLimit = 2
    Oversized = Oversized
    Diagnostic = Diagnostic
CHECK_DEADLOCK FALSE
INVARIANTS
    LogFollowsStream
    TerminalHasWholeLog
    CursorMissesNothing
