SPECIFICATION ReaperSpec

CONSTANTS
    p1 = p1
    p2 = p2
    p3 = p3
    exit0 = exit0
    exit1 = exit1
    Wrapper = wrapper
    Refused = exit125
    Success = exit0
    Pids <- ThreePids
    Statuses <- TwoStatuses

INVARIANTS
    StatusIsKept
    QuietMeansExtinct

PROPERTY WrapperEnds

CHECK_DEADLOCK FALSE
