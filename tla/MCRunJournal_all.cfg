SPECIFICATION Spec
CONSTANTS
    Definitions = {d1, d2}
    Trees = {w1, w2}
    StageOf <- TwoStages
    AlwaysSteps = {3}
    Outcomes = {"success", "unstable", "failure", "aborted"}
    MaxFaults = 3
    None = None
SYMMETRY Inputs
INVARIANTS
    ExecutedAtMostOnce
    OneBuild
    EffectsSurvive
    
    EventsAreDurable
