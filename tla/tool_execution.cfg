SPECIFICATION Spec
CONSTANTS
    MaxCalls = 2
    Interference = TRUE
INVARIANTS
    SequentialEffect
    ResultTellsEffect
    PlanChangesNothing
    Contained
    EffectAsDecided
    NothingLeftBehind
    DecisionsReplay
CHECK_DEADLOCK FALSE
