SPECIFICATION Spec
CHECK_DEADLOCK FALSE
CONSTANTS
    Steering = {s1}
    FollowUps = {}
    Prompt = prompt
    TurnLimited = TRUE
    MaxTurns = 2
    MaxAttempts = 1
    MaxCalls = 2
    CallClasses = {"allow"}
    BatchModes = {"parallel"}
    WithSession = TRUE
    RetryDelay = FALSE
INVARIANTS
    ResultsKeepCallOrder
