SPECIFICATION FairSpec
CHECK_DEADLOCK FALSE
CONSTANTS
    Steering = {s1}
    FollowUps = {f1}
    Prompt = prompt
    TurnLimited = TRUE
    MaxTurns = 2
    MaxAttempts = 1
    MaxCalls = 1
    CallClasses = {"allow"}
    BatchModes = {"parallel"}
    WithSession = TRUE
    RetryDelay = FALSE
PROPERTIES
    CancelEndsRun
