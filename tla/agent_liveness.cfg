SPECIFICATION FairSpec
CHECK_DEADLOCK FALSE
CONSTANTS
    Steering = {s1}
    FollowUps = {f1}
    Prompt = prompt
    TurnLimited = TRUE
    MaxTurns = 3
    MaxAttempts = 2
    MaxCalls = 1
    CallClasses = {"ask", "allow"}
    BatchModes = {"parallel"}
    WithSession = TRUE
    RetryDelay = FALSE
PROPERTIES
    WorkShrinks
    RunEnds
    CancelHonoured
