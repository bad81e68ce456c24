SPECIFICATION Spec
CHECK_DEADLOCK FALSE
CONSTANTS
    Steering = {s1, s2}
    FollowUps = {f1, f2}
    Prompt = prompt
    TurnLimited = TRUE
    MaxTurns = 4
    MaxAttempts = 2
    MaxCalls = 1
    CallClasses = {"allow"}
    BatchModes = {"parallel"}
    WithSession = TRUE
    RetryDelay = TRUE
INVARIANTS
    TypeOK
    MessagesConserved
    SettledServed
    CancelDiscardsMessages
    FollowUpsAtBoundary
PROPERTIES
    SteeringReachesNextTurn
    Contract
