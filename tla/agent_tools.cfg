SPECIFICATION Spec
CHECK_DEADLOCK FALSE
CONSTANTS
    Steering = {s1}
    FollowUps = {}
    Prompt = prompt
    TurnLimited = TRUE
    MaxTurns = 2
    MaxAttempts = 1
    MaxCalls = 2
    CallClasses = {"rejected", "invalid", "allow", "ask", "deny"}
    BatchModes = {"parallel", "sequential"}
    WithSession = TRUE
    RetryDelay = FALSE
INVARIANTS
    RequestWellFormed
    SessionFollowsHistory
    OneDecisionPerCall
    EffectsAuthorised
    TerminalQuiescent
