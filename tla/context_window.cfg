SPECIFICATION Spec
CONSTANTS
    Budget = 3
    SummaryBudget = 1
    Summaries = {1, 2}
    BigOutput = 2
    CallIds = {1, 2}
    MaxEntries = 8
    MaxMoves = 2
INVARIANTS
    RequestComplete
    CheckpointsReplay
    SummariesBounded
CHECK_DEADLOCK FALSE
