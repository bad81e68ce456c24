SPECIFICATION Spec
CONSTANTS
    MaxInterrupts = 4
INVARIANTS
    JudgedAtRest
    ExitTellsManifest
    LeftoverExplained
    ReleasedOrRecorded
PROPERTIES
    Returns
CHECK_DEADLOCK FALSE
