SPECIFICATION Spec
CONSTANTS
    Handles = {h1}
    MaxEntries = 2
    MaxRecords = 4
INVARIANT ClosedSessionsResume
