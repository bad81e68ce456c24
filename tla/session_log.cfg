SPECIFICATION Spec
CONSTANTS
    Handles = {h1, h2}
    MaxEntries = 3
    MaxRecords = 5
INVARIANTS
    LoadsAccepted
    Recoverable
    HandleFollowsLog
    SingleWriter
PROPERTY StorePromise
