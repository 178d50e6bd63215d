SPECIFICATION FairSpec
CONSTANTS
    a = a
    b = b
    Jobs = {1, 2}
    Keys = {a, b}
    Batches <- MCBatches
    Unmanaged = {a}
    None = None
    Ext = Ext
    MaxAttempts = 2
    MaxZones = 2
    MaxFaults = 1
CHECK_DEADLOCK FALSE
INVARIANTS TablesAreTrue UpsertIsIdempotent
PROPERTIES TasksEnd
