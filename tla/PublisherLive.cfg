CONSTANTS
    K1 = K1
    K2 = K2
    V1 = V1
    V2 = V2
    None = None
    Keys = {K1}
    Values = {V1, V2}
    Volatile = {K1}
    StoreLimit = 1
    QueueCap = 1
    SignalCap = 1
    MaxSessions = 2
    MaxEdits = 1
    MaxRestarts = 0
SPECIFICATION FairSpec
INVARIANTS
    DedupeSound
PROPERTIES
    EventuallyMirrored
