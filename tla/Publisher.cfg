CONSTANTS
    K1 = K1
    K2 = K2
    V1 = V1
    V2 = V2
    None = None
    Keys = {K1, K2}
    Values = {V1}
    Volatile = {K1}
    StoreLimit = 1
    QueueCap = 1
    SignalCap = 1
    MaxSessions = 1
    MaxEdits = 1
    MaxRestarts = 1
SPECIFICATION Spec
INVARIANTS
    TypeOK
    DeletionIsOwed
    DisabledIsWithdrawn
