CONSTANTS
    i1 = i1
    i2 = i2
    Ids = {i1}
    Kinds = {"cli", "http", "balance"}
    A = A
    B = B
    Scopes = {A, B}
    Configs <- MCConfigs
    u1 = u1
    u2 = u2
    Users = {u1, u2}
    None = None
    Torn = Torn
    Unavailable = Unavailable
    MaxSources = 1
    TriggerCap = 1
    EarlyUsers = FALSE
    MaxOps = 2
    MaxFaults = 1
SPECIFICATION Spec
CHECK_DEADLOCK FALSE
SYMMETRY MCSymmetry
INVARIANTS
    
    StartsUnlessTorn
    
    
    SecretGoesWithConfig
    
