CONSTANTS
    i1 = i1
    i2 = i2
    Ids = {i1, i2}
    s1 = s1
    s2 = s2
    Slots = {s1}
    u1 = u1
    u2 = u2
    Users = {u1, u2}
    None = None
    Torn = Torn
    MaxSources = 1
    TriggerCap = 1
    Crossing = FALSE
    MaxOps = 3
    MaxLogins = 1
    MaxRotations = 2
    MaxFaults = 1
SPECIFICATION Spec
CHECK_DEADLOCK FALSE
SYMMETRY MCSymmetry
INVARIANTS
    
    TokenIsCurrent
    
