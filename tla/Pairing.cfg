CONSTANTS
    r1 = r1
    r2 = r2
    r3 = r3
    Requests = {r1, r2}
    u1 = u1
    u2 = u2
    Users = {u1, u2}
    None = None
    MaxOps = 3
SPECIFICATION FairSpec
CHECK_DEADLOCK FALSE
INVARIANTS
    PasskeyIsOwn
    AcceptedIsUsed
    ShownIsAlive
PROPERTIES
    PlaceIsFreed
