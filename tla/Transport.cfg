SPECIFICATION Spec
CONSTANTS
    h1 = h1
    h2 = h2
    Handlers = {h1}
    MaxCommands = 2
    MaxFailures = 1
    MaxPauses = 0
    MaxRestarts = 1
CHECK_DEADLOCK FALSE
INVARIANTS
    TypeOK
    StraySessionEnds
    DisconnectHolds
    SessionServesIntent
    LanParksIdle
