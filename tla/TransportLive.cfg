SPECIFICATION FairSpec
CONSTANTS
    h1 = h1
    h2 = h2
    Handlers = {h1}
    MaxCommands = 1
    MaxFailures = 1
    MaxPauses = 1
    MaxRestarts = 0
CHECK_DEADLOCK FALSE
PROPERTIES
    IdleDisconnects
    PauseDisconnects
    LanAutoConnects
