SPECIFICATION Spec
CONSTANTS
    h1 = h1
    h2 = h2
    Handlers = {h1, h2}
    MaxCommands = 2
    MaxFailures = 0
    MaxPauses = 0
    MaxRestarts = 0
SYMMETRY Symmetry
CHECK_DEADLOCK FALSE
INVARIANT
    SessionsExclusive
