CONSTANTS
    Tasks = Tasks
    Usage = Usage
    Producers <- MCProducers
    Rank <- MCRank
    Sources <- MCSources
    Droppers = {Tasks}
    TriggerCap = 1
    QueueCap = 2
    CompletionCap = 2
    EventCap = 2
    MaxSessions = 2
SPECIFICATION Spec
INVARIANTS
    TypeOK
    SyncOnlyAfterReports
    SyncOncePerCycle
    AwaitedIsInFlight
    FlushIsNeverBehindReports
PROPERTIES
    OnlyLatestCompletes
    ImplementsContract
