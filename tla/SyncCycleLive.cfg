CONSTANTS
    Tasks = Tasks
    Usage = Usage
    Producers <- MCProducers
    Rank <- MCRank
    Sources <- MCSources
    Droppers = {}
    TriggerCap = 1
    QueueCap = 1
    CompletionCap = 1
    EventCap = 1
    MaxSessions = 1
SPECIFICATION FairSpec
PROPERTIES
    CycleCompletes
    
