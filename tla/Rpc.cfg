CONSTANTS
    Units = {0, 1}
    First = 1
    Rest = 2
    MaxLength = 6
    SeqLimit = 4
    Crc <- MCCrc
    Payloads <- MCPayloads
    Requests = {2, 6}
    None = None
    MaxSent = 3
    MaxCalls = 2
    MaxWire = 4
    MaxFaults = 2
    MaxSessions = 2
SPECIFICATION FairSpec
CHECK_DEADLOCK FALSE
INVARIANTS
    TypeOK
    ReturnedIsAnswer
    NothingSkipped
PROPERTIES
    ImplementsChannel
    AstrayEnds
