\* Liveness of one connection, and the periodic state it is left with.
SPECIFICATION LiveSpec
CONSTANTS
    HandOffMaxRecords = 2
    HandOffMaxBytes = 100
    HistoryMaxEvents = 2
    HistoryMaxBytes = 100
    ExchangesMaxLimit = 2
    ClientMaxMessages = 1
    ClientMaxBytes = 100
    MaxClients = 1
    OverflowDisconnect = 1
    MaxIssued = 2
    RecordSize <- SameSize
    TextSize <- SameSize
    MaxConnections = 1
    MaxRefused = 0
    MaxFaults = 1
    MaxTime = 2
    MaxStateTurns = 2
    MaxStates = 2
    Afters <- FreshOnly
    HandlerCodes = {1006}
    ClientCodes = {}
PROPERTIES
    EverythingGoesOn
INVARIANTS
    StateIsCurrent
