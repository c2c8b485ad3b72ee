\* One client that may stop reading, on the clock: overflow and forced close.
SPECIFICATION Spec
CONSTANTS
    HandOffMaxRecords = 1
    HandOffMaxBytes = 100
    HistoryMaxEvents = 2
    HistoryMaxBytes = 100
    ExchangesMaxLimit = 2
    ClientMaxMessages = 1
    ClientMaxBytes = 100
    MaxClients = 1
    OverflowDisconnect = 2
    MaxIssued = 4
    RecordSize <- SameSize
    TextSize <- SameSize
    MaxConnections = 1
    MaxRefused = 0
    MaxFaults = 0
    MaxTime = 2
    MaxStateTurns = 2
    MaxStates = 2
    Afters <- FreshOnly
    HandlerCodes = {1006}
    ClientCodes = {1013}
INVARIANTS
    ForcedOutOnlyWhenStalled
