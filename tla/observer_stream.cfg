\* One client that connects, or resumes, at any moment; unequal sizes, byte and count limits.
SPECIFICATION Spec
CONSTANTS
    HandOffMaxRecords = 2
    HandOffMaxBytes = 3
    HistoryMaxEvents = 2
    HistoryMaxBytes = 3
    ExchangesMaxLimit = 2
    ClientMaxMessages = 2
    ClientMaxBytes = 3
    MaxClients = 1
    OverflowDisconnect = 1
    MaxIssued = 4
    RecordSize <- MixedSize
    TextSize <- MixedSize
    MaxConnections = 1
    MaxRefused = 1
    MaxFaults = 1
    MaxTime = 0
    MaxStateTurns = 0
    MaxStates = 1
    Afters <- AnyAfter
    HandlerCodes = {1006}
    ClientCodes = {}
INVARIANTS
    NoSilentLoss
    ReceivedMatchesLedger
    ResumeIsHonest
    BuffersHold
PROPERTIES
    ImplementsStream
