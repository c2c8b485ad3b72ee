\* Two connections at once: every ledger and the totals over them.  Their clients close with the codes
\* that the counters of failures and forced closes are about; other codes are in the other runs.
SPECIFICATION Spec
CONSTANTS
    HandOffMaxRecords = 1
    HandOffMaxBytes = 100
    HistoryMaxEvents = 2
    HistoryMaxBytes = 100
    ExchangesMaxLimit = 2
    ClientMaxMessages = 1
    ClientMaxBytes = 100
    MaxClients = 2
    OverflowDisconnect = 0
    MaxIssued = 2
    RecordSize <- SameSize
    TextSize <- SameSize
    MaxConnections = 2
    MaxRefused = 0
    MaxFaults = 1
    MaxTime = 0
    MaxStateTurns = 0
    MaxStates = 1
    Afters <- FreshOnly
    HandlerCodes = {}
    ClientCodes = {1011, 1013}
INVARIANTS
    TypeOK
    ExchangesAccounted
    LedgersBalance
    RegisteredIffOpen
    TotalsAreFinalLedgers
    CloseCodesExplained
