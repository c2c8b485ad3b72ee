SPECIFICATION Spec
CONSTANTS
    Ecus <- MCEcus
    Dtcs <- MCDtcs
    Initially <- MCInitially
    EventLists <- TwoEvents
    SignalCount = 2
    NonFinite <- AllFinite
    TickPeriod = 2
    MaxTime = 3
    MaxAnomalies = 0
INVARIANT OrderIsOnlyATieBreak
