SPECIFICATION FairSpec
CONSTANTS
    Ecus <- MCEcus
    Dtcs <- MCDtcs
    Initially <- MCInitially
    EventLists <- ThreeEvents
    SignalCount = 2
    NonFinite <- OneRefused
    TickPeriod = 1
    MaxTime = 3
    MaxAnomalies = 1
INVARIANTS
    StateIsReplay
    AsOfHolds
    EventsAccountedFor
PROPERTIES
    NoReplay
    EventsArrive
