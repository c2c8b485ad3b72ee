\* A client while the application starts, stops and is interrupted; with fairness, stopping ends.
SPECIFICATION FairSpec
CONSTANTS
    Clients = {c1}
    ClientCodes = {1000, 1001, 1008, 1011, 1013, 4000}
    MayInterrupt = TRUE
INVARIANTS
    LifecycleInv
    FrameNearlyRecorded
PROPERTIES
    StopEnds
    HandlersEnd
CHECK_DEADLOCK FALSE
