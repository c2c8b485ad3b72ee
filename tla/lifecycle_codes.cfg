\* Is the code a connection records the code that was sent?
SPECIFICATION Spec
CONSTANTS
    Clients = {c1}
    ClientCodes = {1001}
    MayInterrupt = FALSE
INVARIANTS
    RecordedCodeWasSent
CHECK_DEADLOCK FALSE
