\* Replies of four endpoints through one socket that may be busy or fail, with restarts.
SPECIFICATION FairSpec
CONSTANTS
    physical = physical
    functional = functional
    other = other
    silent = silent
    Endpoints <- FourEndpoints
    Via <- RepliesVia
    Receiving <- AllButSilent
    MaxReplies = 5
    MaxStarts = 3
INVARIANTS
    TransportInv
PROPERTIES
    ImplementsChannel
    RepliesLeave
CHECK_DEADLOCK FALSE
