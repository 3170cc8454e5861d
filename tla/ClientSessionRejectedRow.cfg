CONSTANTS
    Tickets <- TwoTickets
    OwnTickets <- OneOfMine
    CancelIds <- Cancels
    TimeSteps <- OneStep
    ReuseIds = FALSE
    MaxPrice = 200
    MaxCalls = 4
    MAX_DEPTH_LEVELS = 2
    MaxDrops = 1
    TAPE_CAP = 1
    INSPECTOR_CAP = 2
    MAX_INT = 7
SPECIFICATION SessionSpec
CHECK_DEADLOCK FALSE
INVARIANT RejectedContributesNothing
