CONSTANTS
    Tickets <- AllTickets
    OwnTickets <- MineTickets
    CancelIds <- Cancels
    TimeSteps <- OneStep
    ReuseIds = FALSE
    MaxPrice = 200
    MaxCalls = 3
    MAX_DEPTH_LEVELS = 1
    MaxDrops = 1
    TAPE_CAP = 1
    INSPECTOR_CAP = 2
    MAX_INT = 7
SPECIFICATION FairSessionSpec
CHECK_DEADLOCK FALSE
INVARIANTS
    RowsAgreeWithVenue
    RowsAreNeverAhead
    SessionMatchesTrades
    AggressorTagIsTrue
    LadderMatchesBlotter
PROPERTIES
    OrdersAreAnswered
