CONSTANTS
    Tickets <- LitTickets
    CancelIds <- LitCancelIds
    TimeSteps <- OneStep
    ReuseIds = FALSE
    MaxPrice = 200
    MaxCalls = 4
SPECIFICATION FairSpec
INVARIANTS
    TypeOK
    BookHoldsLiveOrders
    DisplayedSlice
    OpenOrdersAreTheRestingOrders
    BookNotCrossed
    QuantityConserved
    FillOrKillIsAllOrNothing
    ReportsTellTheStory
    TimePriority
PROPERTIES
    NoQueueJump
    CallsReturn
    ImplementsVenue
