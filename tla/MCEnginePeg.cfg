CONSTANTS
    Tickets <- PegTickets
    CancelIds <- PegCancelIds
    TimeSteps <- OneStep
    ReuseIds = FALSE
    MaxPrice = 200
    MaxCalls = 5
SPECIFICATION FairSpec
INVARIANTS
    EngineIsSound
    PegPoolsSettled
    MidStillCurrent
PROPERTIES
    CallsReturn
    ImplementsVenue
