CONSTANTS
    Tickets <- SameIdTickets
    CancelIds <- TheId
    TimeSteps <- OneStep
    ReuseIds = TRUE
    MaxPrice = 100
    MaxCalls = 4
SPECIFICATION Spec
PROPERTY CancelFindsAnyRestingOrder
