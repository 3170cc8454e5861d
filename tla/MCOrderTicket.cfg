CONSTANTS
    Messages <- SomeMessages
    MaxMessages = 1
    MaxEffects = 2
    MaxFailures = 1
    TAPE_CAP = 1
    INSPECTOR_CAP = 1
    TypedPrices <- Prices
    TypedQtys <- Qtys
    TypedDisplays <- Displays
    ChosenSides <- OneSide
    ChosenTifs <- TwoTifs
    MaxPrice = 200
    MaxIds = 2
    MAX_INT = 7
SPECIFICATION FairPageSpec
CHECK_DEADLOCK FALSE
INVARIANTS
    TypeOK
    OneLiveConnection
    StatusIsTruthful
    OrdersAreAcceptable
    RowsAreTheWrittenOrders
PROPERTIES
    ShownIdIsUsed
    EventuallyOpen
