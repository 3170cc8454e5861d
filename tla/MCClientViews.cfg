CONSTANTS
    Books <- SomeBooks
    Prints <- SomePrints
    Echoes <- SomeEchoes
    Opens <- SomeOpens
    MaxFrames = 4
    BusyFrames = 1
    MaxMounts = 2
    UsedFilters <- TwoFilters
    TAPE_CAP = 3
    INSPECTOR_CAP = 2
SPECIFICATION ViewsSpec
CHECK_DEADLOCK FALSE
INVARIANTS
    PanelsShowOneBook
    ChartAgreesWithStats
    TicksTellTheMove
PROPERTIES
    SelectionSticks
    LateAnswersAreIgnored
