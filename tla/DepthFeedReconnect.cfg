CONSTANTS
    Clients = {c1}
    RingSize = 2
    MaxEvents = 3
    MaxConnections = 2
SPECIFICATION FairConsumersSpec
INVARIANTS
    SlotsIntact
    ShowsCurrentBook
PROPERTIES
    BackOnlyAfterConnect
    ClientsCatchUp
    RingGetsRoom
CHECK_DEADLOCK FALSE
