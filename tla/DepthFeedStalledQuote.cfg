CONSTANTS
    Clients = {c1}
    RingSize = 2
    MaxEvents = 3
    MaxConnections = 1
SPECIFICATION StalledQuoteSpec
PROPERTY NoneBlocksTheEngine
CHECK_DEADLOCK FALSE
