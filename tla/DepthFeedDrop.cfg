CONSTANTS
    Clients = {c1}
    RingSize = 2
    MaxEvents = 3
    MaxConnections = 1
SPECIFICATION FeedSpec
PROPERTY DropClearsTheLadder
CHECK_DEADLOCK FALSE
