\* Four desks for the queue, four servers, and a feed over a ring of two
\* committed rows, so that rows age out unseen.
SPECIFICATION ControlSpec
CONSTANTS
    Cap = 3
    Desks <- FourDesks
    Sessions = {s1, s2}
    Deployments <- FourServers
    Clients = {c1}
    Contents = {1, 2}
    Depth = 2
    MaxPushes = 3
    MaxRevs = 4
    MaxRings = 2
INVARIANTS AnsweredOnce CommandsRight StreamsRight FeedRight
PROPERTIES ControlReturns
CHECK_DEADLOCK FALSE
