\* Two clients, both of whom may find a handler; two pieces of input each.
CONSTANTS
    h1 = h1
    h2 = h2
    c1 = c1
    c2 = c2
    c3 = c3
    Handlers = {h1, h2}
    Connections = {c1, c2}
    FailingDescriptors = {}
    MaxThreads = 2
    MinThreads = 1
    MaxInput <- TwoPieces
    NoConn = NoConn
    NoHandler = NoHandler
SPECIFICATION FairSpec
CHECK_DEADLOCK FALSE
PROPERTIES
    ConnectionsEnd
    MainThreadReturns
    PoolShrinks
