\* Two clients, of whom one has a descriptor that cannot be adopted by the socket.
CONSTANTS
    h1 = h1
    c1 = c1
    c2 = c2
    c3 = c3
    Handlers = {h1}
    Connections = {c1, c2}
    FailingDescriptors = {c1}
    MaxThreads = 1
    MinThreads = 1
    MaxInput <- TwoPieces
    NoConn = NoConn
    NoHandler = NoHandler
SPECIFICATION Spec
CHECK_DEADLOCK FALSE
INVARIANT
    BusyMeansInUse
