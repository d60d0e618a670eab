\* Three clients on a pool of at most two handlers, of which one is kept; the
\* descriptor of the third client cannot be adopted by a socket.
CONSTANTS
    h1 = h1
    h2 = h2
    h3 = h3
    c1 = c1
    c2 = c2
    c3 = c3
    Handlers = {h1, h2, h3}
    Connections = {c1, c2, c3}
    FailingDescriptors = {c3}
    MaxThreads = 2
    MinThreads = 1
    MaxInput <- OnePieceEach
    NoConn = NoConn
    NoHandler = NoHandler
SPECIFICATION Spec
SYMMETRY Symmetry
CHECK_DEADLOCK FALSE
INVARIANTS
    TypeOK
    OwnerIsBusy
    OneOwner
    RequestOfOneClient
    NoConnectionForgotten
    NoServiceAfterStop
PROPERTIES
    KeepsMinThreads
    ImplementsService
