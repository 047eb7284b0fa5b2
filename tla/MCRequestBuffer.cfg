SPECIFICATION FairSpec
CONSTANTS
    Fds = {1, 2, 3}
    None = None
    Kinds <- MCKinds
    ReqSize = 5
    MaxItems = 2
    MaxPending = 2
INVARIANTS
    DispatchedInOrder
    SocketsOwned
    EventsWatchSockets
PROPERTIES
    ItemDispatched
