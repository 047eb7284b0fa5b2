SPECIFICATION Spec
CONSTANTS
    Fds = {1}
    None = None
    Kinds <- MCPlain
    ReqSize = 5
    MaxItems = 2
    MaxPending = 2
INVARIANTS
    OnlyRequestDeleted
