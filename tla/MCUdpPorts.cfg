SPECIFICATION PortsSpec
CONSTANTS
    Eps = {e1, e2}
    PortStart = 2
    PortEnd = 8
    MaxFailed = 2
    NoEp = NoEp
    NoFd = NoFd
    Fresh = Fresh
INVARIANTS
    PairsOwned
    WholeRangeSearched
    DescriptorsOwned
