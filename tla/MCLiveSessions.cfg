SPECIFICATION FairSpec
CONSTANTS
    Sessions = {s1, s2}
    Conns = {c1}
    Tracks = {0, 1}
    MaxChannels = 4
    MaxConnNum = 2
    MaxCount = 3
    NoSession = NoSession
    NoEp = NoEp
INVARIANTS
    TypeOK
    ChannelsMatch
    SessionsConsistent
    StreamsFollowPlayers
    CountCoversPlayers
    WalkSafe
    FrameReachesAll
PROPERTIES
    PlayersServed
