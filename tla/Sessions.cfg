\* Three players, two names and every packet; no keepalive threads.
SPECIFICATION Spec
CONSTANTS
    MaxPlayers = 10
    MaxInval = 2
    FirstFd = 4
    LastFd = 5
    MaxStructs = 3
    Names <- TwoNames
    NewPlayer = NewPlayer
    LongNames <- OneLongName
    NoKey = NoKey
    NumThreads = 0
    Packets <- AllPackets
    Pipelined = FALSE
    n1 = n1
    n2 = n2
    nLong = nLong
SYMMETRY Symmetry
INVARIANT NamesUnique
INVARIANT AtMostOneWaiting
INVARIANT GamesOK
INVARIANT FlaggedIsWaiting
INVARIANT AloneMeansAway
INVARIANT ClientAgrees
PROPERTY ReturnResumesGame
PROPERTY OpponentTold
PROPERTY LobbySpec
