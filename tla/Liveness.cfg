\* Two players and a keepalive thread, under fairness: no symmetry.
SPECIFICATION FairSpec
CONSTANTS
    MaxPlayers = 6
    MaxInval = 1
    FirstFd = 4
    LastFd = 5
    MaxStructs = 2
    Names <- TwoNames
    NewPlayer = NewPlayer
    LongNames <- NoLongNames
    NoKey = NoKey
    NumThreads = 1
    Packets <- JoinPackets
    Pipelined = FALSE
    n1 = n1
    n2 = n2
    nLong = nLong
PROPERTY AbandonedGameEnds
