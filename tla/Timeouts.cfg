\* Three players with a keepalive thread; the clock, slow and lost threads.
\* Every login of a player who stays is answered: without that AwayCanReturn is false.
SPECIFICATION Spec
CONSTANTS
    MaxPlayers = 6
    MaxInval = 1
    FirstFd = 4
    LastFd = 5
    MaxStructs = 3
    Names <- TwoNames
    NewPlayer = NewPlayer
    LongNames <- NoLongNames
    NoKey = NoKey
    NumThreads = 1
    Packets <- KeepalivePackets
    Pipelined = FALSE
    n1 = n1
    n2 = n2
    nLong = nLong
SYMMETRY Symmetry
INVARIANT RegistryOK
INVARIANT GamesOK
INVARIANT AwayCanReturn
CONSTRAINT TwoLogIn
CONSTRAINT LoginsAnswered
