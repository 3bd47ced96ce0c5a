\* Six players, three games and a table of three.
SPECIFICATION Spec
CONSTANTS
    MaxPlayers = 6
    MaxInval = 2
    FirstFd = 4
    LastFd = 5
    MaxStructs = 6
    Names <- NumberedNames
    NewPlayer = 0
    LongNames <- NoLongNames
    NoKey = NoKey
    NumThreads = 0
    Packets <- ResignPackets
    Pipelined = FALSE
    n1 = n1
    n2 = n2
    nLong = nLong
INVARIANT TypeOK
INVARIANT FreeSlotIsFree
INVARIANT GamesOK
PROPERTY LobbySpec
CONSTRAINT GamesPileUp
