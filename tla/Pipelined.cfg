\* Clients send the next packet without waiting for the reply.
SPECIFICATION Spec
CONSTANTS
    MaxPlayers = 6
    MaxInval = 1
    FirstFd = 4
    LastFd = 5
    MaxStructs = 3
    Names <- TwoNames
    NewPlayer = NewPlayer
    LongNames <- OneLongName
    NoKey = NoKey
    NumThreads = 0
    Packets <- AllPackets
    Pipelined = TRUE
    n1 = n1
    n2 = n2
    nLong = nLong
SYMMETRY Symmetry
INVARIANT NeverHalts
