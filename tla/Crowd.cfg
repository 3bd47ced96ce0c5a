\* Room for one of two clients at a time, and for five players who went away, of six.
\* The process really ends here: the loop serves the client above the limit with the
\* player of the other descriptor, who may have left.
SPECIFICATION Spec
CONSTANTS
    MaxPlayers = 5
    MaxInval = 1
    FirstFd = 4
    LastFd = 5
    MaxStructs = 6
    Names <- OneName
    NewPlayer = NewPlayer
    LongNames <- OneLongName
    NoKey = NoKey
    NumThreads = 0
    Packets <- LoginPackets
    Pipelined = FALSE
    n1 = n1
    n2 = n2
    nLong = nLong
INVARIANT SocketsOK
CHECK_DEADLOCK FALSE
CONSTRAINT FewInvalid
