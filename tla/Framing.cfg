SPECIFICATION Spec
CONSTANTS
    Fds = {4, 5}
    Packets <- Kinds
    HeaderSize = 2
    MaxInval = 2
    MaxSends = 2
    MaxConns = 2
CONSTRAINT OneLeaves
CHECK_DEADLOCK FALSE
INVARIANTS TypeOK NothingLost InnocentNotCharged
PROPERTIES StreamSpec EveryClientServed
