SPECIFICATION Spec
CONSTANTS
    Fds = {4, 5}
    n1 = n1
    n2 = n2
    Names <- TwoNames
    NewPlayer = NewPlayer
    StoreSlots = {0, 1, 2}
    MaxStructs = 3
CHECK_DEADLOCK FALSE
INVARIANT NeverRegisteredTwice
