SPECIFICATION Spec
CONSTANTS
    Fds = {4, 5, 6}
    n1 = n1
    n2 = n2
    Names <- TwoNames
    NewPlayer = NewPlayer
    StoreSlots = {0, 1}
    MaxStructs = 3
CONSTRAINT Uncontested
SYMMETRY Symmetry
CHECK_DEADLOCK FALSE
INVARIANTS ExitIsContested ClosesItsOwn RegisteredIsOpen RegistryAgrees AwayIsStored
