SPECIFICATION Spec
CONSTANTS
    Positions <- NewGames
    FullmoveLimit = 3
PROPERTIES EnPassantIsRules
CHECK_DEADLOCK FALSE
