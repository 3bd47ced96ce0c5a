SPECIFICATION Spec
CONSTANTS
    Positions <- LatePositions
    FullmoveLimit = 40
INVARIANTS TypeOK MoverIsSafe LegalIsAccepted RightsMeanKingHome FenReadsBack
PROPERTIES MateIsMate AcceptedIsLegal RefusedIsUnmade OthersRightsStand ClientsSeeBoard
CHECK_DEADLOCK FALSE
CONSTRAINTS OneMissing FirstMove
