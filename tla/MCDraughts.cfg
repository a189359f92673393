SPECIFICATION GameSpec

CONSTANTS
    Size = 6
    Positions <- Studies
    KingMoveLimit = 5
    RepetitionLimit = 2

INVARIANTS
    GameInv
    SearchFindsTheLongest
    LosersAreStuck

PROPERTIES
    MovesTakeTheMost

CHECK_DEADLOCK FALSE
