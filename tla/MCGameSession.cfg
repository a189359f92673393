SPECIFICATION Spec
CONSTANTS
    Light = light
    Dark = dark
    Nobody = nobody
    Plays = {"quiet", "wins"}
    WinningPlays = {"wins"}
    DrawingPlays = {}
    i1 = i1
    Ids = {i1}
    TurnOf <- MCTurnOf
    Legacy = legacy
    r1 = r1
    r2 = r2
    Requests = {r1, r2}
    c1 = c1
    Recoverers = {c1}
    Submissions <- MCSubmissions
    Retries = 1
    MaxMoves = 3
    MaxFaults = 1
SYMMETRY Symmetry
CONSTRAINT MCBounds
ACTION_CONSTRAINT MCLateMovesComeAlone
INVARIANTS
    SessionInv

PROPERTIES
    
    ImplementsRecord

CHECK_DEADLOCK FALSE
