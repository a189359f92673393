SPECIFICATION Spec
CONSTANTS
    a = a
    b = b
    a1 = a1
    a2 = a2
    b1 = b1
    w1 = w1
    w2 = w2
    Players = {a, b}
    Sockets = {a1, a2, b1}
    Owner <- MCOwner
    Sweeps = {w1, w2}
    MaxRestarts = 1
SYMMETRY TabsAndSweeps
ACTION_CONSTRAINTS
    MCOverIsOver
    MCFewAtWork
INVARIANTS
    PresenceInv

PROPERTIES
    StayersAreNotForfeited

CHECK_DEADLOCK FALSE
