SPECIFICATION Spec

CONSTANTS
    Players = {p1, p2, p3}
    Matches = {m1, m2}
    Workers = {w1}
    NoPlayer = NoPlayer
    NoWorker = NoWorker
    Stakes = {5}
    Percents = {10}
    Funds <- TenEach
    MaxAttempts = 1
    OwnerMayHang = FALSE
    StartMayFail = TRUE
    MaxFaults = 0

SYMMETRY Symmetry
CONSTRAINT OneCallEach

INVARIANTS
    MoneyIsConserved

PROPERTIES
    ImplementsEscrow

CHECK_DEADLOCK FALSE
