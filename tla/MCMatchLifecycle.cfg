SPECIFICATION FairSpec

CONSTANTS
    Players = {p1, p2}
    Matches = {m1}
    Workers = {w1, w2}
    NoPlayer = NoPlayer
    NoWorker = NoWorker
    Stakes = {5}
    Percents = {10}
    Funds <- TenEach
    MaxAttempts = 2
    OwnerMayHang = FALSE
    StartMayFail = FALSE
    MaxFaults = 3

INVARIANTS
    IInv
    NoGameForReleasedStakes

PROPERTIES
    NeverReleasedOnceLive
    FundedMovesOn
    PlayedIsSettled

CHECK_DEADLOCK FALSE
