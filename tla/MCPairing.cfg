SPECIFICATION PairingSpec
CONSTANTS
    a = a
    b = b
    c = c
    Players = {a, b, c}
    Editors = {a}
    Fields = {"stake"}
    Breaks = {"timeoutUntil"}
    Sums = {1, 2}
    None = none
    Cooling = 1
    MaxTime = 1
    MaxEdits = 2
    Stakes = {2}
    Callouts = {k1}
    Workers = {w1}
    MaxMatches = 2
INVARIANTS
    PairingInv

PROPERTIES
    CalloutsAreHonouredOnce
    FundingAsksAgain
    SelfProtectionHolds
    PairsAreServed

ACTION_CONSTRAINT MCOneRequestBeside

CHECK_DEADLOCK FALSE
