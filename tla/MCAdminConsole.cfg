SPECIFICATION ConsoleSpec

CONSTANTS
    Attempts = {a1, a2}
    Cases = {c1, c2}
    NoCase = NoCase
    OverrideVerified = TRUE
    Workers = {w1, w2}
    MFA_FAIL_LIMIT = 4
    MaxDeaths = 1

SYMMETRY Symmetry
ACTION_CONSTRAINT MCCodesFirst

INVARIANTS
    MfaInv
    VerifiedRestsOnACase
    ReviewsAreTraced

CHECK_DEADLOCK FALSE
