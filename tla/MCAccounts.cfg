SPECIFICATION Spec

CONSTANTS
    Requests = {r1, r2}
    Admin = admin
    MaxTokens = 3
    Sockets = {s1, s2}
    MaxSockets = 1

SYMMETRY Symmetry
CONSTRAINT TokensOrSockets

INVARIANTS
    TokensInv
    BanLeavesOnlyStragglers
    BannedStartsNothing
    SocketQuota

CHECK_DEADLOCK FALSE
