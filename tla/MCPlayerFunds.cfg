SPECIFICATION Spec
CONSTANTS
    Intents = {i1}
    References = {r1}
    Matches = {m1}
    Withdrawals = {w1}
    Amounts = {1, 2}
    MaxPasses = 1
INVARIANTS
    FundsInv
    SpendersAreCovered
    

PROPERTIES
    PaidIsCredited

CHECK_DEADLOCK FALSE
