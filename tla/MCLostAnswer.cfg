SPECIFICATION Spec

CONSTANTS
    Users = {u1}
    Withdrawals = {d1}
    Operators = {o1}
    FirstOperator = o1
    NoUser = NoUser
    Amounts = {5}
    Funds <- TenEach
    ByRef = {}
    MaxPerRun = 1

INVARIANTS
    NeverPaidAndReturned

CHECK_DEADLOCK FALSE
