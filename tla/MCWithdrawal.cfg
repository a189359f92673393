SPECIFICATION MCSpec

CONSTANTS
    Users = {u1}
    Withdrawals = {d1, d2}
    Operators = {o1, o2}
    FirstOperator = o1
    NoUser = NoUser
    Amounts = {5}
    Funds <- TenEach
    ByRef = {d1}
    MaxPerRun = 1

INVARIANTS
    ReturnedIsNotPaid
    PlayersAreToldTheTruth
    BooksAgree

PROPERTIES
    ImplementsPromise
    AcceptedPayoutsAreResolved

CHECK_DEADLOCK FALSE
