SPECIFICATION Spec
CONSTANTS
    Pools = {p1, p2}
    Amounts = {1, 2, 399, 402}
    Loans = {1, 399}
    MinProfits = {1, 2}
    MaxFunds = 1
INVARIANTS
    IdleIsClean
    PriorFundsSafe
    RepaymentIsExact
PROPERTIES
    EndsWhole
