CONSTANTS
    Clients = {a, b}
    Jobs = {j}
    NoFee = NoFee
    Scale = 2
    BpsDenominator = 1
    DaysPerYear = 4
    ManagementBps = 1
    PerformanceBps = 1
    U128Max = 20
    Deposits = {2, 6}
    NavValues = {4}
    MaxNav = 10
    MaxFees = 1
    Mints = {"mint1", "mint2"}
    Holdings <- TwoMints
    MaxDeposits = 2
    MaxRedemptions = 1
CHECK_DEADLOCK FALSE
SPECIFICATION BookSpec
INVARIANTS
    TaxedFromEntry
