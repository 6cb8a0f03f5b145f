CONSTANTS
    Clients = {a, b}
    Jobs = {j, k}
    NoFee = NoFee
    Scale = 2
    BpsDenominator = 1
    DaysPerYear = 4
    ManagementBps = 1
    PerformanceBps = 1
    U128Max = 7
    Deposits = {2, 3}
    NavValues = {1, 4}
    MaxNav = 4
    MaxFees = 1
    Mints = {"mint1", "mint2"}
    Holdings <- TwoMints
    MaxDeposits = 2
    MaxRedemptions = 1
SYMMETRY Symmetry
\* Once the records are full and the pool is empty, nothing need happen.
CHECK_DEADLOCK FALSE
SPECIFICATION BookSpec
INVARIANTS
    BookTypeOK
    UnitConservation
    Solvent
    NoValueFromRounding
    NoFalseAlarm
    ForgeriesPinpointed
PROPERTIES
    HwmNeverDecreases
