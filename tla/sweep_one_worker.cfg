CONSTANTS
    Auths = {a1}
    SolAuths = {}
    Workers = {w1}
    AssetCap = 2
    Prices <- FlooringPrices
    Validity = 1
    MaxHeight = 2
    MaxFunds = 2
    Delegations = {2}
    MaxApprovals = 2
    NoAuth = NoAuth
    NoPrice = NoPrice
SPECIFICATION Spec
INVARIANTS
    TypeOK
    
PROPERTIES
    DepositLifecycle
    ImplementsCapLedger
