CONSTANTS
    Auths = {a1}
    SolAuths = {}
    Workers = {w1}
    AssetCap = 2
    Prices <- UnitPrice
    Validity = 1
    MaxHeight = 3
    MaxFunds = 2
    Delegations = {2}
    MaxApprovals = 1
    NoAuth = NoAuth
    NoPrice = NoPrice
SPECIFICATION NeverRevokedSpec
INVARIANTS
    CreditedExactlyOnce

    
