CONSTANTS
    Auths = {a1}
    SolAuths = {}
    Workers = {w1, w2}
    AssetCap = 1
    Prices <- UnitPrice
    Validity = 1
    MaxHeight = 3
    MaxFunds = 1
    Delegations = {1}
    MaxApprovals = 1
    NoAuth = NoAuth
    NoPrice = NoPrice
SPECIFICATION Spec
INVARIANTS
    OnePendingPerAuthorization
    LiveTransferIsPending
    NoDepositBeforeDelay
SYMMETRY WorkerSymmetry
