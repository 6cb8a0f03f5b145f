CONSTANTS
    Assets = {sol, x}
    SolAsset = sol
    NoAsset = none
    Bundles <- OneOrBoth
    Requests = {r1}
    MaxSpl = 1
    MaxTxs = 3
    MaxCrashes = 0
    sol = sol
    x = x
    y = y
\* The client stops signing at MaxTxs, and then nothing need happen any more.
CHECK_DEADLOCK FALSE
SPECIFICATION Spec
INVARIANTS
    TypeOK
    LogMatchesRow
    DelegatedIsNotRevoked
