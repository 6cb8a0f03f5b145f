CONSTANTS
    Assets = {x, y}
    SolAsset = sol
    NoAsset = none
    Bundles <- Single
    Requests = {r1, r2}
    MaxSpl = 1
    MaxTxs = 2
    MaxCrashes = 1
    sol = sol
    x = x
    y = y
\* The client stops signing at MaxTxs, and then nothing need happen any more.
CHECK_DEADLOCK FALSE
SPECIFICATION Spec
INVARIANT NoDuplicateEvents
PROPERTIES
    ReplayNeverReactivates
    NewRowsWithinLimit
