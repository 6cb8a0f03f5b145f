CONSTANTS
    Wallets = {"w1", "w2"}
    NoWallet = "none"
    Assets = {"x", "y"}
    Holdings <- SomeHoldings
    MaxLoads = 2
    MaxSwitches = 2
    MaxTxs = 2
\* Without a wallet the user may be done.
CHECK_DEADLOCK FALSE
SPECIFICATION Spec
INVARIANTS
    WebTypeOK
    StepAfterReports
    

    
    
