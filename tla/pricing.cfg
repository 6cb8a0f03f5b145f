CONSTANTS
    PRICE_EXPONENT = 1
    Allowlist = {1, 2}
    Requests <- TwoRequests
    Rows <- TwoRows
    Wires <- TwoWires
    UnitsPerMicro = 10
    DustThreshold = 2
    MaxSplAssets = 2
    Caps = {3, 5, 14}
    FALLBACK_DELEGATED_AMOUNT = 100
    SOL_FEE_RESERVE_LAMPORTS = 1
    MaxStaleness = 0
    FetchTimeout = 1
    MaxAttempts = 2
    MaxAccounts = 3
    RATE_LIMIT_WINDOW_MS = 2
    RATE_LIMIT_MAX_REQUESTS = 2
    Keys = {1, 2}
    Arrivals <- ShortArrivals
    MaxTime = 1
SPECIFICATION Spec
INVARIANTS
    PricingTypeOK
    PricesFresh
    QuoteExact
    
    AllocationIsPrefix
    ReserveKept
    ApprovalSuffices
    LimiterWithinTwice
PROPERTIES
    RowNeverOlder
    ScanAnswered
    PassEnds
