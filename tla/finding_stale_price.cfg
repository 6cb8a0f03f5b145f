CONSTANTS
    PRICE_EXPONENT = 1
    Allowlist = {1}
    Requests <- OneRequest
    Rows <- OneRow
    Wires <- OneWire
    UnitsPerMicro = 10
    DustThreshold = 1
    MaxSplAssets = 2
    Caps = {3, 5, 14}
    FALLBACK_DELEGATED_AMOUNT = 100
    SOL_FEE_RESERVE_LAMPORTS = 1
    MaxStaleness = 1
    FetchTimeout = 1
    MaxAttempts = 1
    MaxAccounts = 1
    RATE_LIMIT_WINDOW_MS = 2
    RATE_LIMIT_MAX_REQUESTS = 2
    Keys = {1, 2}
    Arrivals <- NoArrivals
    MaxTime = 3
SPECIFICATION Spec
INVARIANT SweptPriceFresh
