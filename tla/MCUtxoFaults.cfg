SPECIFICATION Spec
CONSTANTS
    None = None
    a1 = a1
    a2 = a2
    out = out
    Workers = {w1, w2}
    Inbound = {a1}
    Outbound = out
    Coins <- MCFew
    Withdrawals = {p1}
    Amounts = {4}
    MerchantFunds = 14
    Estimates <- MCOneRate
    Fallback = 10
    Outcomes = {"accepted", "rejected", "poor"}
    Faults = {"error", "crash", "expire", "stale"}
    Exclusive = FALSE
    MaxTx = 2
    Attempts = 2
    MaxSources = 2
    Dust = 2
    TxSize = 1
    InputSize = 1
    OutputSize = 1
    RateUnit = 10
SYMMETRY Interchangeable
INVARIANTS NoConflictingBroadcasts
CHECK_DEADLOCK FALSE
