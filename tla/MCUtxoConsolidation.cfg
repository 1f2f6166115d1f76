SPECIFICATION FairSpec
CONSTANTS
    None = None
    a1 = a1
    a2 = a2
    out = out
    Workers = {w1}
    Inbound = {a1, a2}
    Outbound = out
    Coins <- MCCoins
    Withdrawals = {p1, p2}
    Amounts = {6, 17}
    MerchantFunds = 28
    Estimates <- MCEstimates
    Fallback = 20
    Outcomes = {"accepted"}
    Faults = {}
    Exclusive = TRUE
    MaxTx = 6
    Attempts = 3
    MaxSources = 2
    Dust = 2
    TxSize = 1
    InputSize = 1
    OutputSize = 1
    RateUnit = 10
INVARIANTS  PlansAreSound LimitIsMaximal
PROPERTIES EventuallySettled
CHECK_DEADLOCK FALSE
