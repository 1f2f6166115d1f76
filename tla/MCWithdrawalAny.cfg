SPECIFICATION Spec
CONSTANTS
    None = None
    p1 = p1
    p2 = p2
    p3 = p3
    eth = eth
    usdt = usdt
    Workers = {w1, w2}
    Exclusive = FALSE
    Faults = {"error", "crash"}
    Outcomes = {"accepted", "lost", "rejected", "poor"}
    Nonced = TRUE
    Withdrawals = {p1}
    Tickers = {eth}
    Coin = eth
    TickerOf <- MCTickerOf
    AmountOf <- MCAmountOf
    Fee = 1
    NetworkFees = {1, 2}
    MerchantFunds <- MCForTwo
    WalletFunds <- MCScarce
    MaxTx = 2
    MaxNonce = 3
SYMMETRY Interchangeable
INVARIANTS TypeOK SuccessIsTransferred RecordedAsExecuted
CHECK_DEADLOCK FALSE
