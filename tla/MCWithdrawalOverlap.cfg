SPECIFICATION Spec
CONSTANTS
    None = None
    p1 = p1
    p2 = p2
    p3 = p3
    eth = eth
    usdt = usdt
    Workers = {w1, w2}
    Exclusive = FALSE
    Faults = {}
    Outcomes = {"accepted"}
    Nonced = TRUE
    Withdrawals = {p1}
    Tickers = {eth}
    Coin = eth
    TickerOf <- MCTickerOf
    AmountOf <- MCAmountOf
    Fee = 1
    NetworkFees = {1}
    MerchantFunds <- MCForTwo
    WalletFunds <- MCPlenty
    MaxTx = 2
    MaxNonce = 3
SYMMETRY Interchangeable
PROPERTIES OnlyPendingAreCreated
CHECK_DEADLOCK FALSE
