SPECIFICATION Spec
CONSTANTS
    None = None
    p1 = p1
    p2 = p2
    p3 = p3
    eth = eth
    usdt = usdt
    Workers = {w1}
    Exclusive = TRUE
    Faults = {}
    Outcomes = {"accepted", "lost", "rejected", "poor"}
    Nonced = TRUE
    Withdrawals = {p1, p2}
    Tickers = {eth}
    Coin = eth
    TickerOf <- MCTickerOf
    AmountOf <- MCAmountOf
    Fee = 1
    NetworkFees = {1}
    MerchantFunds <- MCForOne
    WalletFunds <- MCPlenty
    MaxTx = 4
    MaxNonce = 4
SYMMETRY Interchangeable
INVARIANTS AtMostOneTransfer LedgerMatchesTxs
CHECK_DEADLOCK FALSE
