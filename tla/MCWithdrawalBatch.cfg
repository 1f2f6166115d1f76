SPECIFICATION FairSpec
CONSTANTS
    None = None
    p1 = p1
    p2 = p2
    p3 = p3
    eth = eth
    usdt = usdt
    Workers = {w1, w2}
    Exclusive = TRUE
    Faults = {}
    Outcomes = {"accepted"}
    Nonced = TRUE
    Withdrawals = {p1, p3}
    Tickers = {eth, usdt}
    Coin = eth
    TickerOf <- MCTickerOf
    AmountOf <- MCAmountOf
    Fee = 1
    NetworkFees = {1}
    MerchantFunds <- MCForTwo
    WalletFunds <- MCPlenty
    MaxTx = 3
    MaxNonce = 4
INVARIANTS PaymentFollowsTxs NoncesFollowChain
PROPERTIES EventuallySettled
CHECK_DEADLOCK FALSE
