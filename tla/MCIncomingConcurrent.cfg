SPECIFICATION Spec
CONSTANTS
    None = None
    Workers = {w1, w2}
    Jobs = {"webhook", "discover", "check", "expire", "method", "lock"}
    Faults = TRUE
    Tickers = {btc, usdt}
    UtxoCoins = {btc}
    TronCoins = {}
    Tokens = {usdt}
    Scanned = {usdt}
    OneTrx = 4
    Hashes = {h1}
    DepositAmounts = {1, 2}
    Amount = 4
    Tolerance = 2
    ServiceFee = 1
    MaxTx = 2
    MaxWallets = 2
SYMMETRY Interchangeable
INVARIANTS TypeOK SingleUseAddress AtMostOnePending Solvency PaidOnlyIfConfirmed
CHECK_DEADLOCK FALSE
