SPECIFICATION Spec
CONSTANTS
    None = None
    Workers = {w1}
    Jobs = {"webhook", "discover", "check", "expire", "method", "lock"}
    Faults = FALSE
    Tickers = {trx, usdt}
    UtxoCoins = {}
    TronCoins = {trx}
    Tokens = {usdt}
    Scanned = {usdt}
    OneTrx = 2
    Hashes = {h1, h2}
    DepositAmounts = {0, 1, 2, 3, 5}
    Amount = 4
    Tolerance = 1
    ServiceFee = 1
    MaxTx = 4
    MaxWallets = 2
INVARIANTS PaymentFollowsTxs NoLeakedLock
PROPERTIES KeepsPromise
CHECK_DEADLOCK FALSE
