SPECIFICATION FairSpec
CONSTANTS
    None = None
    Workers = {w1}
    Jobs = {"webhook", "discover", "check", "expire", "method", "lock"}
    Faults = FALSE
    Tickers = {trx}
    UtxoCoins = {}
    TronCoins = {trx}
    Tokens = {}
    Scanned = {}
    OneTrx = 2
    Hashes = {h1, h2}
    DepositAmounts = {1, 2, 3}
    Amount = 4
    Tolerance = 1
    ServiceFee = 1
    MaxTx = 3
    MaxWallets = 1
PROPERTIES EventuallySettled
CHECK_DEADLOCK FALSE
