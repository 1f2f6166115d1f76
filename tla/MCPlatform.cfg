SPECIFICATION Spec
CONSTANTS
  j1 = j1
  j2 = j2
  Processes = {j1, j2}
  Chain = ethereum
  Chains = {ethereum, tron, bitcoin}
  Providers = {ethereum, tron, bitcoin}
  Family <- MCFamily
  ethereum = ethereum
  tron = tron
  bitcoin = bitcoin
  PageSize = 1
  MaxBulk = 2
  MaxKeys = 5
  w1 = w1
  w2 = w2
  eth = eth
  usdt = usdt
  Workers = {w1, w2}
  Tickers = {eth, usdt}
  Coin = eth
  Deposits <- MCDeposits
  Arrives <- MCArrives
  Shares <- MCShares
  Minimums <- MCMinimums
  NetworkFees = {1, 3}
  TopUps <- MCTopUps
  Outcomes = {"rejected", "reverted"}
  Faults = {"error"}
  Limit = 2
  MaxTx = 2
  MaxNonce = 3
  MaxPayments = 1
  e1 = e1
  e2 = e2
  d1 = d1
  d2 = d2
  d3 = d3
  Primary = e1
  Fallbacks <- MCFallbacks
  DefaultFallbacks <- MCDefaults
  Transfers = {d1, d2}
  About <- MCAbout
  Activation = 1
  Families = {"utxo", "tatum", "evm", "tron"}
  Assets = {"coin", "token"}
  Required = 1
  ScanBlocks = 2
  ListLimit = 1
  CacheTTL = 1
  TransientCooldown = 1
  RateLimitCooldown = 1
  MaxLag = 1
  MaxBlock = 3
  FiatMax = 10000000
  Fiats = {"USD", "EUR"}
  Usd = "USD"
  Currencies <- MCCurrencies
  Sorts <- MCSorts
  Markets <- MCMarkets
  FixedRates <- MCFixedRates
  Prices <- MCPrices
  Holdings = {400}
  Requests = {0, 390}
  GasPrices = {1, 20}
  Tips = {3}
  Gas <- MCGas
  TronFees <- MCTronFees
  ServiceFee <- MCServiceFee
  RatesTTL = 1
  Secrets = {"s1", "s2"}
  Settings <- MCSettings
  Ensurers = {j1, j2}
  MaxStarts = 2
  MaxHooks = 2
INVARIANTS EveryWalletSigns ListingIsComplete   ConfirmedIsDeep SettledAreListed   WebhooksVerify 
CHECK_DEADLOCK FALSE
SYMMETRY Interchangeable
