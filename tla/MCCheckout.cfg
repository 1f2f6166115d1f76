SPECIFICATION Spec
CONSTANTS
  None = None
  m1 = m1
  m2 = m2
  e1 = e1
  e2 = e2
  e3 = e3
  o1 = o1
  btc = btc
  eth = eth
  Merchants = {m1, m2}
  Merchant = m1
  Orders = {o1}
  Emails = {e1}
  Tickers = {btc, eth}
  Enabled = {btc}
  Prices = {0, 5, 7}
  Requests = {r1, r2}
  Consumers = {c1, c2}
  FirstCustomers <- MCCustomers
  PageSize = 1
  MaxPayments = 2
  MaxLinks = 1
  MaxCustomers = 4
INVARIANTS OnePaymentPerOrder   
CHECK_DEADLOCK FALSE
CONSTRAINT Bound
SYMMETRY Perms
