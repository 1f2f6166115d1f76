------------------------------- MODULE Pricing -------------------------------
(***************************************************************************)
(* Currencies, rates of exchange and fees.  The price of a payment and the *)
(* fee of a withdrawal are converted at rates of Tatum, which are cached,  *)
(* or at fixed ones without an API key.  The cache keeps an entry for      *)
(* RatesTTL ticks after it was last read.                                  *)
(***************************************************************************)
EXTENDS Money, Sequences, FiniteSets

CONSTANTS
    Fiats, Usd,     \* fiat currencies
    Currencies,     \* currencies.json: a set of records
    Sorts,          \* the order of names: ticker -> Nat
    Markets,        \* <<ticker, fiat>> -> rates Tatum may quote; it knows no other pairs
    FixedRates,     \* fallbackUSDExchangeRates
    Prices,         \* prices, as fractions
    Holdings,       \* balances of a merchant
    Requests,       \* amounts a merchant asks to withdraw
    GasPrices, Tips, \* what nodes answer
    Gas,            \* [coin |-> units, token |-> units] of an EVM transaction
    TronFees,       \* [coin |-> amount, token |-> amount]
    ServiceFee,     \* DefaultServiceFee, a fraction; zero for none
    RatesTTL        \* ticks a rate is cached after it was read

VARIABLES
    online,   \* whether Tatum has an API key
    market,   \* the rate of each pair
    past,     \* the rates each pair has had
    rates,    \* Service.ratesCache
    quote     \* the request in progress, and its result

pricingVars == <<online, market, past, rates, quote>>

Pairs == DOMAIN Markets
Offers == UNION {Markets[p] : p \in Pairs}

\* DefaultSetup refuses a token without a contract; a test contract may be missing.
DefaultSetup(c) == c.type \in {"coin", "token"} /\ (c.type = "token" => c.contract # "")

-----------------------------------------------------------------------------
(* CurrencyResolver *)

GetCurrencyByTicker(ticker) == CHOOSE c \in Currencies : c.ticker = ticker

\* Deprecated currencies are known by their ticker and not listed for a blockchain.
ListBlockchainCurrencies(chain) == {c \in Currencies : c.chain = chain /\ ~c.deprecated}

First(cs) == CHOOSE c \in cs : \A d \in cs : Sorts[c.ticker] <= Sorts[d.ticker]
GetNativeCoin(chain) == First({c \in ListBlockchainCurrencies(chain) : c.type = "coin"})

contractOn(c, network) == IF c.network = network THEN c.contract ELSE c.testContract

Resolved(chain, network, asset) ==
    {c \in ListBlockchainCurrencies(chain) :
        c.type = "token" /\ (contractOn(c, network) = asset \/ asset \in c.aliases)}

\* The first of them, by name.
GetCurrencyByBlockchainAndContract(chain, network, asset) == First(Resolved(chain, network, asset))

Live == {c \in Currencies : ~c.deprecated}

\* Of each blockchain that fees are calculated for there is a coin.
ASSUME PricingAssumption ==
    /\ \A c \in Currencies : /\ DefaultSetup(c) /\ c.decimals \in Nat /\ 10^c.decimals \in Nat \ {0}
                             /\ c.ticker \notin Fiats /\ c.normal \notin Fiats
    /\ \A c \in Live : c.chain \in {"ETH", "MATIC", "BSC", "TRON"} /\ GetNativeCoin(c.chain) \in Currencies
    /\ Usd \in Fiats /\ RatesTTL \in Nat \ {0}
    /\ \A s \in DOMAIN FixedRates : IsFraction(FixedRates[s]) /\ FixedRates[s].num > 0
    /\ \A s \in DOMAIN FixedRates, d \in DOMAIN FixedRates : d \in Fiats \ {s} => <<s, d>> \in Pairs
    /\ \A r \in Offers \cup Prices \cup {ServiceFee} : IsFraction(r)
    /\ GasPrices \subseteq Nat /\ Tips \subseteq Nat /\ Holdings \subseteq Nat /\ Requests \subseteq Nat
    /\ \A type \in {"coin", "token"} : Gas[type] \in Nat /\ TronFees[type] \in Nat

-----------------------------------------------------------------------------
(* Rates *)

\* ETH_USDT -> USDT
NormalizeTicker(ticker) ==
    IF ticker \in Fiats THEN ticker ELSE GetCurrencyByTicker(ticker).normal

fallbackExchangeRate(desired, selected) ==
    Fraction(FixedRates[selected].num * FixedRates[desired].den,
             FixedRates[selected].den * FixedRates[desired].num)

\* Mutant: the currency of the price is not part of the key.
keyWithoutBase(desired, selected) == <<selected, Usd>>

tatumRateCacheKey(desired, selected) == <<selected, desired>>

NoRate == Fraction(0, 1)
Forgotten == [left |-> 0, rate |-> NoRate]

\* The outcomes of a lookup, with the cache after it: a hit, whose time to live starts
\* anew, the fixed rate, Tatum's answer, or an error.
getTatumExchangeRate(cached, desired, selected) ==
    LET key == tatumRateCacheKey(desired, selected)
        found(r) == [ok |-> TRUE, rate |-> r, cache |-> [cached EXCEPT ![key] = [left |-> RatesTTL, rate |-> r]]]
        error == [ok |-> FALSE, rate |-> NoRate, cache |-> cached]
    IN  IF key \in Pairs /\ cached[key].left > 0 THEN {found(cached[key].rate)}
        ELSE IF ~online THEN {IF {selected, desired} \subseteq DOMAIN FixedRates
                              THEN found(fallbackExchangeRate(desired, selected)) ELSE error}
        ELSE IF <<selected, desired>> \in Pairs THEN {found(market[<<selected, desired>>]), error}
        ELSE {error}

determineConversionType(from, to) ==
    CASE from \in Fiats /\ to \in Fiats -> "fiatToFiat"
      [] from \in Fiats /\ to \notin Fiats -> "fiatToCrypto"
      [] from \notin Fiats /\ to \in Fiats -> "cryptoToFiat"
      [] OTHER -> "none"

\* The pair that is quoted: a fiat price of the other currency.
PairOf(from, to) ==
    IF determineConversionType(from, to) = "fiatToCrypto"
    THEN <<NormalizeTicker(to), from>> ELSE <<NormalizeTicker(from), to>>

\* Tatum has no rate from fiat to crypto: the other way round, reversed.
GetExchangeRate(cached, from, to) ==
    LET pair == PairOf(from, to) IN
    IF from = to THEN {[ok |-> TRUE, rate |-> Fraction(1, 1), cache |-> cached]}
    ELSE {IF o.ok /\ determineConversionType(from, to) = "fiatToCrypto"
          THEN [o EXCEPT !.rate = Reversed(@)] ELSE o :
             o \in getTatumExchangeRate(cached, pair[2], pair[1])}

-----------------------------------------------------------------------------
(* Conversions: sets of [from, to, rate, cache]; NoMoney for an error *)

Conversions(from, o, results) ==
    IF o.ok THEN {[from |-> from, to |-> m, rate |-> o.rate, cache |-> o.cache] : m \in results}
    ELSE {[from |-> from, to |-> NoMoney, rate |-> NoRate, cache |-> o.cache]}

Rejected(cached, from) == {[from |-> from, to |-> NoMoney, rate |-> NoRate, cache |-> cached]}

FiatToFiat(cached, from, to) ==
    UNION {Conversions(from, o, {IF m = NoMoney THEN NoMoney ELSE [m EXCEPT !.ticker = to] :
                                   m \in MultiplyFloat64(from, o.rate)}) :
              o \in GetExchangeRate(cached, from.ticker, to)}

\* One coin, times the price, times the rate.
FiatToCrypto(cached, from, to) ==
    IF from.type # "fiat" \/ from.value = 0 THEN Rejected(cached, from)
    ELSE UNION {Conversions(from, o,
                   UNION {MultiplyFloat64(m, o.rate) :
                            m \in UNION {MultiplyFloat64(one, FiatToFloat64(from)) :
                                           one \in CryptoFromFloat64(to.ticker, Fraction(1, 1), to.decimals)}}) :
                  o \in GetExchangeRate(cached, from.ticker, to.ticker)}

CryptoToFiat(cached, from, to) ==
    IF from.type # "crypto" THEN Rejected(cached, from)
    ELSE UNION {Conversions(from, o, CryptoToFiatAt(from, to, o.rate)) :
                  o \in GetExchangeRate(cached, from.ticker, to)}

\* The API of rates: amounts are parsed as fractions, then converted.
Parsed(from, amount) ==
    IF from \in Fiats THEN FiatFromFloat64(from, amount)
    ELSE CryptoFromFloat64(from, amount, GetCurrencyByTicker(from).decimals)

Converted(cached, type, m, to) ==
    CASE m = NoMoney \/ type = "none" -> Rejected(cached, m)
      [] m # NoMoney /\ type = "fiatToFiat" -> FiatToFiat(cached, m, to)
      [] m # NoMoney /\ type = "fiatToCrypto" -> FiatToCrypto(cached, m, GetCurrencyByTicker(to))
      [] m # NoMoney /\ type = "cryptoToFiat" -> CryptoToFiat(cached, m, to)

ConvertResults(cached, from, to, amount) ==
    UNION {Converted(cached, determineConversionType(from, to), m, to) : m \in Parsed(from, amount)}

-----------------------------------------------------------------------------
(* Network fees *)

\* The gas price, raised to be confident, and the tip, for each unit of gas.
gasCost(c, confident, gasPrice, tip) ==
    LET native == GetNativeCoin(c.chain)
        amount(n) == Money("crypto", native.ticker, n, native.decimals)
    IN  UNION {MultiplyFloat64(Add(raised, amount(tip)), Fraction(Gas[c.type], 1)) :
                 raised \in MultiplyFloat64(amount(gasPrice), confident)}

ethFee(c, gasPrice, tip) == gasCost(c, Fraction(23, 20), gasPrice, tip)
maticFee(c, gasPrice, tip) == gasCost(c, Fraction(11, 10), gasPrice, tip)
bscFee(c, gasPrice, tip) == gasCost(c, Fraction(11, 10), gasPrice, tip)
tronFee(c) ==
    LET native == GetNativeCoin(c.chain)
    IN  {Money("crypto", native.ticker, TronFees[c.type], native.decimals)}

CalculateFee(c, gasPrice, tip) ==
    CASE c.chain = "ETH" -> ethFee(c, gasPrice, tip)
      [] c.chain = "MATIC" -> maticFee(c, gasPrice, tip)
      [] c.chain = "BSC" -> bscFee(c, gasPrice, tip)
      [] c.chain = "TRON" -> tronFee(c)

atLeastOneCent(usd) == IF usd.value = 0 THEN [usd EXCEPT !.value = 1] ELSE usd

-----------------------------------------------------------------------------
(* Requests *)

NoQuote == [kind |-> "none"]
NoAmount == -1     \* a merchant who only asks for the fee

PricingInit(online0, first) ==
    /\ online = online0 /\ market = first
    /\ past = [p \in Pairs |-> {first[p]}]
    /\ rates = [p \in Pairs |-> Forgotten]
    /\ quote = NoQuote

\* The last request is answered, and the next one may come.
Idle == quote = NoQuote

Answer ==
    /\ quote.kind \in {"conversion", "method", "offer", "withdrawal", "asset"}
    /\ quote' = NoQuote
    /\ UNCHANGED <<online, market, past, rates>>

\* GET /currencies/convert and the payment page.
Convert(from, to, amount) ==
    /\ Idle
    /\ \E r \in ConvertResults(rates, from, to, amount) :
         /\ rates' = r.cache
         /\ quote' = IF r.to = NoMoney THEN NoQuote
                     ELSE [kind |-> "conversion", from |-> r.from, to |-> r.to]
    /\ UNCHANGED <<online, market, past>>

\* createIncomingTransaction: the amount to pay and the service's share of it ...
PriceMethod(price, c) ==
    /\ Idle
    /\ \E r \in FiatToCrypto(rates, price, c) : \E fee \in MultiplyFloat64(r.to, ServiceFee) :
         /\ rates' = r.cache
         /\ quote' = IF NoMoney \in {r.to, fee} THEN NoQuote
                     ELSE [kind |-> "priced", from |-> price, to |-> r.to, fee |-> fee]
    /\ UNCHANGED <<online, market, past>>

\* ... and the price in dollars.
PriceInUSD ==
    /\ quote.kind = "priced"
    /\ \E r \in FiatToFiat(rates, quote.from, Usd) :
         /\ rates' = r.cache
         /\ quote' = IF r.to = NoMoney THEN NoQuote
                     ELSE [kind |-> "method", from |-> quote.from, to |-> quote.to,
                           fee |-> quote.fee, usd |-> r.to]
    /\ UNCHANGED <<online, market, past>>

\* CreateWithdrawal and GetWithdrawalFee: what the network costs, in dollars ...
CalculateWithdrawalFeeUSD(c, held, wanted) ==
    /\ Idle
    /\ \E gasPrice \in GasPrices, tip \in Tips : \E cost \in CalculateFee(c, gasPrice, tip) :
         \E r \in CryptoToFiat(rates, cost, Usd) :
            /\ rates' = r.cache
            /\ quote' = IF r.to = NoMoney THEN NoQuote
                        ELSE [kind |-> "fee", cost |-> cost, usd |-> atLeastOneCent(r.to),
                              of |-> c, held |-> held, wanted |-> wanted]
    /\ UNCHANGED <<online, market, past>>

\* Mutant: the most that can be withdrawn is the balance.
wholeBalance(balance, fee) == balance

MaximumAmount(balance, fee) ==
    IF Sub(balance, fee) = NoMoney THEN [balance EXCEPT !.value = 0] ELSE Sub(balance, fee)

\* Balance.Covers: one expense after the other.
Covers(balance, amount, fee) ==
    Sub(balance, amount) # NoMoney /\ Sub(Sub(balance, amount), fee) # NoMoney

\* ... and in the currency that is withdrawn; a withdrawal must be covered with its fee.
getWithdrawalFee ==
    /\ quote.kind = "fee"
    /\ LET coins(n) == Money("crypto", quote.of.ticker, n, quote.of.decimals) IN
       \E r \in FiatToCrypto(rates, quote.usd, quote.of) :
          /\ rates' = r.cache
          /\ quote' = IF r.to = NoMoney THEN NoQuote
                      ELSE LET offer(kind) ==
                                 [kind |-> kind, usd |-> quote.usd, fee |-> r.to, cost |-> quote.cost,
                                  held |-> quote.held, wanted |-> quote.wanted,
                                  maximum |-> MaximumAmount(coins(quote.held), r.to)]
                           IN  IF quote.wanted = NoAmount THEN offer("offer")
                               ELSE IF /\ Covers(coins(quote.held), coins(quote.wanted), r.to)
                                       /\ ~GreaterThan(coins(quote.wanted), offer("").maximum)
                                    THEN offer("withdrawal")
                                    ELSE NoQuote
    /\ UNCHANGED <<online, market, past>>

\* A webhook names a token by its contract.
ResolveAsset(chain, network, asset) ==
    /\ Idle
    /\ quote' = IF Resolved(chain, network, asset) = {} THEN NoQuote
                ELSE [kind |-> "asset", network |-> network, asset |-> asset,
                      found |-> GetCurrencyByBlockchainAndContract(chain, network, asset)]
    /\ UNCHANGED <<online, market, past, rates>>

\* The market moves.
Move(pair, rate) ==
    /\ rate # market[pair]
    /\ market' = [market EXCEPT ![pair] = rate]
    /\ past' = [past EXCEPT ![pair] = @ \cup {rate}]
    /\ UNCHANGED <<online, rates, quote>>

\* Cached rates grow old.
RatesExpire ==
    /\ \E p \in Pairs : rates[p].left > 0
    /\ rates' = [p \in Pairs |-> IF rates[p].left <= 1 THEN Forgotten
                                 ELSE [rates[p] EXCEPT !.left = @ - 1]]
    /\ UNCHANGED <<online, market, past, quote>>

Networks == UNION {{c.network, c.testNetwork} : c \in Currencies}
Contracts == UNION {{c.contract, c.testContract} \cup c.aliases : c \in Currencies}

PricingNext ==
    \/ \E from, to \in Fiats \cup {c.ticker : c \in Currencies}, amount \in Prices :
         Convert(from, to, amount)
    \/ \E c \in Live, fiat \in Fiats, amount \in Prices :
         \E price \in FiatFromFloat64(fiat, amount) \ {NoMoney} : PriceMethod(price, c)
    \/ PriceInUSD
    \/ \E c \in Live, held \in Holdings, wanted \in Requests \cup {NoAmount} :
         CalculateWithdrawalFeeUSD(c, held, wanted)
    \/ getWithdrawalFee
    \/ Answer
    \/ \E c \in Currencies, network \in Networks, asset \in Contracts :
         ResolveAsset(c.chain, network, asset)
    \/ \E pair \in Pairs : \E rate \in Markets[pair] : Move(pair, rate)
    \/ RatesExpire

PricingSpec(online0, first) == PricingInit(online0, first) /\ [][PricingNext]_pricingVars

-----------------------------------------------------------------------------
(* Properties *)

\* The rates a pair may have been quoted at.
Quoted(desired, selected) ==
    IF desired = selected THEN {Fraction(1, 1)}
    ELSE IF online THEN past[<<selected, desired>>]
    ELSE {fallbackExchangeRate(desired, selected)}

\* The result is no more than the exact value at the rate r, and the rounding loses at
\* most one unit, and one before it is multiplied by a reversed rate.
Fair(from, to, r) ==
    LET base == IF to.type = "crypto" THEN r.den ELSE r.num
        unit == IF to.type = "crypto" THEN r.num ELSE r.den
        exact == Fraction(from.value * base * 10^to.decimals, unit * 10^from.decimals)
        slack == IF to.type = "crypto" THEN Fraction(r.num + r.den, r.num) ELSE Fraction(1, 1)
    IN  /\ unit > 0
        /\ to.value * exact.den <= exact.num
        /\ (exact.num - to.value * exact.den) * slack.den <= slack.num * exact.den

FairlyQuoted(from, to) ==
    \E r \in Quoted(IF to.type = "crypto" THEN from.ticker ELSE to.ticker,
                    NormalizeTicker(IF to.type = "crypto" THEN to.ticker ELSE from.ticker)) :
       Fair(from, to, r)

\* Whatever is cached and however the market moves meanwhile, a customer is never asked for
\* more than the price is worth, and for less by rounding alone, at a rate this very pair of
\* currencies has had; so with the price in dollars and with every conversion of the API
\* (GetExchangeRate and its cache, Convert, createIncomingTransaction).
ConversionIsFair ==
    /\ quote.kind \in {"conversion", "priced", "method"} => FairlyQuoted(quote.from, quote.to)
    /\ quote.kind = "method" => /\ FairlyQuoted(quote.from, quote.usd)
                                /\ quote.fee.value * ServiceFee.den <= quote.to.value * ServiceFee.num

\* No withdrawal is free: the fee is at least a cent and something in the currency withdrawn,
\* and no less, but for rounding, than the network costs at a rate the coin has had; amount and
\* fee together, and the maximum offered and the fee, do not exceed the balance
\* (CalculateWithdrawalFeeUSD, getWithdrawalFee, CreateWithdrawal).
WithdrawalPaysItsFee ==
    quote.kind \in {"offer", "withdrawal"} =>
        /\ quote.usd.value >= 1 /\ quote.fee.value >= 1
        /\ \E r \in Quoted(Usd, NormalizeTicker(quote.cost.ticker)) :
             (quote.usd.value + 1) * r.den * 10^quote.cost.decimals >= quote.cost.value * r.num * 100
        /\ quote.maximum.value > 0 => quote.maximum.value + quote.fee.value <= quote.held
        /\ quote.kind = "withdrawal" => quote.wanted + quote.fee.value <= quote.held
=============================================================================
