------------------------------ MODULE MCPlatform ------------------------------
(***************************************************************************)
(* Five parts the payments rest on: the system's wallets, the sweeps from  *)
(* them, the trackers of blockchains, prices and fees, and subscriptions.  *)
(* They share no state but for the wallets, which sweeps find made, so a   *)
(* behaviour is one of one part, while the others stay as they began.      *)
(***************************************************************************)
EXTENDS InternalTransfer, Tracker, Pricing, Subscriptions
CONSTANTS ethereum, tron, bitcoin, j1, j2, e1, e2, d1, d2, d3, w1, w2, eth, usdt

VARIABLE part

MCFamily == [c \in Chains |-> CASE c = tron -> "tron" [] c = bitcoin -> "utxo" [] OTHER -> "evm"]
MCRows == <<[key |-> 1, type |-> "inbound"], [key |-> 2, type |-> "other"],
            [key |-> 3, type |-> "inbound"]>>

\* An inbound wallet with a coin and a token, and the outbound wallet, which has no
\* balances yet.
MCSwept == <<[key |-> 1, type |-> "inbound"], [key |-> 2, type |-> "outbound"]>>
MCDeposits == [i \in Keys |-> IF i = 1 THEN (eth :> 12 @@ usdt :> 5) ELSE <<>>]
MCArrives == (usdt :> 5)
MCShares == (usdt :> 4)
MCTopUps == {[ticker |-> usdt, amount |-> 5]}
MCMinimums == {(eth :> 10 @@ usdt :> 5), (eth :> 10 @@ usdt :> 6)}

MCFallbacks == <<e2, e1, e2>>
MCDefaults == <<e2>>
Deposit(ours, amount, success) == [ours |-> ours, amount |-> amount, success |-> success, native |-> TRUE]
MCAbout == (d1 :> Deposit(TRUE, 2, TRUE)) @@ (d2 :> Deposit(TRUE, 1, FALSE)) @@ (d3 :> Deposit(FALSE, 2, TRUE))

Native(ticker) ==
    [ticker |-> ticker, chain |-> IF ticker = "BNB" THEN "BSC" ELSE ticker, type |-> "coin",
     normal |-> ticker, decimals |-> 4, network |-> "main", testNetwork |-> "test",
     contract |-> "", testContract |-> "", aliases |-> {}, deprecated |-> FALSE]
Token(ticker, contract, testContract, aliases) ==
    [Native(ticker) EXCEPT !.chain = "ETH", !.type = "token", !.normal = "USDT",
        !.contract = contract, !.testContract = testContract, !.aliases = aliases]
MCCurrencies ==
    {Native("ETH"), Native("MATIC"), Native("BNB"), Native("TRON"),
     Token("ETH_USDT", "0xa", "0xb", {"usdt"}),
     [Token("ETH_OLD", "0xc", "0xa", {}) EXCEPT !.deprecated = TRUE]}
MCSorts == [ETH |-> 1, MATIC |-> 2, BNB |-> 3, TRON |-> 4, ETH_USDT |-> 5, ETH_OLD |-> 6]
MCMarkets ==
    (<<"ETH", "USD">> :> {Fraction(7, 1), Fraction(9, 1)}) @@ (<<"ETH", "EUR">> :> {Fraction(5, 1)})
    @@ (<<"USDT", "USD">> :> {Fraction(1, 1), Fraction(0, 1)}) @@ (<<"TRON", "USD">> :> {Fraction(1, 15)})
    @@ (<<"MATIC", "USD">> :> {Fraction(6, 5)}) @@ (<<"BNB", "USD">> :> {Fraction(4, 1)})
    @@ (<<"EUR", "USD">> :> {Fraction(11, 10)}) @@ (<<"USD", "EUR">> :> {Fraction(10, 11)})
MCOpening == [p \in Pairs |-> CHOOSE r \in Markets[p] : r.num > 0]
MCFixedRates == [USD |-> Fraction(1, 1), EUR |-> Fraction(6, 5), ETH |-> Fraction(8, 1)]
MCPrices == {Fraction(3, 2), Fraction(1, 200)}
MCGas == [coin |-> 2, token |-> 6]
MCTronFees == [coin |-> 1, token |-> 300]
MCServiceFee == Fraction(1, 10)

MCSettings ==
    LET both == [main |-> TRUE, test |-> TRUE]
        setting(apiKeys, secret, force, local) ==
            [keys |-> apiKeys, secret |-> secret, force |-> force, local |-> local]
    IN  {setting(both, "s1", FALSE, FALSE), setting([both EXCEPT !.test = FALSE], "s1", FALSE, FALSE),
         setting(both, "s2", FALSE, FALSE), setting(both, "s2", TRUE, FALSE),
         setting(both, NoSecret, FALSE, TRUE), setting(both, Placeholder, FALSE, FALSE)}

allWallets == <<walletVars, proc, transferVars>>

Init ==
    /\ part \in {"wallets", "sweep", "tracker", "pricing", "subscriptions"}
    /\ WalletsInit(CASE part = "wallets" -> MCRows [] part = "sweep" -> MCSwept [] OTHER -> <<>>)
    /\ TransferInit
    /\ TrackerInit
    /\ \E on \in BOOLEAN : PricingInit(on, MCOpening) /\ (part = "pricing" \/ on)
    /\ SubscriptionsInit
    /\ part # "tracker" => /\ family = "utxo" /\ asset = "coin" /\ job.task = "list"

WalletsStep ==
    /\ part = "wallets"
    /\ WalletsNext \/ \E j \in Processes : In(j, "match") /\ Rest(j) /\ UNCHANGED walletVars
    /\ UNCHANGED <<transferVars, trackerVars, pricingVars, subsVars, part>>
\* Bound: one job, which makes no wallets and begins when the last batch has ended.
SweepStep ==
    /\ part = "sweep" /\ TransferNext
    /\ proc'[j2] = Resting /\ proc'[j1].pc # "kms"
    /\ proc' # proc => todo = {} /\ \A w \in Workers : work[w] = Free
    /\ UNCHANGED <<trackerVars, pricingVars, subsVars, part>>
TrackerStep ==
    /\ part = "tracker" /\ TrackerNext
    /\ UNCHANGED <<allWallets, pricingVars, subsVars, part>>
\* Bound: four rates are cached at once; a request reads two.
PricingStep ==
    /\ part = "pricing" /\ PricingNext
    /\ Cardinality({p \in Pairs : rates'[p].left > 0}) <= 4
    /\ UNCHANGED <<allWallets, trackerVars, subsVars, part>>
SubscriptionsStep ==
    /\ part = "subscriptions" /\ SubscriptionsNext
    /\ UNCHANGED <<allWallets, trackerVars, pricingVars, part>>

Next == WalletsStep \/ SweepStep \/ TrackerStep \/ PricingStep \/ SubscriptionsStep
Spec == Init /\ [][Next]_<<allWallets, trackerVars, pricingVars, subsVars, part>>
Interchangeable == Permutations(Workers)
=============================================================================
