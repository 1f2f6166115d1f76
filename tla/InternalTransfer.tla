-------------------------- MODULE InternalTransfer --------------------------
(***************************************************************************)
(* The scheduler moves what customers paid from the inbound wallets of an  *)
(* account chain to the outbound one: PerformInternalWalletTransfer lists  *)
(* the wallets and their balances, BatchCreateInternalTransfers sends one  *)
(* transaction for each balance in a goroutine of its own, and             *)
(* CheckInternalTransferProgress settles them by their receipts.  An       *)
(* operator may give a merchant what belongs to no merchant (top-up).      *)
(*                                                                         *)
(* funds is what the chain holds, balance what the database says.  A       *)
(* transaction is identified by its row.  The coin pays for the gas of     *)
(* tokens too.                                                             *)
(***************************************************************************)
EXTENDS SystemWallets

CONSTANTS
    Workers,      \* goroutines of the batches
    Tickers,      \* currencies of the chain
    Coin,         \* the one that pays for gas
    Deposits,     \* what customers paid at first: wallet id -> ticker -> amount
    Arrives,      \* amount of a later payment, of each ticker that is paid later
    Shares,       \* what of it belongs to the merchant
    Minimums,     \* the least amounts that are worth a transfer, by rates of exchange
    NetworkFees,  \* fees the chain may charge
    TopUps,       \* tickers and amounts an operator may give
    Outcomes,     \* subset of {"rejected", "reverted"}: what may fail
    Faults,       \* subset of {"error", "overlap", "topup"}
    Limit,        \* transactions a check lists
    MaxTx,        \* bound: transactions
    MaxNonce,     \* bound: nonces taken; more than MaxTx, as a confirmation that
                  \* fails counts its nonce at every attempt
    MaxPayments   \* bound: later payments

TxIds == 1..MaxTx

\* Who owns a balance: a wallet, or the merchant.
Merchant == 0
Entities == Keys \cup {Merchant}

ASSUME InternalTransferAssumption ==
    /\ Coin \in Tickers /\ Merchant \notin Keys /\ NetworkFees \subseteq Nat \ {0} /\ MaxTx \in Nat
    /\ \A i \in Keys : \E S \in SUBSET Tickers : Deposits[i] \in [S -> Nat]
    /\ DOMAIN Arrives \subseteq Tickers
    /\ \A k \in DOMAIN Arrives : Arrives[k] \in Nat /\ Shares[k] \in Nat /\ Shares[k] <= Arrives[k]
    /\ \A k \in Tickers, m \in Minimums : m[k] \in Nat \ {0}
    /\ \A t \in TopUps : t.ticker \in Tickers /\ t.amount \in Nat

VARIABLES
    balance,     \* the table balances: of an entity, the amounts of the currencies it has a row of
    todo,        \* balances a batch goes on to transfer
    txs,         \* the table transactions
    confirmed,   \* wallets.confirmed_mainnet_transactions
    pending,     \* wallets.pending_mainnet_transactions
    work,        \* a goroutine
    operator,    \* the command topup_balance
    chain,       \* the blockchain's view of a transaction
    funds,       \* what a wallet has on the blockchain
    payments     \* later payments so far

counters == <<confirmed, pending>>
network == <<chain, funds, payments>>
transferVars == <<balance, todo, txs, counters, work, operator, network>>

NoTx == [status |-> "none", from |-> 0, to |-> 0, ticker |-> Coin, amount |-> 0, hash |-> FALSE]
NotSent == [state |-> "unsent", nonce |-> 0, fee |-> 0]
Free == [pc |-> "idle", from |-> 0, to |-> 0, ticker |-> Coin, amount |-> 0, nonce |-> 0,
         tx |-> 0, moved |-> FALSE]
NoTopUp == [pc |-> "idle", ticker |-> Coin, amount |-> 0, owed |-> 0]

TransferInit ==
    /\ balance = [e \in Entities |-> IF e = Merchant THEN <<>> ELSE Deposits[e]]
    /\ funds = [i \in Keys |-> [k \in Tickers |-> IF k \in DOMAIN Deposits[i] THEN Deposits[i][k] ELSE 0]]
    /\ todo = {} /\ txs = [t \in TxIds |-> NoTx]
    /\ confirmed = [i \in Keys |-> 0] /\ pending = [i \in Keys |-> 0]
    /\ work = [w \in Workers |-> Free] /\ operator = NoTopUp
    /\ chain = [t \in TxIds |-> NotSent] /\ payments = 0

Doing(w, p) == work[w].pc = p
Goto(w, p) == work' = [work EXCEPT ![w].pc = p]
End(w) == work' = [work EXCEPT ![w] = Free]

-----------------------------------------------------------------------------
(* The table balances *)

HasBalance(b, e, k) == k \in DOMAIN b[e]
Amount(b, e, k) == IF HasBalance(b, e, k) THEN b[e][k] ELSE 0

\* The rows of an entity, and those of more currencies.
WithRows(rows, currencies, amount) ==
    [k \in DOMAIN rows \cup currencies |-> IF k \in DOMAIN rows THEN rows[k] ELSE amount]

CreateBalance(b, e, k, amount) == [b EXCEPT ![e] = WithRows(@, {k}, amount)]
UpdateBalanceByID(b, e, k, delta) == [b EXCEPT ![e][k] = @ + delta]

\* The table's constraint: an update that takes more than there is fails.
Covered(b, e, k, delta) == Amount(b, e, k) + delta >= 0

\* In the database transaction of the caller; the first update creates the row.
UpdateBalance(b, e, k, delta) ==
    IF HasBalance(b, e, k) THEN UpdateBalanceByID(b, e, k, delta) ELSE CreateBalance(b, e, k, delta)

\* An empty one of each currency that an entity has no row of.
EnsureBalance(rows) == WithRows(rows, Tickers, 0)

\* A change by hand, in a database transaction of its own: not by nothing, and of a row
\* that there is.
validUpdate(delta) == delta # 0
MayChange(e, k, delta) ==
    validUpdate(delta) /\ HasBalance(balance, e, k) /\ Covered(balance, e, k, delta)

ListBalances(e) == {[from |-> e, ticker |-> k, seen |-> balance[e][k]] : k \in DOMAIN balance[e]}

\* What the entities of a type own of a currency.
ListAllBalancesByType(entities, k) == Total([e \in entities |-> Amount(balance, e, k)])

-----------------------------------------------------------------------------
(* The table transactions *)

\* Of an internal transaction: there is an amount, and both wallets.
validTransfer(c) == c.amount > 0 /\ c.from # 0 /\ c.to # 0

InsertTransaction(t, c) ==
    txs' = [txs EXCEPT ![t] = [status |-> "pending", from |-> c.from, to |-> c.to,
                               ticker |-> c.ticker, amount |-> c.amount, hash |-> FALSE]]

getByID(t) == txs[t]

\* Of a row that there is and whose status is another.
confirm(t, status) == getByID(t).status \notin {"none", status}
UpdateTransaction(t, status) == txs' = [txs EXCEPT ![t].status = status]
CancelTransaction(t, status) == txs' = [txs EXCEPT ![t].status = status]

GetTransactionsByFilter(statuses) == {t \in TxIds : txs[t].status \in statuses}

\* The newest ones.
ListByFilter(statuses, limit) ==
    LET found == GetTransactionsByFilter(statuses)
    IN  {t \in found : Cardinality({u \in found : u > t}) < limit}

-----------------------------------------------------------------------------
(* The job, after it has listed the inbound wallets *)

Worth(ids, min) ==
    {b \in UNION {ListBalances(i) : i \in ids} : b.seen >= min[b.ticker]}

\* One balance that is not worth it fails the batch.
validateInboundBalances(batch, min) ==
    \A b \in batch : /\ b.seen > 0 /\ b.seen >= min[b.ticker]
                     /\ wallets[b.from].type = "inbound"

\* The balances of the listed wallets that are worth a transfer; they are validated
\* once more, at a rate that may have moved.
Match(j) ==
    /\ In(j, "match")
    /\ \/ "overlap" \in Faults
       \/ todo = {} /\ \A w \in Workers : work[w].pc # "idle" => work[w].from = 0
    /\ \E min, later \in Minimums :
         LET batch == Worth(ToSet(proc[j].listed), min)
         IN  todo' = IF validateInboundBalances(batch, later) THEN todo \cup batch ELSE todo
    /\ Rest(j)
    /\ UNCHANGED <<walletVars, balance, txs, counters, work, operator, network>>

\* All of a token, 90 % of the coin.
determineInternalTransferAmount(ticker, amount) ==
    IF ticker = Coin THEN (amount * 9) \div 10 ELSE amount

\* A goroutine takes a balance.  There is an outbound wallet, as the job ensured it.
StartTransfer(w, b) ==
    \E i \in Ids :
        /\ work[w] = Free /\ b \in todo
        /\ wallets[i].type = "outbound"
        /\ todo' = todo \ {b}
        /\ work' = [work EXCEPT ![w] =
                      [Free EXCEPT !.pc = "nonce", !.from = b.from, !.to = i, !.ticker = b.ticker,
                                   !.amount = determineInternalTransferAmount(b.ticker, b.seen)]]
        /\ UNCHANGED <<walletVars, proc, balance, txs, counters, operator, network>>

-----------------------------------------------------------------------------
(* createInternalTransfer *)

TakeNonce(w) ==
    LET i == work[w].from IN
    /\ Doing(w, "nonce") /\ confirmed[i] + pending[i] < MaxNonce
    /\ pending' = [pending EXCEPT ![i] = @ + 1]
    /\ work' = [work EXCEPT ![w].pc = "sign", ![w].nonce = confirmed[i] + pending[i]]
    /\ UNCHANGED <<walletVars, proc, balance, todo, txs, confirmed, operator, network>>

\* The KMS signs; then the row is created.
SignAndCreateTx(w) ==
    \E t \in TxIds :
        /\ Doing(w, "sign") /\ KmsSigns(wallets[work[w].from].key) /\ validTransfer(work[w])
        /\ txs[t].status = "none" /\ \A u \in 1..(t - 1) : txs[u].status # "none"
        /\ InsertTransaction(t, work[w])
        /\ chain' = [chain EXCEPT ![t].nonce = work[w].nonce]
        /\ work' = [work EXCEPT ![w].pc = "decrement", ![w].tx = t]
        /\ UNCHANGED <<walletVars, proc, balance, todo, counters, operator, funds, payments>>

\* The balance may be another now than when it was listed.
Decrement(w) ==
    LET l == work[w] IN
    /\ Doing(w, "decrement")
    /\ IF MayChange(l.from, l.ticker, -l.amount)
       THEN /\ balance' = UpdateBalanceByID(balance, l.from, l.ticker, -l.amount)
            /\ work' = [work EXCEPT ![w].pc = "broadcast", ![w].moved = TRUE]
       ELSE Goto(w, "undoNonce") /\ UNCHANGED balance
    /\ UNCHANGED <<walletVars, proc, todo, txs, counters, operator, network>>

Needs(t, k) == (IF txs[t].ticker = k THEN txs[t].amount ELSE 0)
               + (IF k = Coin THEN Max(NetworkFees) ELSE 0)

\* Nodes take a transaction that the account can pay and whose nonce is not used.
Acceptable(t) ==
    /\ \A k \in Tickers : funds[txs[t].from][k] >= Needs(t, k)
    /\ \A u \in TxIds : (u # t /\ txs[u].from = txs[t].from /\ chain[u].nonce = chain[t].nonce)
                           => chain[u].state = "unsent"

Broadcast(w) ==
    LET t == work[w].tx IN
    /\ Doing(w, "broadcast")
    /\ \/ /\ Acceptable(t)
          /\ chain' = [chain EXCEPT ![t].state = "pool"]
          /\ Goto(w, "setHash")
       \/ /\ "rejected" \in Outcomes \/ ~Acceptable(t)
          /\ Goto(w, "undoNonce")
          /\ UNCHANGED chain
    /\ UNCHANGED <<walletVars, proc, balance, todo, txs, counters, operator, funds, payments>>

SetHash(w) ==
    /\ Doing(w, "setHash")
    /\ txs' = [txs EXCEPT ![work[w].tx].hash = TRUE]
    /\ End(w)
    /\ UNCHANGED <<walletVars, proc, balance, todo, counters, operator, network>>

\* The KMS or the database fails before the broadcast.
Error(w) ==
    /\ \/ "error" \in Faults /\ work[w].pc \in {"sign", "decrement"}
       \/ Doing(w, "sign") /\ (~validTransfer(work[w]) \/ \A t \in TxIds : txs[t].status # "none")
    /\ Goto(w, "undoNonce")
    /\ UNCHANGED <<walletVars, proc, balance, todo, txs, counters, operator, network>>

-----------------------------------------------------------------------------
(* rollbackInternalTransfer *)

\* ErrTxRollback if nothing is pending: the rest is not rolled back.
UndoNonce(w) ==
    LET i == work[w].from IN
    /\ Doing(w, "undoNonce")
    /\ pending' = IF pending[i] = 0 THEN pending ELSE [pending EXCEPT ![i] = @ - 1]
    /\ IF pending[i] = 0 \/ work[w].tx = 0 THEN End(w) ELSE Goto(w, "undoTx")
    /\ UNCHANGED <<walletVars, proc, balance, todo, txs, confirmed, operator, network>>

UndoTx(w) ==
    /\ Doing(w, "undoTx")
    /\ CancelTransaction(work[w].tx, "canceled")
    /\ Goto(w, "undoBalance")
    /\ UNCHANGED <<walletVars, proc, balance, todo, counters, operator, network>>

UndoBalance(w) ==
    LET l == work[w] IN
    /\ Doing(w, "undoBalance")
    /\ balance' = IF l.moved THEN UpdateBalanceByID(balance, l.from, l.ticker, l.amount) ELSE balance
    /\ End(w)
    /\ UNCHANGED <<walletVars, proc, todo, txs, counters, operator, network>>

-----------------------------------------------------------------------------
(* checkInternalTransaction *)

\* Those whose hash was kept; the receipt says whether it was executed or reverted.
StartCheck(w, t) ==
    /\ work[w] = Free /\ t \in ListByFilter({"pending"}, Limit) /\ getByID(t).hash
    /\ \A v \in Workers : work[v].tx # t
    /\ chain[t].state \in {"success", "reverted"}
    /\ work' = [work EXCEPT ![w] = [Free EXCEPT !.tx = t,
                                      !.pc = IF chain[t].state = "success" THEN "confirm" ELSE "cancel"]]
    /\ UNCHANGED <<walletVars, proc, balance, todo, txs, counters, operator, network>>

\* Counted first, and ErrTxConfirm if nothing is pending; a failure of the next step
\* leaves it counted.
SettleNonce(w) ==
    LET i == txs[work[w].tx].from IN
    /\ work[w].pc \in {"confirm", "cancel"}
    /\ IF pending[i] = 0 THEN End(w) /\ UNCHANGED counters
       ELSE /\ confirmed' = [confirmed EXCEPT ![i] = @ + 1]
            /\ pending' = [pending EXCEPT ![i] = @ - 1]
            /\ Goto(w, IF Doing(w, "confirm") THEN "settle" ELSE "chargeFee")
    /\ UNCHANGED <<walletVars, proc, balance, todo, txs, operator, network>>

Credited(t) == UpdateBalance(balance, txs[t].to, txs[t].ticker, txs[t].amount)

\* Mutant: the sender does not pay the fee.
ConfirmFree(w) ==
    LET t == work[w].tx IN
    /\ Doing(w, "settle")
    /\ balance' = Credited(t)
    /\ UpdateTransaction(t, "completed")
    /\ End(w)
    /\ UNCHANGED <<walletVars, proc, todo, counters, operator, network>>

\* transactions.Confirm, one database transaction: the recipient is credited, and the
\* sender's coin pays the fee.
ConfirmTx(w) ==
    LET t == work[w].tx IN
    /\ Doing(w, "settle")
    /\ IF confirm(t, "completed") /\ Covered(balance, txs[t].from, Coin, -chain[t].fee)
       THEN /\ balance' = UpdateBalance(Credited(t), txs[t].from, Coin, -chain[t].fee)
            /\ UpdateTransaction(t, "completed")
       ELSE UNCHANGED <<balance, txs>>
    /\ End(w)
    /\ UNCHANGED <<walletVars, proc, todo, counters, operator, network>>

\* transactions.Cancel takes the fee, then fails the row.
ChargeFee(w) ==
    LET t == work[w].tx IN
    /\ Doing(w, "chargeFee")
    /\ IF Covered(balance, txs[t].from, Coin, -chain[t].fee)
       THEN /\ balance' = UpdateBalance(balance, txs[t].from, Coin, -chain[t].fee)
            /\ Goto(w, "failTx")
       ELSE End(w) /\ UNCHANGED balance
    /\ UNCHANGED <<walletVars, proc, todo, txs, counters, operator, network>>

FailTx(w) ==
    /\ Doing(w, "failTx")
    /\ CancelTransaction(work[w].tx, "failed")
    /\ Goto(w, "restore")
    /\ UNCHANGED <<walletVars, proc, balance, todo, counters, operator, network>>

Restore(w) ==
    LET t == work[w].tx IN
    /\ Doing(w, "restore")
    /\ balance' = UpdateBalanceByID(balance, txs[t].from, txs[t].ticker, txs[t].amount)
    /\ End(w)
    /\ UNCHANGED <<walletVars, proc, todo, txs, counters, operator, network>>

-----------------------------------------------------------------------------
(* TopupMerchantFromSystem *)

\* Mutant: what merchants own counts as the system's.
SystemIsAll(held, owed) == held

\* What the wallets hold beyond what merchants own; it may be negative.
composeSystemBalances(held, owed) == held - owed

\* The merchants' balances are read first, and later the wallets'.
ListAllBalances(k, owed) == composeSystemBalances(ListAllBalancesByType(Keys, k), owed)

StartTopUp(k, amount) ==
    /\ operator = NoTopUp
    /\ operator' = [pc |-> "read", ticker |-> k, amount |-> amount, owed |-> ListAllBalancesByType({Merchant}, k)]
    /\ UNCHANGED <<walletVars, proc, balance, todo, txs, counters, work, network>>

\* Covers
CheckSystemBalance ==
    /\ operator.pc = "read"
    /\ operator' = IF ListAllBalances(operator.ticker, operator.owed) >= operator.amount
                     /\ operator.amount > 0
                   THEN [operator EXCEPT !.pc = "credit"] ELSE NoTopUp
    /\ UNCHANGED <<walletVars, proc, balance, todo, txs, counters, work, network>>

\* The payment and its virtual transaction, which is confirmed; or one of them fails.
CreateSystemTopup ==
    /\ operator.pc = "credit"
    /\ \/ balance' = UpdateBalance(balance, Merchant, operator.ticker, operator.amount)
       \/ "error" \in Faults /\ UNCHANGED balance
    /\ operator' = NoTopUp
    /\ UNCHANGED <<walletVars, proc, todo, txs, counters, work, network>>

-----------------------------------------------------------------------------
(* The environment *)

\* A payment to an inbound wallet is confirmed.  With "topup" in Faults that may be
\* between the two reads of a top-up.
Pay(i, k) ==
    /\ payments < MaxPayments /\ i \in Ids /\ wallets[i].type = "inbound"
    /\ "topup" \in Faults \/ operator.pc # "read"
    /\ payments' = payments + 1
    /\ balance' = UpdateBalance(UpdateBalance(balance, i, k, Arrives[k]), Merchant, k, Shares[k])
    /\ funds' = [funds EXCEPT ![i][k] = @ + Arrives[k]]
    /\ UNCHANGED <<walletVars, proc, todo, txs, counters, work, operator, chain>>

Executed(i) == Cardinality({t \in TxIds : txs[t].from = i /\ chain[t].state \in {"success", "reverted"}})

\* The transactions of an account are executed in the order of their nonces.
Mine(t) ==
    LET i == txs[t].from IN
    /\ chain[t].state = "pool" /\ chain[t].nonce = Executed(i)
    /\ \E verdict \in {"success"} \cup (Outcomes \cap {"reverted"}), fee \in NetworkFees :
         LET pays == [funds EXCEPT ![i][Coin] = @ - fee]
             sends == [pays EXCEPT ![i][txs[t].ticker] = @ - txs[t].amount]
         IN
         /\ funds[i][Coin] >= fee
         /\ verdict = "success" => pays[i][txs[t].ticker] >= txs[t].amount
         /\ chain' = [chain EXCEPT ![t].state = verdict, ![t].fee = fee]
         /\ funds' = IF verdict = "reverted" THEN pays
                     ELSE [sends EXCEPT ![txs[t].to][txs[t].ticker] = @ + txs[t].amount]
    /\ UNCHANGED <<walletVars, proc, balance, todo, txs, counters, work, operator, payments>>

\* Once a job has ensured the outbound wallet, it gives it a balance of every currency;
\* then it lists the inbound ones.
EnsureBalances ==
    LET outbound == {i \in Ids' : wallets'[i].type = "outbound"}
        ensured == \E j \in Processes : ~In(j, "list") /\ In(j, "list")'
    IN  balance' = [e \in Entities |-> IF ensured /\ e \in outbound THEN EnsureBalance(balance[e])
                                       ELSE balance[e]]

sweepVars == <<walletVars, proc, transferVars>>

TransferNext ==
    \/ WalletsNext /\ EnsureBalances
       /\ UNCHANGED <<todo, txs, counters, work, operator, network>>
    \/ \E j \in Processes : Match(j)
    \/ \E w \in Workers :
         \/ \E b \in todo : StartTransfer(w, b)
         \/ TakeNonce(w) \/ SignAndCreateTx(w) \/ Decrement(w) \/ Broadcast(w) \/ SetHash(w)
         \/ Error(w) \/ UndoNonce(w) \/ UndoTx(w) \/ UndoBalance(w)
         \/ \E t \in TxIds : StartCheck(w, t)
         \/ SettleNonce(w) \/ ConfirmTx(w) \/ ChargeFee(w) \/ FailTx(w) \/ Restore(w)
    \/ \E t \in TopUps : StartTopUp(t.ticker, t.amount)
    \/ CheckSystemBalance \/ CreateSystemTopup
    \/ \E i \in Keys, k \in DOMAIN Arrives : Pay(i, k)
    \/ \E t \in TxIds : Mine(t)

TransferSpec(rows) == WalletsInit(rows) /\ TransferInit /\ [][TransferNext]_sweepVars

-----------------------------------------------------------------------------
WasSent(t) == chain[t].state # "unsent"

\* Transactions that were made and not sent, and are not cancelled either: their rollback
\* found no nonce to give back, and stopped there.
Stranded == {t \in TxIds : txs[t].status = "pending" /\ ~WasSent(t)}
Takes(t, i, k) == IF txs[t].from = i /\ txs[t].ticker = k THEN txs[t].amount ELSE 0

\* When nothing is under way and every transaction that was sent is settled, the
\* wallets' balances are what the chain holds: amounts, fees, rollbacks of rejected
\* and restorations of reverted transfers all add up, coins and tokens alike, but for
\* what stranded transactions may have taken.
LedgerMatchesChain ==
    ((\A w \in Workers : work[w] = Free) /\ \A t \in TxIds : WasSent(t) => txs[t].status # "pending") =>
        \E lost \in SUBSET Stranded : \A i \in Keys, k \in Tickers :
            Amount(balance, i, k) + Total([t \in lost |-> Takes(t, i, k)]) = funds[i][k]

\* Merchants never own more than the chain holds, fees aside: a top-up gives only
\* what belongs to no merchant, while transfers move the rest about.
Solvent ==
    \A k \in Tickers :
        Amount(balance, Merchant, k) <= Total([i \in Keys |-> funds[i][k]])
                       + (IF k = Coin THEN Total([t \in TxIds |-> chain[t].fee]) ELSE 0)
=============================================================================
