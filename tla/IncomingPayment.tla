--------------------------- MODULE IncomingPayment ---------------------------
(***************************************************************************)
(* How OxygenPay collects one payment.  The customer picks a currency and  *)
(* gets a fresh deposit address, locks the choice and pays; the deposit is *)
(* noticed by a provider webhook or by the scheduler's scan of the chain,  *)
(* confirmed or reverted by the chain, and the payment and the balances    *)
(* follow.  A third scheduler job expires the payments nobody paid.        *)
(*                                                                         *)
(* A worker is a goroutine: an HTTP handler, or one item of a scheduler    *)
(* batch.  The scheduler starts a job whether or not its last run is over, *)
(* and webhooks come at any time, so every job may run on every worker.    *)
(* One step of a worker is one database statement (or one database         *)
(* transaction that reads before it takes a row lock: then one step for    *)
(* the read and one for the write and commit) or one question to the chain.*)
(*                                                                         *)
(* A definition marked "Mutant" is not part of the specification: it is    *)
(* the one after it with a plausible bug, which a property must catch.     *)
(***************************************************************************)
EXTENDS Integers, FiniteSets

CONSTANTS
    Workers,         \* goroutines
    Jobs,            \* the jobs that run: a subset of AllJobs
    Faults,          \* TRUE: a job may stop between any two steps
    Tickers,         \* currencies the merchant accepts
    UtxoCoins,       \* the tickers of BTC and LTC
    TronCoins,       \* the tickers of TRON's coin
    Tokens,          \* the tickers of tokens (ERC-20, TRC-20)
    Scanned,         \* the tickers on EVM chains, of which the last blocks are scanned
    OneTrx,          \* one TRX in TRON's smallest unit (1000000)
    Hashes,          \* blockchain transactions
    DepositAmounts,  \* what a customer may send
    Amount,          \* price of the payment in every ticker
    Tolerance,       \* the one cent that an underpayment may miss
    ServiceFee,      \* DefaultServiceFee applied to Amount
    MaxTx,           \* bound: rows of the table transactions
    MaxWallets,      \* bound: inbound wallets created
    None

AllJobs == {"webhook", "discover", "check", "expire", "method", "lock"}
TxIds == 1..MaxTx
Wallets == 1..MaxWallets

ASSUME ConstantsAssumption ==
    /\ Jobs \subseteq AllJobs
    /\ Faults \in BOOLEAN
    /\ UtxoCoins \cup TronCoins \cup Tokens \cup Scanned \subseteq Tickers
    /\ OneTrx \in Nat
    /\ DepositAmounts \subseteq Nat
    /\ Amount \in Nat /\ Tolerance \in Nat /\ ServiceFee \in Nat
    /\ MaxTx \in Nat /\ MaxWallets \in Nat
    /\ None \notin Workers \cup Tickers \cup Hashes

VARIABLES
    pay,              \* payments.status
    customer,         \* payments.customer_id is set
    txs,              \* transactions: row id -> row
    lastTx,           \* the last row id given out
    lastWallet,       \* the last inbound wallet created
    locks,            \* wallet_locks: locked <<wallet, ticker>>
    walletBalance,    \* balances of the inbound wallets, added up per ticker
    merchantBalance,  \* balances of the merchant per ticker
    shown,            \* wallets whose address the customer was shown
    chain,            \* the blockchain's view of every deposit
    holder,           \* who runs inside locker.Do of this payment
    work              \* a worker's job, program counter and local variables

vars == <<pay, customer, txs, lastTx, lastWallet, locks, walletBalance,
          merchantBalance, shown, chain, holder, work>>
ledger == <<walletBalance, merchantBalance>>
setup == <<customer, lastTx, lastWallet, shown>>

PayStatus == {"pending", "locked", "inProgress", "success", "failed"}
InProgress == {"inProgress", "inProgressInv"}
Finalized == {"completed", "completedInv", "canceled", "failed"}
TxStatus == {"none", "pending"} \cup InProgress \cup Finalized
Steps == {"idle", "unexpected", "createUnexpected", "receive", "markInProgress",
          "candidate", "reload", "receipt", "confirmRead", "confirmWrite",
          "markConfirmed", "cancelTx", "releaseLock", "failPayment", "latest",
          "observe", "lockWait", "current", "freshWallet", "createTx",
          "method", "lockWrite"}

(* The fact_amount of a row is always written together with its hash, so   *)
(* it is the amount of that deposit.                                       *)
Row == [status: TxStatus, owner: {"merchant", "system"}, wallet: 0..MaxWallets,
        ticker: Tickers \cup {None}, hash: Hashes \cup {None}, fee: {0, ServiceFee}]
NoRow == [status |-> "none", owner |-> "system", wallet |-> 0,
          ticker |-> None, hash |-> None, fee |-> 0]
Local == [job: AllJobs \cup {"none"}, pc: Steps, tx: 0..MaxTx,
          hash: Hashes \cup {None}, seen: TxStatus,
          ticker: Tickers \cup {None}, wallet: 0..MaxWallets]
Idle == [job |-> "none", pc |-> "idle", tx |-> 0, hash |-> None, seen |-> "none",
         ticker |-> None, wallet |-> 0]
Deposits == [state: {"absent", "seen", "success", "reverted"}, wallet: 0..MaxWallets,
             ticker: Tickers \cup {None}, amount: Nat]
NoDeposit == [state |-> "absent", wallet |-> 0, ticker |-> None, amount |-> 0]

Init ==
    /\ pay = "pending" /\ customer = FALSE
    /\ txs = [t \in TxIds |-> NoRow] /\ lastTx = 0
    /\ lastWallet = 0 /\ locks = {}
    /\ walletBalance = [k \in Tickers |-> 0]
    /\ merchantBalance = [k \in Tickers |-> 0]
    /\ shown = {} /\ chain = [h \in Hashes |-> NoDeposit]
    /\ holder = None
    /\ work = [w \in Workers |-> Idle]

-----------------------------------------------------------------------------
(* Queries *)

\* GetLatestByPaymentID: the rows with this payment as entity, newest first.
PaymentTxs == {t \in TxIds : txs[t].status # "none" /\ txs[t].owner = "merchant"}
IsLatest(t) == t \in PaymentTxs /\ \A u \in PaymentTxs : u <= t

\* GetByHash says "limit 1" without an order: with several rows, any of them.
RowsWithHash(h) == {t \in TxIds : txs[t].status # "none" /\ txs[t].hash = h}

\* The filter of processExpectedWebhook.
Awaiting(h) ==
    {t \in TxIds : /\ txs[t].status = "pending" /\ txs[t].hash = None
                   /\ txs[t].wallet = chain[h].wallet
                   /\ txs[t].ticker = chain[h].ticker}

\* What the three listings tell apart.  Empty transfers are listed of tokens only;
\* failed transfers and activations of one TRX are not listed on TRON.
ListedToken(h) == chain[h].state # "reverted"
ListedTron(h) ==
    chain[h].state # "reverted" /\ chain[h].amount > 0 /\ chain[h].amount # OneTrx
ListedCoin(h) == chain[h].amount > 0

\* ListIncomingTransactions for the row's address and currency.
Listed(t) ==
    LET k == txs[t].ticker IN
    {h \in Hashes : /\ chain[h].state # "absent"
                    /\ chain[h].wallet = txs[t].wallet /\ chain[h].ticker = k
                    /\ CASE k \in Tokens -> ListedToken(h)
                         [] k \in TronCoins -> ListedTron(h)
                         [] OTHER -> ListedCoin(h)}

\* The answers it may give: an old deposit has left the blocks that are scanned, and
\* one of the explorer's two lookups, for the mempool and the blocks, may fail.
Listings(t) ==
    LET all == Listed(t)
        mined == {h \in all : chain[h].state # "seen"}
    IN
    {l \in SUBSET all :
        \/ l = all
        \/ txs[t].ticker \in Scanned /\ all \ mined \subseteq l
        \/ txs[t].ticker \in UtxoCoins /\ Faults /\ l \cap mined \in {{}, mined}}

\* canUseObservedCandidate may say yes, and may say no.
MayUse(t, h) == RowsWithHash(h) = {} \/ t \in RowsWithHash(h)
MayRefuse(t, h) == RowsWithHash(h) \ {t} # {}

\* determineIncomingStatus
IncomingStatus(h) ==
    IF chain[h].amount + Tolerance >= Amount THEN "inProgress" ELSE "inProgressInv"

\* processTronAccountActivation looks at the amount in the smallest unit.
IsActivation(h) == chain[h].ticker \in TronCoins /\ chain[h].amount = 1

\* confirmIncomingTransaction derives both new statuses from the row it was given.
ConfirmedStatus(seen) ==
    IF seen = "inProgressInv" THEN "completedInv" ELSE "completed"

\* Mutant: the merchant is credited the price, not what was paid.
GainsPrice(h) == IF chain[h].amount > 0 THEN Amount ELSE 0

\* What an incoming transaction gains for the merchant before the fee.
Gained(h) == IF chain[h].amount > Amount THEN Amount ELSE chain[h].amount

-----------------------------------------------------------------------------
(* Steps of a worker *)

At(w, p) == work[w].pc = p
Goto(w, p) == work' = [work EXCEPT ![w].pc = p]
End(w) == work' = [work EXCEPT ![w] = Idle]
Begin(w, l) == /\ l.job \in Jobs /\ work[w] = Idle
               /\ work' = [work EXCEPT ![w] = l]

Insert(row) == /\ lastTx < MaxTx
               /\ lastTx' = lastTx + 1
               /\ txs' = [txs EXCEPT ![lastTx + 1] = row]

-----------------------------------------------------------------------------
(* Provider webhook: ProcessIncomingWebhook.  A webhook may be repeated.   *)

StartWebhook(w, h) ==
    /\ chain[h].state # "absent"
    /\ \/ /\ IsActivation(h) \/ Awaiting(h) = {}
          /\ Begin(w, [Idle EXCEPT !.job = "webhook", !.hash = h, !.pc = "unexpected"])
       \/ /\ ~IsActivation(h)
          /\ \E t \in Awaiting(h) :
                /\ \A u \in Awaiting(h) : u <= t
                /\ Begin(w, [Idle EXCEPT !.job = "webhook", !.hash = h,
                                         !.pc = "receive", !.tx = t])
    /\ UNCHANGED <<pay, txs, setup, locks, ledger, chain, holder>>

\* Mutant: an unexpected webhook is recorded without looking for its hash.
UnexpectedUnchecked(w) ==
    /\ At(w, "unexpected")
    /\ Goto(w, "createUnexpected")
    /\ UNCHANGED <<pay, txs, setup, locks, ledger, chain, holder>>

\* processUnexpectedWebhook asks whether some row has this hash ...
Unexpected(w) ==
    /\ At(w, "unexpected")
    /\ IF RowsWithHash(work[w].hash) = {} THEN Goto(w, "createUnexpected") ELSE End(w)
    /\ UNCHANGED <<pay, txs, setup, locks, ledger, chain, holder>>

\* ... and createUnexpectedTransaction inserts one; Create refuses a zero amount.
CreateUnexpected(w) ==
    LET dep == chain[work[w].hash] IN
    /\ At(w, "createUnexpected")
    /\ \/ /\ dep.amount > 0
          /\ Insert([status |-> "inProgress", owner |-> "system", wallet |-> dep.wallet,
                     ticker |-> dep.ticker, hash |-> work[w].hash, fee |-> 0])
       \/ /\ dep.amount = 0 \/ lastTx = MaxTx
          /\ UNCHANGED <<txs, lastTx>>
    /\ End(w)
    /\ UNCHANGED <<pay, customer, lastWallet, shown, locks, ledger, chain, holder>>

-----------------------------------------------------------------------------
(* ProcessInboundTransaction, shared by webhooks and discovery *)

\* transactions.Receive: one database transaction that overwrites the row,
\* whatever it holds by now, and releases the wallet.  It refuses a zero amount.
Receive(w) ==
    LET t == work[w].tx
        h == work[w].hash
    IN
    /\ At(w, "receive")
    /\ IF chain[h].amount = 0
       THEN End(w) /\ UNCHANGED <<txs, locks>>
       ELSE /\ txs' = [txs EXCEPT ![t].status = IncomingStatus(h), ![t].hash = h]
            /\ locks' = locks \ {<<txs[t].wallet, txs[t].ticker>>}
            /\ CASE IncomingStatus(h) = "inProgress" -> Goto(w, "markInProgress")
                 [] IncomingStatus(h) # "inProgress" /\ work[w].job = "discover" ->
                        Goto(w, "reload")
                 [] OTHER -> End(w)
    /\ UNCHANGED <<pay, setup, ledger, chain, holder>>

MarkInProgress(w) ==
    /\ At(w, "markInProgress")
    /\ pay' = "inProgress"
    /\ IF work[w].job = "discover" THEN Goto(w, "reload") ELSE End(w)
    /\ UNCHANGED <<txs, setup, locks, ledger, chain, holder>>

-----------------------------------------------------------------------------
(* Scheduler: BatchDiscoverIncomingTransactions *)

StartDiscover(w, t) ==
    /\ txs[t].status = "pending" /\ txs[t].hash = None
    /\ Begin(w, [Idle EXCEPT !.job = "discover", !.pc = "candidate", !.tx = t])
    /\ UNCHANGED <<pay, txs, setup, locks, ledger, chain, holder>>

\* The candidates that are skipped leave no trace: one step picks the first
\* that is not, or finds none.  The code goes on to the next candidate after one
\* that is unconfirmed; here that is a choice of the next one in the first place.
Candidate(w) ==
    LET t == work[w].tx IN
    /\ At(w, "candidate")
    /\ \E l \in Listings(t) :
         \/ \E h \in l :
              /\ MayUse(t, h)
              /\ work' = [work EXCEPT ![w].pc = "receipt", ![w].hash = h]
         \/ /\ \A h \in l : MayRefuse(t, h)
            /\ End(w)
    /\ UNCHANGED <<pay, txs, setup, locks, ledger, chain, holder>>

\* processConfirmedInboundTransaction reloads the row and goes on with what it
\* finds; the receipt it acts on is the candidate's.
Reload(w) ==
    LET row == txs[work[w].tx] IN
    /\ At(w, "reload")
    /\ work' = [work EXCEPT ![w].seen = row.status, ![w].hash = row.hash,
                            ![w].pc = IF chain[work[w].hash].state = "success"
                                      THEN "confirmRead" ELSE "cancelTx"]
    /\ UNCHANGED <<pay, txs, setup, locks, ledger, chain, holder>>

-----------------------------------------------------------------------------
(* Scheduler: BatchCheckIncomingTransactions *)

StartCheck(w, t) ==
    /\ txs[t].status \in InProgress
    /\ Begin(w, [Idle EXCEPT !.job = "check", !.pc = "receipt", !.tx = t,
                             !.hash = txs[t].hash, !.seen = txs[t].status])
    /\ UNCHANGED <<pay, txs, setup, locks, ledger, chain, holder>>

\* Mutant: the number of confirmations is not looked at.
ReceiptUnconfirmed(w) ==
    /\ At(w, "receipt")
    /\ Goto(w, CASE work[w].job = "discover" -> "receive"
                 [] work[w].job # "discover" -> "confirmRead")
    /\ UNCHANGED <<pay, txs, setup, locks, ledger, chain, holder>>

\* GetTransactionReceipt: unconfirmed is left for a later run.
Receipt(w) ==
    LET state == chain[work[w].hash].state IN
    /\ At(w, "receipt")
    /\ CASE state \notin {"success", "reverted"} -> End(w)
         [] state \in {"success", "reverted"} /\ work[w].job = "discover" ->
                Goto(w, "receive")
         [] state = "success" /\ work[w].job # "discover" -> Goto(w, "confirmRead")
         [] state = "reverted" /\ work[w].job # "discover" -> Goto(w, "cancelTx")
    /\ UNCHANGED <<pay, txs, setup, locks, ledger, chain, holder>>

\* transactions.confirm reads the row; the same status again is ErrSameStatus.
ConfirmRead(w) ==
    /\ At(w, "confirmRead")
    /\ IF txs[work[w].tx].status = ConfirmedStatus(work[w].seen)
       THEN End(w)
       ELSE Goto(w, "confirmWrite")
    /\ UNCHANGED <<pay, txs, setup, locks, ledger, chain, holder>>

\* The merchant is credited what completes a payment.
Credited(w) ==
    ConfirmedStatus(work[w].seen) = "completed" /\ txs[work[w].tx].owner = "merchant"

\* It then writes the row and the balances and commits; a fee above the gain
\* rolls everything back.  completedInv drops the fee and credits no merchant.
ConfirmWrite(w) ==
    LET t == work[w].tx
        h == work[w].hash
        k == txs[t].ticker
        status == ConfirmedStatus(work[w].seen)
    IN
    /\ At(w, "confirmWrite")
    /\ IF Credited(w) /\ Gained(h) < txs[t].fee
       THEN End(w) /\ UNCHANGED <<txs, ledger>>
       ELSE /\ txs' = [txs EXCEPT ![t].status = status, ![t].hash = h,
                                  ![t].fee = IF status = "completedInv" THEN 0 ELSE @]
            /\ walletBalance' = [walletBalance EXCEPT ![k] = @ + chain[h].amount]
            /\ merchantBalance' = IF Credited(w)
                  THEN [merchantBalance EXCEPT ![k] = @ + (Gained(h) - txs[t].fee)]
                  ELSE merchantBalance
            /\ IF txs[t].owner = "merchant" THEN Goto(w, "markConfirmed") ELSE End(w)
    /\ UNCHANGED <<pay, setup, locks, chain, holder>>

\* Mutant: every confirmation is taken for a success.
MarkSuccess(w) ==
    /\ At(w, "markConfirmed")
    /\ pay' = "success"
    /\ End(w)
    /\ UNCHANGED <<txs, setup, locks, ledger, chain, holder>>

MarkConfirmed(w) ==
    /\ At(w, "markConfirmed")
    /\ pay' = IF ConfirmedStatus(work[w].seen) = "completed" THEN "success" ELSE "failed"
    /\ End(w)
    /\ UNCHANGED <<txs, setup, locks, ledger, chain, holder>>

-----------------------------------------------------------------------------
(* transactions.Cancel: the status is committed on a connection of its own, *)
(* then the wallet lock goes.                                               *)

CancelStatus(j) == IF j \in {"discover", "check"} THEN "failed" ELSE "canceled"

CancelTx(w) ==
    /\ At(w, "cancelTx")
    /\ txs' = [txs EXCEPT ![work[w].tx].status = CancelStatus(work[w].job)]
    /\ Goto(w, "releaseLock")
    /\ UNCHANGED <<pay, setup, locks, ledger, chain, holder>>

\* Mutant: Cancel leaves the wallet locked.
KeepLock(w) ==
    /\ At(w, "releaseLock")
    /\ Goto(w, IF work[w].job = "method" THEN "freshWallet" ELSE "failPayment")
    /\ UNCHANGED <<pay, txs, setup, locks, ledger, chain, holder>>

\* Mutant: cancelIncomingTransaction forgets the payment.
ReleaseLockOnly(w) ==
    LET row == txs[work[w].tx] IN
    /\ At(w, "releaseLock")
    /\ locks' = locks \ {<<row.wallet, row.ticker>>}
    /\ CASE work[w].job = "method" -> Goto(w, "freshWallet")
         [] work[w].job = "expire" -> Goto(w, "failPayment")
         [] OTHER -> End(w)
    /\ UNCHANGED <<pay, txs, setup, ledger, chain, holder>>

ReleaseLock(w) ==
    LET row == txs[work[w].tx] IN
    /\ At(w, "releaseLock")
    /\ locks' = locks \ {<<row.wallet, row.ticker>>}
    /\ CASE work[w].job = "method" -> Goto(w, "freshWallet")
         [] work[w].job # "method" /\ row.owner = "merchant" -> Goto(w, "failPayment")
         [] work[w].job # "method" /\ row.owner # "merchant" -> End(w)
    /\ UNCHANGED <<pay, txs, setup, ledger, chain, holder>>

FailPayment(w) ==
    /\ At(w, "failPayment")
    /\ pay' = "failed"
    /\ End(w)
    /\ UNCHANGED <<txs, setup, locks, ledger, chain, holder>>

-----------------------------------------------------------------------------
(* Scheduler: BatchExpirePayments.  Time is left out: an unpaid payment may *)
(* be past its expiry whenever the job runs.                                *)

StartExpire(w) ==
    /\ pay \in {"pending", "locked"}
    /\ Begin(w, [Idle EXCEPT !.job = "expire", !.pc = "latest"])
    /\ UNCHANGED <<pay, txs, setup, locks, ledger, chain, holder>>

\* expirePayment up to shouldDeferPaymentExpiry's question to the chain.
Latest(w) ==
    /\ At(w, "latest")
    /\ \/ PaymentTxs = {} /\ Goto(w, "failPayment")
       \/ \E t \in TxIds :
            LET row == txs[t] IN
            /\ IsLatest(t)
            /\ \/ /\ row.status = "canceled"
                  /\ Goto(w, "failPayment")
               \/ /\ row.status \in Finalized \ {"canceled"}
                  /\ work' = [work EXCEPT ![w].pc = "cancelTx", ![w].tx = t]
               \/ /\ row.status \notin Finalized
                  /\ row.hash # None \/ row.status \in InProgress
                  /\ End(w)
               \/ /\ row.status = "pending" /\ row.hash = None
                  /\ work' = [work EXCEPT ![w].pc = "observe", ![w].tx = t]
    /\ UNCHANGED <<pay, txs, setup, locks, ledger, chain, holder>>

\* ObserveIncomingTransaction: a deposit that is in sight defers the expiry.
Observe(w) ==
    LET t == work[w].tx IN
    /\ At(w, "observe")
    /\ \E l \in Listings(t) :
         \/ (\E h \in l : MayUse(t, h)) /\ End(w)
         \/ (\A h \in l : MayRefuse(t, h)) /\ Goto(w, "cancelTx")
    /\ UNCHANGED <<pay, txs, setup, locks, ledger, chain, holder>>

-----------------------------------------------------------------------------
(* Payment API: SetPaymentMethod *)

\* The payment was read by the middleware, before locker.Do.
StartMethod(w, k) ==
    /\ pay = "pending"
    /\ Begin(w, [Idle EXCEPT !.job = "method", !.pc = "lockWait", !.ticker = k])
    /\ UNCHANGED <<pay, txs, setup, locks, ledger, chain, holder>>

\* Mutant: locker.Do lets everybody in.
AcquireAnyway(w) ==
    /\ At(w, "lockWait")
    /\ holder' = w
    /\ Goto(w, "current")
    /\ UNCHANGED <<pay, txs, setup, locks, ledger, chain>>

AcquireLock(w) ==
    /\ At(w, "lockWait") /\ holder = None
    /\ holder' = w
    /\ Goto(w, "current")
    /\ UNCHANGED <<pay, txs, setup, locks, ledger, chain>>

\* The five cases of the callback.
Current(w) ==
    /\ At(w, "current")
    /\ \/ /\ PaymentTxs = {}
          /\ Goto(w, "freshWallet")
          /\ UNCHANGED holder
       \/ \E t \in TxIds :
            /\ IsLatest(t)
            /\ \/ /\ txs[t].status = "canceled"
                  /\ Goto(w, "freshWallet")
                  /\ UNCHANGED holder
               \/ /\ txs[t].status # "canceled" /\ txs[t].ticker = work[w].ticker
                  /\ End(w)
                  /\ holder' = None
               \/ /\ txs[t].status # "canceled" /\ txs[t].ticker # work[w].ticker
                  /\ work' = [work EXCEPT ![w].pc = "cancelTx", ![w].tx = t]
                  /\ UNCHANGED holder
    /\ UNCHANGED <<pay, txs, setup, locks, ledger, chain>>

\* Mutant: a wallet that is not locked is used again, as wallet.AcquireLock does.
ReuseWallet(w) ==
    /\ At(w, "freshWallet")
    /\ \E wt \in Wallets :
         /\ wt <= lastWallet + 1 /\ <<wt, work[w].ticker>> \notin locks
         /\ lastWallet' = IF wt > lastWallet THEN wt ELSE lastWallet
         /\ locks' = locks \cup {<<wt, work[w].ticker>>}
         /\ work' = [work EXCEPT ![w].pc = "createTx", ![w].wallet = wt]
    /\ UNCHANGED <<pay, customer, txs, lastTx, shown, ledger, chain, holder>>

\* AcquireFreshLock: a new wallet and its lock, in one database transaction.
FreshWallet(w) ==
    /\ At(w, "freshWallet")
    /\ lastWallet < MaxWallets
    /\ lastWallet' = lastWallet + 1
    /\ locks' = locks \cup {<<lastWallet + 1, work[w].ticker>>}
    /\ work' = [work EXCEPT ![w].pc = "createTx", ![w].wallet = lastWallet + 1]
    /\ UNCHANGED <<pay, customer, txs, lastTx, shown, ledger, chain, holder>>

CreateTx(w) ==
    /\ At(w, "createTx")
    /\ Insert([status |-> "pending", owner |-> "merchant", wallet |-> work[w].wallet,
               ticker |-> work[w].ticker, hash |-> None, fee |-> ServiceFee])
    /\ End(w)
    /\ holder' = None
    /\ UNCHANGED <<pay, customer, lastWallet, shown, locks, ledger, chain>>

\* At the bounds the insert fails, which ends the request.
Refused(w) ==
    /\ \/ At(w, "freshWallet") /\ lastWallet = MaxWallets
       \/ At(w, "createTx") /\ lastTx = MaxTx
    /\ End(w)
    /\ holder' = None
    /\ UNCHANGED <<pay, txs, setup, locks, ledger, chain>>

-----------------------------------------------------------------------------
(* Payment API: AssignCustomerByEmail and LockPaymentOptions *)

AssignCustomer ==
    /\ pay = "pending" /\ ~customer
    /\ customer' = TRUE
    /\ UNCHANGED <<pay, txs, lastTx, lastWallet, shown, locks, ledger, chain, holder, work>>

\* Mutant: the address of a transaction that does not exist is shown.
ShowAddressOfNothing(t) ==
    /\ pay # "pending"
    /\ shown' = shown \cup {txs[t].wallet}
    /\ UNCHANGED <<pay, customer, txs, lastTx, lastWallet, locks, ledger, chain, holder, work>>

\* GetDetailedPayment shows the address of the latest transaction, of any
\* status, once the payment is no longer editable.
ShowAddress(t) ==
    /\ pay # "pending" /\ IsLatest(t)
    /\ shown' = shown \cup {txs[t].wallet}
    /\ UNCHANGED <<pay, customer, txs, lastTx, lastWallet, locks, ledger, chain, holder, work>>

\* GetDetailedPayment reads the payment and its customer ...
StartLock(w) ==
    /\ pay = "pending" /\ customer
    /\ Begin(w, [Idle EXCEPT !.job = "lock", !.pc = "method"])
    /\ UNCHANGED <<pay, txs, setup, locks, ledger, chain, holder>>

\* ... then the latest transaction, of any status, as the payment method.
Method(w) ==
    /\ At(w, "method")
    /\ IF PaymentTxs = {} THEN End(w) ELSE Goto(w, "lockWrite")
    /\ UNCHANGED <<pay, txs, setup, locks, ledger, chain, holder>>

LockWrite(w) ==
    /\ At(w, "lockWrite")
    /\ pay' = "locked"
    /\ End(w)
    /\ UNCHANGED <<txs, setup, locks, ledger, chain, holder>>

-----------------------------------------------------------------------------
(* A database, chain or provider error, a cancelled context or a crash ends *)
(* the job; locker.Do's lock goes with its goroutine or its connection.     *)

Abort(w) ==
    /\ Faults /\ work[w] # Idle
    /\ End(w)
    /\ holder' = IF holder = w THEN None ELSE holder
    /\ UNCHANGED <<pay, txs, setup, locks, ledger, chain>>

-----------------------------------------------------------------------------
(* The blockchain: a customer who was shown an address may pay at any later *)
(* time, more than once, the wrong amount or in another currency.           *)

Deposit(h, wt, k, a) ==
    /\ chain[h].state = "absent" /\ wt \in shown
    /\ chain' = [chain EXCEPT ![h] =
                    [state |-> "seen", wallet |-> wt, ticker |-> k, amount |-> a]]
    /\ UNCHANGED <<pay, txs, setup, locks, ledger, holder, work>>

Finalize(h, result) ==
    /\ chain[h].state = "seen"
    /\ chain' = [chain EXCEPT ![h].state = result]
    /\ UNCHANGED <<pay, txs, setup, locks, ledger, holder, work>>

-----------------------------------------------------------------------------
Step(w) ==
    \/ \E h \in Hashes : StartWebhook(w, h)
    \/ Unexpected(w) \/ CreateUnexpected(w) \/ Receive(w) \/ MarkInProgress(w)
    \/ \E t \in TxIds : StartDiscover(w, t) \/ StartCheck(w, t)
    \/ Candidate(w) \/ Reload(w) \/ Receipt(w)
    \/ ConfirmRead(w) \/ ConfirmWrite(w) \/ MarkConfirmed(w)
    \/ CancelTx(w) \/ ReleaseLock(w) \/ FailPayment(w)
    \/ StartExpire(w) \/ Latest(w) \/ Observe(w)
    \/ \E k \in Tickers : StartMethod(w, k)
    \/ AcquireLock(w) \/ Current(w) \/ FreshWallet(w) \/ CreateTx(w) \/ Refused(w)
    \/ StartLock(w) \/ Method(w) \/ LockWrite(w)
    \/ Abort(w)

Next ==
    \/ \E w \in Workers : Step(w)
    \/ AssignCustomer
    \/ \E t \in TxIds : ShowAddress(t)
    \/ \E h \in Hashes :
         \/ \E wt \in Wallets, k \in Tickers, a \in DepositAmounts : Deposit(h, wt, k, a)
         \/ \E r \in {"success", "reverted"} : Finalize(h, r)

Spec == Init /\ [][Next]_vars

-----------------------------------------------------------------------------
(* Properties *)

TypeOK ==
    /\ pay \in PayStatus /\ customer \in BOOLEAN
    /\ txs \in [TxIds -> Row] /\ lastTx \in 0..MaxTx
    /\ lastWallet \in 0..MaxWallets /\ locks \subseteq Wallets \X Tickers
    /\ shown \subseteq Wallets
    /\ walletBalance \in [Tickers -> Nat] /\ merchantBalance \in [Tickers -> Nat]
    /\ chain \in [Hashes -> Deposits]
    /\ holder \in Workers \cup {None}
    /\ work \in [Workers -> Local]

\* No two transactions of the payment were given the same deposit address
\* (createIncomingTransaction), whatever interleaves or fails.
SingleUseAddress ==
    \A t, u \in PaymentTxs : txs[t].wallet = txs[u].wallet => t = u

\* The ledger never owes the merchant more of a currency than it says the
\* wallets hold (updateBalancesAfterTxConfirmation), however often it runs.
Solvency == \A k \in Tickers : merchantBalance[k] <= walletBalance[k]

\* A payment is marked successful only if the chain confirmed a deposit to an
\* address that was given out for it.
PaidOnlyIfConfirmed ==
    pay = "success" =>
        \E h \in Hashes, t \in PaymentTxs :
            /\ chain[h].state = "success"
            /\ chain[h].wallet = txs[t].wallet /\ chain[h].ticker = txs[t].ticker

\* However many method changes, expiries and deposits overlap or fail midway, the
\* payment never has two transactions waiting for money at once: locker.Do
\* serialises the changes, and each cancels the old transaction first.
AtMostOnePending ==
    \A t, u \in PaymentTxs : txs[t].status = "pending" /\ txs[u].status = "pending" => t = u

Quiet == \A w \in Workers : work[w] = Idle

\* Between jobs the payment and its transactions agree: it succeeded exactly if
\* one of them completed, it failed only if none is open, and it is in progress
\* exactly while a sufficient deposit waits for its confirmation.
PaymentFollowsTxs ==
    LET has(s) == \E t \in PaymentTxs : txs[t].status = s IN
    Quiet => /\ (pay = "success") = has("completed")
             /\ (pay = "inProgress") = has("inProgress")
             /\ pay = "failed" => \A t \in PaymentTxs : txs[t].status \in Finalized

\* Between jobs no wallet stays locked for a transaction that no longer waits for
\* a deposit: Receive and Cancel release what AcquireFreshLock took.
NoLeakedLock ==
    Quiet => \A l \in locks : \E t \in PaymentTxs :
                txs[t].status = "pending" /\ l = <<txs[t].wallet, txs[t].ticker>>

\* The rows whose amount is in the balances.
Confirmed == {t \in TxIds : txs[t].status \in {"completed", "completedInv"}}

\* The abstract specification, over the tables.
Promise == INSTANCE PaymentPromise WITH
    status <- pay,
    paid <- \E t \in PaymentTxs : txs[t].status = "completed",
    booked <- {txs[t].hash : t \in Confirmed},
    held <- walletBalance,
    owed <- merchantBalance

\* One job after the other, collecting a payment keeps the promise: whichever of
\* webhook, discovery, check and expiry does the next step, every confirmed deposit
\* is booked once, at most one pays the merchant, together with the books and while
\* the payment is in progress, and the payment is settled once, as a success exactly
\* if the merchant was paid.
KeepsPromise == Promise!Spec

(* Fairness.  A started job runs on.  The scheduler's three jobs are started *)
(* for ever and each has its own goroutines, so each is started although     *)
(* another runs at most times (strong fairness, as the model may have but    *)
(* one worker).  The chain settles what it has seen.  Webhooks may be lost,  *)
(* and customers need do nothing.                                            *)
Running(w) == work[w] # Idle /\ Step(w)

Fairness ==
    /\ \A w \in Workers : WF_vars(Running(w))
    /\ SF_vars(\E w \in Workers : StartExpire(w))
    /\ \A t \in TxIds : /\ SF_vars(\E w \in Workers : StartDiscover(w, t))
                        /\ SF_vars(\E w \in Workers : StartCheck(w, t))
    /\ \A h \in Hashes : WF_vars(\E r \in {"success", "reverted"} : Finalize(h, r))

FairSpec == Spec /\ Fairness

\* Every payment is settled in the end: paid, or failed by expiry, underpayment
\* or a reverted deposit.
EventuallySettled == <>(pay \in {"success", "failed"})
=============================================================================
