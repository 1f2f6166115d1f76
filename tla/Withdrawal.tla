----------------------------- MODULE Withdrawal -----------------------------
(***************************************************************************)
(* How OxygenPay pays a merchant out of its outbound wallet, on the chains *)
(* with accounts (EVM, TRON).  The merchant asks for a withdrawal; the     *)
(* event bus and the scheduler both run BatchCreateWithdrawals, which      *)
(* signs a blockchain transaction with the wallet's next nonce, records    *)
(* it, moves the balances and broadcasts it, or rolls back; another job    *)
(* asks the chain what became of it.                                       *)
(*                                                                         *)
(* A worker is one goroutine of a batch.  One step of it is one database   *)
(* statement or transaction (two if it reads before it takes a row lock),  *)
(* or one question to the chain.  A row of the table transactions stands   *)
(* for the signed blockchain transaction too, as each is signed once.      *)
(*                                                                         *)
(* A definition marked "Mutant" is not part of the specification: it is    *)
(* the one after it with a plausible bug, which a property must catch.     *)
(***************************************************************************)
EXTENDS FiniteSets, Tables

CONSTANTS
    Workers,          \* goroutines
    Exclusive,        \* TRUE: no two batches overlap, so that a withdrawal is
                      \* worked on by one goroutine at a time
    Faults,           \* what may go wrong inside: subset of {"error", "crash"}
    Outcomes,         \* what a broadcast may come to: subset of AllOutcomes
    Nonced,           \* TRUE on EVM chains, where nonces order the transactions
    Withdrawals,      \* payments of type withdrawal
    Tickers,          \* currencies of one blockchain
    Coin,             \* the one its network fees are paid in
    TickerOf,         \* the currency of a withdrawal
    AmountOf,         \* its amount
    Fee,              \* the service fee of a withdrawal
    NetworkFees,      \* fees the chain may charge
    MerchantFunds,    \* the merchant's balances at first
    WalletFunds,      \* the outbound wallet's balances at first
    MaxTx,            \* bound: rows of the table transactions
    MaxNonce,         \* bound: nonces given out, of which crashes may waste any number
    None

AllOutcomes == {"accepted", "lost", "rejected", "poor"}
TxIds == 1..MaxTx

ASSUME ConstantsAssumption ==
    /\ Exclusive \in BOOLEAN /\ Nonced \in BOOLEAN
    /\ Faults \subseteq {"error", "crash"} /\ Outcomes \subseteq AllOutcomes
    /\ Coin \in Tickers
    /\ TickerOf \in [Withdrawals -> Tickers]
    /\ AmountOf \in [Withdrawals -> Nat]
    /\ Fee \in Nat /\ NetworkFees \subseteq Nat
    /\ MerchantFunds \in [Tickers -> Nat] /\ WalletFunds \in [Tickers -> Nat]
    /\ MaxTx \in Nat /\ MaxNonce \in Nat
    /\ None \notin Withdrawals

VARIABLES
    pay,              \* payments.status of a withdrawal
    asked,            \* requests that passed the balance check of the API
    txs,              \* transactions: row id -> row
    lastTx,           \* the last row id given out
    merchantBalance,  \* balances of the merchant
    walletBalance,    \* balances of the outbound wallet
    confirmed,        \* wallets.confirmed_mainnet_transactions
    pending,          \* wallets.pending_mainnet_transactions
    chain,            \* the blockchain's view of every signed transaction
    work              \* a worker's job, program counter and local variables

vars == <<pay, asked, txs, lastTx, merchantBalance, walletBalance,
          confirmed, pending, chain, work>>
ledger == <<merchantBalance, walletBalance>>
counters == <<confirmed, pending>>

PayStatus == {"none", "pending", "inProgress", "success", "failed"}
TxStatus == {"none", "pending", "completed", "canceled", "failed"}
CreateSteps == {"merchant", "nonce", "createTx", "decrement", "broadcast", "setHash",
                "markInProgress", "undoNonce", "undoTx", "undoBalances", "failPayment"}
CheckSteps == {"receipt", "confirmNonce", "confirmRead", "confirmWrite", "markSuccess",
               "cancelNonce", "chargeFee", "cancelTx", "restore", "failPayment"}

Row == [status: TxStatus, pay: Withdrawals \cup {None}, hash: BOOLEAN]
NoRow == [status |-> "none", pay |-> None, hash |-> FALSE]
OnChain == [state: {"unsent", "pool", "dropped", "success", "reverted"},
            nonce: Nat, fee: NetworkFees \cup {0}]
Unsent == [state |-> "unsent", nonce |-> 0, fee |-> 0]

(* seen: the outbound balance as the batch read it; moved and mark: the    *)
(* flags BalanceDecremented and MarkPaymentAsFailed of withdrawalOutput.   *)
Local == [pc: CreateSteps \cup CheckSteps \cup {"idle"}, pay: Withdrawals \cup {None},
          tx: 0..MaxTx, nonce: Nat, seen: Nat, moved: BOOLEAN, mark: BOOLEAN]
Idle == [pc |-> "idle", pay |-> None, tx |-> 0, nonce |-> 0, seen |-> 0,
         moved |-> FALSE, mark |-> FALSE]

Init ==
    /\ pay = [p \in Withdrawals |-> "none"] /\ asked = {}
    /\ txs = [t \in TxIds |-> NoRow] /\ lastTx = 0
    /\ merchantBalance = MerchantFunds /\ walletBalance = WalletFunds
    /\ confirmed = 0 /\ pending = 0
    /\ chain = [t \in TxIds |-> Unsent]
    /\ work = [w \in Workers |-> Idle]

-----------------------------------------------------------------------------
At(w, p) == work[w].pc = p
Goto(w, p) == work' = [work EXCEPT ![w].pc = p]
End(w) == work' = [work EXCEPT ![w] = Idle]
Begin(w, l) == /\ work[w] = Idle
               /\ Exclusive => \A v \in Workers : work[v].pay # l.pay
               /\ work' = [work EXCEPT ![w] = l]

\* What a withdrawal takes from the merchant; the wallet gives the amount only.
Cost(p) == AmountOf[p] + Fee

\* The balances may not go below zero: the database checks it.
Take(p) ==
    LET k == TickerOf[p] IN
    /\ merchantBalance' = [merchantBalance EXCEPT ![k] = @ - Cost(p)]
    /\ walletBalance' = [walletBalance EXCEPT ![k] = @ - AmountOf[p]]

GiveBack(p) ==
    LET k == TickerOf[p] IN
    /\ merchantBalance' = [merchantBalance EXCEPT ![k] = @ + Cost(p)]
    /\ walletBalance' = [walletBalance EXCEPT ![k] = @ + AmountOf[p]]

ChargeFee(f) ==
    /\ walletBalance[Coin] >= f
    /\ walletBalance' = [walletBalance EXCEPT ![Coin] = @ - f]

-----------------------------------------------------------------------------
(* API: CreateWithdrawal checks the balance, then inserts the payment. *)

Ask(p) ==
    /\ pay[p] = "none" /\ p \notin asked
    /\ merchantBalance[TickerOf[p]] >= Cost(p)
    /\ asked' = asked \cup {p}
    /\ UNCHANGED <<pay, txs, lastTx, ledger, counters, chain, work>>

CreateWithdrawal(p) ==
    /\ pay[p] = "none" /\ p \in asked
    /\ pay' = [pay EXCEPT ![p] = "pending"]
    /\ UNCHANGED <<asked, txs, lastTx, ledger, counters, chain, work>>

-----------------------------------------------------------------------------
(* BatchCreateWithdrawals, started by the event of the new withdrawal and  *)
(* by the scheduler as long as the withdrawal is pending.                  *)

StartCreate(w, p) ==
    /\ pay[p] = "pending"
    /\ Begin(w, [Idle EXCEPT !.pc = "merchant", !.pay = p,
                             !.seen = walletBalance[TickerOf[p]]])
    /\ UNCHANGED <<pay, asked, txs, lastTx, ledger, counters, chain>>

\* The merchant's balance is read here, the wallet's was read by the batch.
CheckBalances(w) ==
    LET p == work[w].pay IN
    /\ At(w, "merchant")
    /\ CASE merchantBalance[TickerOf[p]] < Cost(p) -> Goto(w, "failPayment")
         [] merchantBalance[TickerOf[p]] >= Cost(p) /\ work[w].seen < AmountOf[p] -> End(w)
         [] OTHER -> Goto(w, "nonce")
    /\ UNCHANGED <<pay, asked, txs, lastTx, ledger, counters, chain>>

\* Mutant: the nonce is read without taking it.
PeekNonce(w) ==
    /\ At(w, "nonce") /\ confirmed + pending < MaxNonce
    /\ pending' = pending + 1
    /\ work' = [work EXCEPT ![w].pc = "createTx", ![w].nonce = confirmed]
    /\ UNCHANGED <<pay, asked, txs, lastTx, ledger, confirmed, chain>>

\* IncrementPendingTransaction, under a lock of the wallet's row.
TakeNonce(w) ==
    /\ At(w, "nonce") /\ confirmed + pending < MaxNonce
    /\ pending' = pending + 1
    /\ work' = [work EXCEPT ![w].pc = "createTx", ![w].nonce = confirmed + pending]
    /\ UNCHANGED <<pay, asked, txs, lastTx, ledger, confirmed, chain>>

CreateTx(w) ==
    LET t == lastTx + 1 IN
    /\ At(w, "createTx")
    /\ lastTx < MaxTx /\ AmountOf[work[w].pay] > 0
    /\ lastTx' = t
    /\ txs' = [txs EXCEPT ![t] = [status |-> "pending", pay |-> work[w].pay, hash |-> FALSE]]
    /\ chain' = [chain EXCEPT ![t].nonce = work[w].nonce]
    /\ work' = [work EXCEPT ![w].pc = "decrement", ![w].tx = t]
    /\ UNCHANGED <<pay, asked, ledger, counters>>

\* Mutant: the balances are taken without a check.
DecrementUnchecked(w) ==
    /\ At(w, "decrement")
    /\ Take(work[w].pay)
    /\ work' = [work EXCEPT ![w].pc = "broadcast", ![w].moved = TRUE]
    /\ UNCHANGED <<pay, asked, txs, lastTx, counters, chain>>

\* UpdateBalancesForWithdrawal: both balances, or an error that says which.  Any
\* error of the merchant's update is taken for too small a balance.
Decrement(w) ==
    LET p == work[w].pay
        k == TickerOf[p]
    IN
    /\ At(w, "decrement")
    /\ \/ /\ merchantBalance[k] < Cost(p) \/ "error" \in Faults
          /\ work' = [work EXCEPT ![w].pc = "undoNonce", ![w].mark = TRUE]
          /\ UNCHANGED ledger
       \/ /\ merchantBalance[k] >= Cost(p) /\ walletBalance[k] < AmountOf[p]
          /\ Goto(w, "undoNonce")
          /\ UNCHANGED ledger
       \/ /\ merchantBalance[k] >= Cost(p) /\ walletBalance[k] >= AmountOf[p]
          /\ Take(p)
          /\ work' = [work EXCEPT ![w].pc = "broadcast", ![w].moved = TRUE]
    /\ UNCHANGED <<pay, asked, txs, lastTx, counters, chain>>

\* Nodes take a transaction of a nonce that is free, or replace one that waits
\* with the same nonce if the new one pays more.
Rivals(t) == {u \in TxIds : /\ Nonced /\ u # t /\ chain[u].nonce = chain[t].nonce
                            /\ chain[u].state \in {"pool", "success", "reverted"}}
Accept(t) ==
    /\ \A u \in Rivals(t) : chain[u].state = "pool"
    /\ chain' = [u \in TxIds |-> CASE u = t -> [chain[u] EXCEPT !.state = "pool"]
                                   [] u \in Rivals(t) -> [chain[u] EXCEPT !.state = "dropped"]
                                   [] OTHER -> chain[u]]

\* The answer "insufficient funds" fails the withdrawal.  Any other error leaves it
\* pending, and the caller cannot tell whether the transaction was taken.
Broadcast(w) ==
    LET t == work[w].tx IN
    /\ At(w, "broadcast")
    /\ \/ "accepted" \in Outcomes /\ Accept(t) /\ Goto(w, "setHash")
       \/ "lost" \in Outcomes /\ Accept(t) /\ Goto(w, "undoNonce")
       \/ /\ "rejected" \in Outcomes \/ Rivals(t) # {}
          /\ Goto(w, "undoNonce")
          /\ UNCHANGED chain
       \/ /\ "poor" \in Outcomes
          /\ work' = [work EXCEPT ![w].pc = "undoNonce", ![w].mark = TRUE]
          /\ UNCHANGED chain
    /\ UNCHANGED <<pay, asked, txs, lastTx, ledger, counters>>

\* An error of UpdateTransactionHash is only logged.
SetHash(w) ==
    /\ At(w, "setHash")
    /\ \/ txs' = [txs EXCEPT ![work[w].tx].hash = TRUE]
       \/ "error" \in Faults /\ UNCHANGED txs
    /\ Goto(w, "markInProgress")
    /\ UNCHANGED <<pay, asked, lastTx, ledger, counters, chain>>

\* Mutant: the payment stays pending after the broadcast.
LeavePending(w) ==
    /\ At(w, "markInProgress")
    /\ End(w)
    /\ UNCHANGED <<pay, asked, txs, lastTx, ledger, counters, chain>>

MarkInProgress(w) ==
    /\ At(w, "markInProgress")
    /\ pay' = [pay EXCEPT ![work[w].pay] = "inProgress"]
    /\ End(w)
    /\ UNCHANGED <<asked, txs, lastTx, ledger, counters, chain>>

\* An error of the KMS, the database or a provider at any other step.  What was
\* done is rolled back; at first that is the nonce alone.
Error(w) ==
    /\ \/ "error" \in Faults
       \/ At(w, "createTx") /\ (lastTx = MaxTx \/ AmountOf[work[w].pay] = 0)
    /\ work[w].pc \in {"createTx", "decrement", "broadcast", "markInProgress"}
    /\ Goto(w, "undoNonce")
    /\ UNCHANGED <<pay, asked, txs, lastTx, ledger, counters, chain>>

-----------------------------------------------------------------------------
(* rollbackWithdrawal, which stops at its first error *)

\* Mutant: the nonce is not given back.
KeepNonce(w) ==
    /\ At(w, "undoNonce")
    /\ IF work[w].tx = 0 THEN End(w) ELSE Goto(w, "undoTx")
    /\ UNCHANGED <<pay, asked, txs, lastTx, ledger, counters, chain>>

\* DecrementPendingTransaction: the last nonce is free again.
UndoNonce(w) ==
    /\ At(w, "undoNonce")
    /\ IF pending = 0
       THEN End(w) /\ UNCHANGED pending
       ELSE /\ pending' = pending - 1
            /\ IF work[w].tx = 0 THEN End(w) ELSE Goto(w, "undoTx")
    /\ UNCHANGED <<pay, asked, txs, lastTx, ledger, confirmed, chain>>

\* Mutant: rollbackWithdrawal forgets the balances.
UndoTxOnly(w) ==
    /\ At(w, "undoTx")
    /\ txs' = [txs EXCEPT ![work[w].tx].status = "canceled"]
    /\ IF work[w].mark THEN Goto(w, "failPayment") ELSE End(w)
    /\ UNCHANGED <<pay, asked, lastTx, ledger, counters, chain>>

\* Mutant: the row is recorded as failed, as if the chain had reverted it.
UndoTxAsFailed(w) ==
    /\ At(w, "undoTx")
    /\ txs' = [txs EXCEPT ![work[w].tx].status = "failed"]
    /\ CASE work[w].moved -> Goto(w, "undoBalances")
         [] ~work[w].moved /\ work[w].mark -> Goto(w, "failPayment")
         [] ~work[w].moved /\ ~work[w].mark -> End(w)
    /\ UNCHANGED <<pay, asked, lastTx, ledger, counters, chain>>

UndoTx(w) ==
    /\ At(w, "undoTx")
    /\ txs' = [txs EXCEPT ![work[w].tx].status = "canceled"]
    /\ CASE work[w].moved -> Goto(w, "undoBalances")
         [] ~work[w].moved /\ work[w].mark -> Goto(w, "failPayment")
         [] ~work[w].moved /\ ~work[w].mark -> End(w)
    /\ UNCHANGED <<pay, asked, lastTx, ledger, counters, chain>>

UndoBalances(w) ==
    /\ At(w, "undoBalances")
    /\ GiveBack(work[w].pay)
    /\ IF work[w].mark THEN Goto(w, "failPayment") ELSE End(w)
    /\ UNCHANGED <<pay, asked, txs, lastTx, counters, chain>>

FailPayment(w) ==
    /\ At(w, "failPayment")
    /\ pay' = [pay EXCEPT ![work[w].pay] = "failed"]
    /\ End(w)
    /\ UNCHANGED <<asked, txs, lastTx, ledger, counters, chain>>

-----------------------------------------------------------------------------
(* BatchCheckWithdrawals *)

\* CheckWithdrawalsProgress lists the rows that are pending ...
StartCheck(w, t) ==
    /\ txs[t].status = "pending"
    /\ Begin(w, [Idle EXCEPT !.pc = "receipt", !.pay = txs[t].pay, !.tx = t])
    /\ UNCHANGED <<pay, asked, txs, lastTx, ledger, counters, chain>>

\* Mutant: the receipt's success flag is not looked at.
ReceiptAnyway(w) ==
    LET t == work[w].tx IN
    /\ At(w, "receipt")
    /\ IF txs[t].hash /\ chain[t].state \in {"success", "reverted"}
       THEN Goto(w, "confirmNonce") ELSE End(w)
    /\ UNCHANGED <<pay, asked, txs, lastTx, ledger, counters, chain>>

\* ... and checkWithdrawalTransaction acts on the receipt, whatever the status is now.
Receipt(w) ==
    LET t == work[w].tx IN
    /\ At(w, "receipt")
    /\ CASE txs[t].hash /\ chain[t].state = "success" -> Goto(w, "confirmNonce")
         [] txs[t].hash /\ chain[t].state = "reverted" -> Goto(w, "cancelNonce")
         [] OTHER -> End(w)
    /\ UNCHANGED <<pay, asked, txs, lastTx, ledger, counters, chain>>

\* IncrementConfirmedTransaction, the first thing both outcomes do.
SettleNonce(w) ==
    /\ work[w].pc \in {"confirmNonce", "cancelNonce"}
    /\ IF pending = 0
       THEN End(w) /\ UNCHANGED counters
       ELSE /\ pending' = pending - 1
            /\ confirmed' = confirmed + 1
            /\ Goto(w, IF At(w, "confirmNonce") THEN "confirmRead" ELSE "chargeFee")
    /\ UNCHANGED <<pay, asked, txs, lastTx, ledger, chain>>

\* Confirm refuses a network fee of zero, and a row that is completed already ...
ConfirmRead(w) ==
    LET t == work[w].tx IN
    /\ At(w, "confirmRead")
    /\ IF chain[t].fee = 0 \/ txs[t].status = "completed"
       THEN End(w) ELSE Goto(w, "confirmWrite")
    /\ UNCHANGED <<pay, asked, txs, lastTx, ledger, counters, chain>>

\* ... and completes the row and takes the fee together, or does neither.
ConfirmWrite(w) ==
    LET t == work[w].tx IN
    /\ At(w, "confirmWrite")
    /\ \/ /\ ChargeFee(chain[t].fee)
          /\ txs' = [txs EXCEPT ![t].status = "completed"]
          /\ Goto(w, "markSuccess")
       \/ /\ walletBalance[Coin] < chain[t].fee
          /\ End(w)
          /\ UNCHANGED <<walletBalance, txs>>
    /\ UNCHANGED <<pay, asked, lastTx, merchantBalance, counters, chain>>

MarkSuccess(w) ==
    /\ At(w, "markSuccess")
    /\ pay' = [pay EXCEPT ![work[w].pay] = "success"]
    /\ End(w)
    /\ UNCHANGED <<asked, txs, lastTx, ledger, counters, chain>>

\* cancelWithdrawal: Cancel takes the fee in a database transaction of its own ...
CancelFee(w) ==
    LET f == chain[work[w].tx].fee IN
    /\ At(w, "chargeFee")
    /\ \/ ChargeFee(f) /\ Goto(w, "cancelTx")
       \/ walletBalance[Coin] < f /\ End(w) /\ UNCHANGED walletBalance
    /\ UNCHANGED <<pay, asked, txs, lastTx, merchantBalance, counters, chain>>

\* ... then fails the row ...
CancelTx(w) ==
    /\ At(w, "cancelTx")
    /\ txs' = [txs EXCEPT ![work[w].tx].status = "failed"]
    /\ Goto(w, "restore")
    /\ UNCHANGED <<pay, asked, lastTx, ledger, counters, chain>>

\* Mutant: cancelWithdrawal forgets the payment.
RestoreOnly(w) ==
    /\ At(w, "restore")
    /\ GiveBack(work[w].pay)
    /\ End(w)
    /\ UNCHANGED <<pay, asked, txs, lastTx, counters, chain>>

\* ... and the balances are restored before the payment fails.
Restore(w) ==
    /\ At(w, "restore")
    /\ GiveBack(work[w].pay)
    /\ Goto(w, "failPayment")
    /\ UNCHANGED <<pay, asked, txs, lastTx, counters, chain>>

-----------------------------------------------------------------------------
(* A crash, or an error where the code has no rollback. *)
Abort(w) ==
    /\ work[w] # Idle
    /\ \/ "crash" \in Faults
       \/ /\ "error" \in Faults
          /\ work[w].pc \notin {"createTx", "decrement", "broadcast", "setHash", "markInProgress"}
    /\ End(w)
    /\ UNCHANGED <<pay, asked, txs, lastTx, ledger, counters, chain>>

(* The blockchain.  An EVM chain executes an account's transactions in the *)
(* order of their nonces, without a gap.                                   *)
Mined == {t \in TxIds : chain[t].state \in {"success", "reverted"}}

Mine(t, result, f) ==
    /\ chain[t].state = "pool"
    /\ Nonced => chain[t].nonce = Cardinality(Mined)
    /\ chain' = [chain EXCEPT ![t].state = result, ![t].fee = f]
    /\ UNCHANGED <<pay, asked, txs, lastTx, ledger, counters, work>>

Step(w) ==
    \/ CheckBalances(w) \/ TakeNonce(w) \/ CreateTx(w) \/ Decrement(w)
    \/ Broadcast(w) \/ SetHash(w) \/ MarkInProgress(w) \/ Error(w)
    \/ UndoNonce(w) \/ UndoTx(w) \/ UndoBalances(w) \/ FailPayment(w)
    \/ Receipt(w) \/ SettleNonce(w) \/ ConfirmRead(w) \/ ConfirmWrite(w)
    \/ MarkSuccess(w) \/ CancelFee(w) \/ CancelTx(w) \/ Restore(w)
    \/ Abort(w)

Next ==
    \/ \E p \in Withdrawals : Ask(p) \/ CreateWithdrawal(p)
    \/ \E w \in Workers :
         \/ \E p \in Withdrawals : StartCreate(w, p)
         \/ \E t \in TxIds : StartCheck(w, t)
         \/ Step(w)
    \/ \E t \in TxIds, r \in {"success", "reverted"}, f \in NetworkFees : Mine(t, r, f)

Spec == Init /\ [][Next]_vars

-----------------------------------------------------------------------------
(* Properties *)

TypeOK ==
    /\ pay \in [Withdrawals -> PayStatus] /\ asked \subseteq Withdrawals
    /\ txs \in [TxIds -> Row] /\ lastTx \in 0..MaxTx
    /\ merchantBalance \in [Tickers -> Nat] /\ walletBalance \in [Tickers -> Nat]
    /\ confirmed \in Nat /\ pending \in Nat
    /\ chain \in [TxIds -> OnChain]
    /\ work \in [Workers -> Local]

TxsOf(p) == {t \in TxIds : txs[t].pay = p}
Transferred(p) == {t \in TxsOf(p) : chain[t].state = "success"}
Quiet == \A w \in Workers : work[w] = Idle

\* The merchant is told that a withdrawal succeeded only if the chain moved the
\* money, whatever overlaps, fails or crashes (confirmWithdrawal).
SuccessIsTransferred == \A p \in Withdrawals : pay[p] = "success" => Transferred(p) # {}

\* A transaction is recorded as completed, or failed, only if the chain executed, or
\* reverted, that very transaction (checkWithdrawalTransaction).
RecordedAsExecuted ==
    \A t \in TxIds : /\ txs[t].status = "completed" => chain[t].state = "success"
                     /\ txs[t].status = "failed" => chain[t].state = "reverted"

\* A withdrawal is never paid out twice: a retry reuses the nonce that the
\* rollback gave back, so that the chain takes one of the two transactions.
AtMostOneTransfer == \A p \in Withdrawals : Cardinality(Transferred(p)) <= 1

\* Between batches a withdrawal is in progress exactly while one transaction of it
\* is pending, succeeded exactly if one completed, and has never two of these.
PaymentFollowsTxs ==
    Quiet => \A p \in Withdrawals :
        LET open == {t \in TxsOf(p) : txs[t].status \in {"pending", "completed"}} IN
        /\ Cardinality(open) <= 1
        /\ (pay[p] = "inProgress") = (\E t \in open : txs[t].status = "pending")
        /\ (pay[p] = "success") = (\E t \in open : txs[t].status = "completed")

\* Two transactions that wait to be executed never have the same nonce, and their
\* nonces are the next ones the chain will take: none is skipped.
NoncesFollowChain ==
    LET waiting == {t \in TxIds : txs[t].status = "pending"
                                  /\ chain[t].state \in {"pool", "dropped"}} IN
    Quiet => {chain[t].nonce : t \in waiting} =
                 Cardinality(Mined)..(Cardinality(Mined) + Cardinality(waiting) - 1)

\* What a row says was taken from balance k of the merchant and of the wallet, and the
\* network's fee for it.
Spent(t, k) == txs[t].status \in {"pending", "completed"} /\ TickerOf[txs[t].pay] = k
Taken(k) == [t \in TxIds |-> IF Spent(t, k) THEN Cost(txs[t].pay) ELSE 0]
Given(k) == [t \in TxIds |-> IF Spent(t, k) THEN AmountOf[txs[t].pay] ELSE 0]
Charged(k) == [t \in TxIds |-> IF k = Coin /\ txs[t].status \in {"completed", "failed"}
                               THEN chain[t].fee ELSE 0]

\* Between batches the balances are what the transactions say: of the merchant's,
\* every open or completed withdrawal took its amount and fee, once, and every
\* other gave them back; of the wallet's, the amount, and the network's fee.
LedgerMatchesTxs ==
    Quiet => \A k \in Tickers :
        /\ merchantBalance[k] = MerchantFunds[k] - Total(Taken(k))
        /\ walletBalance[k] = WalletFunds[k] - Total(Given(k)) - Total(Charged(k))

\* A withdrawal in progress is skipped: no second transaction is made for it.
OnlyPendingAreCreated ==
    [][\A t \in TxIds : txs[t].status = "none" /\ txs'[t].status = "pending" =>
           pay[txs'[t].pay] = "pending"]_vars

(* Fairness.  A started goroutine runs on; the scheduler starts both jobs  *)
(* every 30 seconds, at moments when no other run holds the withdrawal     *)
(* (strong fairness); the chain executes the transactions it holds.        *)
Running(w) == work[w] # Idle /\ Step(w)

Fairness ==
    /\ \A w \in Workers : WF_vars(Running(w))
    /\ \A p \in Withdrawals : SF_vars(\E w \in Workers : StartCreate(w, p))
    /\ \A t \in TxIds :
         /\ SF_vars(\E w \in Workers : StartCheck(w, t))
         /\ WF_vars(\E r \in {"success", "reverted"}, f \in NetworkFees : Mine(t, r, f))

FairSpec == Spec /\ Fairness

\* Every withdrawal that was asked for is paid out or fails.
EventuallySettled ==
    \A p \in Withdrawals : pay[p] = "pending" ~> pay[p] \in {"success", "failed"}
=============================================================================
