---------------------------- MODULE UtxoTransfer ----------------------------
(***************************************************************************)
(* Withdrawals on the chains without accounts (Bitcoin, Litecoin).  A      *)
(* transaction spends outputs that a wallet received, so a goroutine       *)
(* reserves them in the table bitcoin_utxo_reservations before it signs.   *)
(* A withdrawal is paid by one wallet: the outbound one, else an inbound   *)
(* one; if none covers it, inbound wallets are swept into the outbound one *)
(* and the withdrawal waits for the next batch.                            *)
(*                                                                         *)
(* One step is one database statement or transaction, or one question to   *)
(* an explorer or the KMS.  An output is the record of the transaction     *)
(* that made it (0 if it came from outside), its index, its wallet and its *)
(* value.  A row of the table transactions stands for the signed           *)
(* transaction too.  Times are left out: a reservation may expire whenever *)
(* it exists.                                                              *)
(***************************************************************************)
EXTENDS CoinSelection, FiniteSets, FiniteSetsExt

CONSTANTS
    Workers,       \* goroutines of the batches
    Inbound,       \* wallets that received payments
    Outbound,      \* the wallet withdrawals are paid from
    Coins,         \* outputs received from outside, which the balances hold
    Withdrawals,   \* payments of type withdrawal
    Amounts,       \* amounts a merchant may ask for
    MerchantFunds, \* the merchant's balance at first
    Estimates,     \* answers to the question for fee rates: sets of rates
    Fallback,      \* the rate if there is no answer
    Outcomes,      \* of a broadcast: subset of {"accepted", "lost", "rejected", "poor"}
    Faults,        \* subset of {"error", "crash", "expire", "stale"}
    MaxTx,         \* bound: transactions signed
    Attempts,      \* bitcoinUTXOReservationAttempts                    (3)
    MaxSources,    \* maxUTXOWithdrawalConsolidationSources
    Exclusive,     \* TRUE: no two goroutines work on one withdrawal
    None

Wallets == Inbound \cup {Outbound}
TxIds == 1..MaxTx
Rates == {utxoFeeRate(e, Fallback) : e \in Estimates}

ASSUME UtxoAssumption ==
    /\ Outbound \notin Inbound /\ None \notin Withdrawals /\ None \notin Wallets
    /\ MaxTx \in Nat /\ Attempts \in Nat \ {0} /\ MaxSources \in Nat
    /\ \A o \in Coins : o.tx = 0 /\ o.wallet \in Wallets /\ o.sats \in Nat \ {0}

\* Amounts are whole, rates positive, and an output is named by its transaction and index.
ASSUME AmountsAssumption ==
    /\ Amounts \subseteq Nat /\ MerchantFunds \in Nat
    /\ Fallback \in Nat \ {0} /\ \A e \in Estimates : e \subseteq Nat
    /\ IsFiniteSet(Inbound) /\ IsFiniteSet(Coins) /\ \A o \in Coins : o.out \in Nat
    /\ \A o, p \in Coins : o.wallet = p.wallet /\ o.out = p.out => o = p

VARIABLES
    pay,             \* payments.status of a withdrawal
    price,           \* payments.price of a withdrawal
    merchantBalance, \* the merchant's balance
    balance,         \* the balance of a wallet
    txs,             \* transactions: row id -> row
    signed,          \* the last transaction signed
    held,            \* reservations: output -> its row that is not released
    chain,           \* the blockchain's view of a signed transaction
    work             \* a goroutine's program counter and local variables

vars == <<pay, price, merchantBalance, balance, txs, signed, held, chain, work>>
payments == <<pay, price>>
ledger == <<merchantBalance, balance>>

Steps == {"source", "check", "plan", "reserve", "sign", "createTx", "decrement", "broadcast",
          "mark", "setHash", "done", "unreserve", "release", "undoTx", "undoBalances",
          "failPayment", "nextSweep"}
NoRow == [status |-> "none", kind |-> "pay", pay |-> None, wallet |-> None, amount |-> 0,
          fee |-> 0, hash |-> FALSE]
Unsent == [state |-> "unsent", ins |-> {}, outs |-> {}]

(* wallet: the sender; sel: the plan; seen: the merchant's balance as the  *)
(* batch read it; queue: wallets to sweep; swept: what they gave so far;   *)
(* moved and mark: BalanceDecremented and MarkPaymentAsFailed.             *)
Idle == [pc |-> "idle", pay |-> None, kind |-> "pay", wallet |-> None, seen |-> 0, rate |-> 0,
         sel |-> NoSelection, attempt |-> 0, tx |-> 0, queue |-> <<>>, swept |-> 0,
         created |-> FALSE, moved |-> FALSE, mark |-> FALSE]

-----------------------------------------------------------------------------
(* The chain *)

Value(outputs) == Total([o \in outputs |-> o.sats])
Known(t) == chain[t].state \in {"pool", "mined"}
Spent(S) == UNION {chain[t].ins : t \in S}
Made(S) == Coins \cup UNION {chain[t].outs : t \in S}
Unspent(S, a) == {o \in Made(S) \ Spent(S) : o.wallet = a}

\* What an explorer may answer: all it knows, or, when its answer is cached or it
\* lags behind, only what is in blocks.
Views(a) == {Unspent({t \in TxIds : Known(t)}, a)} \cup
            (IF "stale" \in Faults
             THEN {Unspent({t \in TxIds : chain[t].state = "mined"}, a)} ELSE {})

\* Every plan allows its replacement (RBF), so a node may prefer a later rival.
Rivals(t) == {u \in TxIds : u # t /\ Known(u) /\ chain[u].ins \cap chain[t].ins # {}}
Accept(t) ==
    /\ chain[t].ins \subseteq Made({u \in TxIds : Known(u)})
    /\ \A u \in Rivals(t) : chain[u].state = "pool"
    /\ chain' = [u \in TxIds |-> CASE u = t -> [chain[u] EXCEPT !.state = "pool"]
                                   [] u \in Rivals(t) -> [chain[u] EXCEPT !.state = "dropped"]
                                   [] OTHER -> chain[u]]

Mine(t) ==
    /\ chain[t].state = "pool"
    /\ chain[t].ins \subseteq Made({u \in TxIds : chain[u].state = "mined"})
    /\ chain' = [chain EXCEPT ![t].state = "mined"]
    /\ UNCHANGED <<payments, ledger, txs, signed, held, work>>

-----------------------------------------------------------------------------
Init ==
    /\ pay = [p \in Withdrawals |-> "none"] /\ price = [p \in Withdrawals |-> 0]
    /\ merchantBalance = MerchantFunds
    /\ balance = [a \in Wallets |-> Value({o \in Coins : o.wallet = a})]
    /\ txs = [t \in TxIds |-> NoRow] /\ signed = 0
    /\ held = [o \in {} |-> None]
    /\ chain = [t \in TxIds |-> Unsent]
    /\ work = [w \in Workers |-> Idle]

At(w, p) == work[w].pc = p
Goto(w, p) == work' = [work EXCEPT ![w].pc = p]
End(w) == work' = [work EXCEPT ![w] = Idle]

-----------------------------------------------------------------------------
(* The table bitcoin_utxo_reservations, without the rows that are released *)

Reservation == [status: {"reserved", "broadcasted"}, tx: 0..MaxTx, expired: BOOLEAN]

ListActiveBitcoinUTXOReservations ==
    {o \in DOMAIN held : held[o].status = "broadcasted" \/ ~held[o].expired}

\* Mutant: the index covers what is active only.
IndexedActive == ListActiveBitcoinUTXOReservations

\* The unique index on outputs: a row that expired is still in it.
Indexed == DOMAIN held

\* One database transaction, which the index may abort.
reserveBitcoinUTXOs(outs) ==
    /\ outs \cap Indexed = {}
    /\ held' = [o \in outs \cup DOMAIN held |->
                  IF o \in outs THEN [status |-> "reserved", tx |-> 0, expired |-> FALSE] ELSE held[o]]

attachBitcoinUTXOReservationsRawTX(outs, t) ==
    held' = [o \in DOMAIN held |-> IF o \in outs THEN [held[o] EXCEPT !.tx = t] ELSE held[o]]

Drop(outs) == held' = [o \in DOMAIN held \ outs |-> held[o]]
releaseBitcoinUTXOReservationIDs(outs) ==
    Drop({o \in outs \cap DOMAIN held : held[o].status = "reserved"})
ReleaseBitcoinTransactionReservations(t) ==
    Drop({o \in DOMAIN held : held[o].tx = t /\ held[o].status = "reserved"})
MarkBitcoinTransactionBroadcasted(t) ==
    held' = [o \in DOMAIN held |-> IF held[o].tx = t THEN [held[o] EXCEPT !.status = "broadcasted"]
                                                     ELSE held[o]]

-----------------------------------------------------------------------------
(* CreateWithdrawal of the API: what a merchant may ask for *)

SpendableUTXOs(view) ==
    utxoSpendableUTXOsFromExplorer(excludeBitcoinUTXOs(view, ListActiveBitcoinUTXOReservations))

\* Swept wallets would add one output each to the outbound wallet's own.
ConsolidatedInputs(view, rate) ==
    SpendableUTXOs(view[Outbound]) \o
    SetToSeq({o \in {[tx |-> 0, out |-> 3, wallet |-> a,
                      sats |-> BitcoinSweepAmountFromUTXOs(SpendableUTXOs(view[a]), rate)] :
                        a \in {a \in Inbound : balance[a] > 0}} : o.sats >= Dust})

\* The most that one wallet can send, or the outbound one after a consolidation.
maxUTXOWithdrawalLimit(view, rate) ==
    LET direct == {maxBitcoinTransactionAmountAndFeeFromUTXOs(
                       SpendableUTXOs(view[a]), Min({balance[a], merchantBalance}), rate) :
                     a \in {a \in Wallets : balance[a] > 0}}
        joint == maxBitcoinTransactionAmountAndFeeFromUTXOs(
                     ConsolidatedInputs(view, rate), merchantBalance, rate)
    IN  CHOOSE l \in direct \cup {joint, NoLimit} :
            \A m \in direct \cup {joint} : m.amount <= l.amount

withdrawalFee(limit, rate) == IF limit.fee = 0 THEN bitcoinFee(rate) ELSE limit.fee

\* The withdrawal is in the price the API lets pass.
CreateWithdrawal(p) ==
    /\ pay[p] = "none"
    /\ \E amount \in Amounts, rate \in Rates :
         LET view == [a \in Wallets |-> Unspent({t \in TxIds : Known(t)}, a)]
             limit == maxUTXOWithdrawalLimit(view, rate)
         IN  /\ merchantBalance >= amount + withdrawalFee(limit, rate)
             /\ amount >= Dust /\ amount <= limit.amount
             /\ price' = [price EXCEPT ![p] = amount]
    /\ pay' = [pay EXCEPT ![p] = "pending"]
    /\ UNCHANGED <<ledger, txs, signed, held, chain, work>>

-----------------------------------------------------------------------------
(* BatchCreateWithdrawals: which wallet pays *)

StartWithdrawal(w, p) ==
    /\ work[w] = Idle /\ pay[p] = "pending"
    /\ Exclusive => \A v \in Workers : work[v].pay # p
    /\ work' = [work EXCEPT ![w] = [Idle EXCEPT !.pc = "source", !.pay = p, !.seen = merchantBalance]]
    /\ UNCHANGED <<payments, ledger, txs, signed, held, chain>>

\* Wallets with a balance, the largest first; equal ones in either order.
listInboundUTXOSources ==
    LET funded == {a \in Inbound : balance[a] > 0}
    IN  {s \in [1..Cardinality(funded) -> funded] :
           \A i, j \in DOMAIN s : i < j => s[i] # s[j] /\ balance[s[i]] >= balance[s[j]]}

\* As many of them as the amount needs, by their balances.
selectUTXOConsolidationCandidates(candidates, amount) ==
    LET sum[n \in 0..Len(candidates)] == IF n = 0 THEN 0 ELSE sum[n - 1] + balance[candidates[n]]
        enough == {n \in 0..Len(candidates) : n = MaxSources \/ sum[n] >= amount}
    IN  SubSeq(candidates, 1, Min(enough \cup {Len(candidates)}))

Consolidate(w) ==
    LET p == work[w].pay IN
    \E candidates \in listInboundUTXOSources :
        work' = [work EXCEPT ![w] =
                  [Idle EXCEPT !.pc = "nextSweep", !.pay = p, !.kind = "sweep",
                               !.queue = selectUTXOConsolidationCandidates(candidates, price[p])]]

PaysFrom(w, a) == work' = [work EXCEPT ![w].pc = "check", ![w].wallet = a]

\* The first of the wallets that covers the amount.
PaysFromInbound(w) ==
    \E candidates \in listInboundUTXOSources :
        LET covers == {i \in DOMAIN candidates : balance[candidates[i]] >= price[work[w].pay]}
        IN  PaysFrom(w, candidates[Min(covers)])

SomeInboundCovers(w) == \E a \in Inbound : balance[a] > 0 /\ balance[a] >= price[work[w].pay]

\* Mutant: nothing is consolidated.
ResolveWithoutSweeps(w) ==
    /\ At(w, "source")
    /\ CASE balance[Outbound] >= price[work[w].pay] -> PaysFrom(w, Outbound)
         [] balance[Outbound] < price[work[w].pay] /\ SomeInboundCovers(w) -> PaysFromInbound(w)
         [] OTHER -> End(w)
    /\ UNCHANGED <<payments, ledger, txs, signed, held, chain>>

resolveUTXOWithdrawalSource(w) ==
    /\ At(w, "source")
    /\ \/ balance[Outbound] >= price[work[w].pay] /\ PaysFrom(w, Outbound)
       \/ balance[Outbound] < price[work[w].pay] /\ SomeInboundCovers(w) /\ PaysFromInbound(w)
       \/ balance[Outbound] < price[work[w].pay] /\ ~SomeInboundCovers(w) /\ Consolidate(w)
    /\ UNCHANGED <<payments, ledger, txs, signed, held, chain>>

\* createUTXOConsolidations: the next wallet, unless enough is under way.  The
\* withdrawal stays pending, whatever the sweeps did.
NextSweep(w) ==
    LET l == work[w] IN
    /\ At(w, "nextSweep")
    /\ IF l.queue = <<>> \/ l.swept >= price[l.pay] THEN End(w)
       ELSE work' = [work EXCEPT ![w] = [Idle EXCEPT !.pc = "check", !.pay = l.pay, !.kind = "sweep",
                                         !.wallet = Head(l.queue), !.queue = Tail(l.queue),
                                         !.swept = l.swept]]
    /\ UNCHANGED <<payments, ledger, txs, signed, held, chain>>

-----------------------------------------------------------------------------
(* createWithdrawal and createInternalTransfer *)

\* What follows an error: a sweep is skipped, a withdrawal is rolled back.
Undo(w, mark) ==
    work' = [work EXCEPT ![w].mark = @ \/ mark,
                         ![w].pc = IF work[w].tx = 0 THEN "undoTx" ELSE "release"]

\* Too small a balance of the merchant fails the withdrawal.
CheckBalances(w) ==
    LET l == work[w] IN
    /\ At(w, "check")
    /\ \E rate \in Rates :
         IF l.kind = "pay" /\ l.seen < price[l.pay] + bitcoinFee(rate)
         THEN Undo(w, TRUE)
         ELSE work' = [work EXCEPT ![w].pc = "plan", ![w].rate = rate]
    /\ UNCHANGED <<payments, ledger, txs, signed, held, chain>>

Prepare(l, utxos) ==
    IF l.kind = "pay" THEN selectBitcoinUTXOs(utxos, price[l.pay], l.rate)
    ELSE selectBitcoinSweepUTXOs(utxos, l.rate)

\* PrepareBitcoin(Sweep)TransactionExcluding.  A withdrawal without the funds
\* sweeps inbound wallets instead.
Plan(w) ==
    LET l == work[w] IN
    /\ At(w, "plan")
    /\ \E view \in Views(l.wallet) : \E utxos \in {SpendableUTXOs(view)} : \E s \in {Prepare(l, utxos)} :
         CASE s.inputs # <<>> -> work' = [work EXCEPT ![w].pc = "reserve", ![w].sel = s]
           [] s.inputs = <<>> /\ l.kind = "pay" -> Consolidate(w)
           [] s.inputs = <<>> /\ l.kind = "sweep" -> Goto(w, "nextSweep")
    /\ UNCHANGED <<payments, ledger, txs, signed, held, chain>>

Inputs(l) == ToSet(l.sel.inputs)

\* Two goroutines may plan with one output; the second plans again.
Reserve(w) ==
    LET l == work[w] IN
    /\ At(w, "reserve")
    /\ \/ reserveBitcoinUTXOs(Inputs(l)) /\ Goto(w, "sign")
       \/ /\ Inputs(l) \cap Indexed # {}
          /\ IF l.attempt + 1 < Attempts
             THEN work' = [work EXCEPT ![w].pc = "plan", ![w].attempt = @ + 1]
             ELSE Undo(w, FALSE)
          /\ UNCHANGED held
    /\ UNCHANGED <<payments, ledger, txs, signed, chain>>

\* The transaction that the KMS signs; a sweep pays the outbound wallet.
Outputs(l, t) ==
    (IF l.kind = "sweep" THEN {[tx |-> t, out |-> 1, wallet |-> Outbound, sats |-> l.sel.amount]}
                         ELSE {})
    \cup (IF l.sel.change > 0 THEN {[tx |-> t, out |-> 2, wallet |-> l.wallet, sats |-> l.sel.change]}
                              ELSE {})

\* The KMS validates what it is asked to sign.
KmsAccepts(sel) ==
    /\ sel.inputs # <<>> /\ sel.amount >= Dust /\ (sel.change = 0 \/ sel.change >= Dust)
    /\ Totals(sel.inputs)[Len(sel.inputs)] > sel.amount + sel.change

\* createSignedBitcoinTransaction: the KMS signs, then the reservations get the
\* transaction's id.  Now its fee is known, and the merchant must cover it.
Sign(w) ==
    LET l == work[w]
        t == signed + 1
    IN
    /\ At(w, "sign") /\ signed < MaxTx /\ KmsAccepts(l.sel)
    /\ signed' = t
    /\ chain' = [chain EXCEPT ![t] = [state |-> "unsent", ins |-> Inputs(l), outs |-> Outputs(l, t)]]
    /\ attachBitcoinUTXOReservationsRawTX(Inputs(l), t)
    /\ LET poor == l.kind = "pay" /\ l.seen < price[l.pay] + l.sel.fee
       IN  work' = [work EXCEPT ![w].tx = t, ![w].mark = poor,
                                ![w].pc = IF poor THEN "release" ELSE "createTx"]
    /\ UNCHANGED <<payments, ledger, txs>>

CreateTx(w) ==
    LET l == work[w] IN
    /\ At(w, "createTx")
    /\ txs' = [txs EXCEPT ![l.tx] = [status |-> "pending", kind |-> l.kind, pay |-> l.pay,
                                     wallet |-> l.wallet, amount |-> l.sel.amount,
                                     fee |-> l.sel.fee, hash |-> FALSE]]
    /\ work' = [work EXCEPT ![w].pc = "decrement", ![w].created = TRUE]
    /\ UNCHANGED <<payments, ledger, signed, held, chain>>

\* What the merchant gives for a transaction; nothing for a sweep.
Charge(l) == IF l.kind = "pay" THEN l.sel.amount + l.sel.fee ELSE 0

Decrement(w) ==
    LET l == work[w] IN
    /\ At(w, "decrement")
    /\ IF merchantBalance < Charge(l) \/ balance[l.wallet] < l.sel.amount
       THEN Undo(w, merchantBalance < Charge(l)) /\ UNCHANGED ledger
       ELSE /\ merchantBalance' = merchantBalance - Charge(l)
            /\ balance' = [balance EXCEPT ![l.wallet] = @ - l.sel.amount]
            /\ work' = [work EXCEPT ![w].pc = "broadcast", ![w].moved = TRUE]
    /\ UNCHANGED <<payments, txs, signed, held, chain>>

\* After any error but "insufficient funds" the withdrawal stays pending.
Broadcast(w) ==
    LET t == work[w].tx IN
    /\ At(w, "broadcast")
    /\ \/ "accepted" \in Outcomes /\ Accept(t) /\ Goto(w, "mark")
       \/ "lost" \in Outcomes /\ Accept(t) /\ Undo(w, FALSE)
       \/ "rejected" \in Outcomes /\ Undo(w, FALSE) /\ UNCHANGED chain
       \/ "poor" \in Outcomes /\ Undo(w, work[w].kind = "pay") /\ UNCHANGED chain
    /\ UNCHANGED <<payments, ledger, txs, signed, held>>

MarkBroadcasted(w) ==
    /\ At(w, "mark")
    /\ MarkBitcoinTransactionBroadcasted(work[w].tx)
    /\ Goto(w, "setHash")
    /\ UNCHANGED <<payments, ledger, txs, signed, chain>>

SetHash(w) ==
    LET l == work[w] IN
    /\ At(w, "setHash")
    /\ txs' = [txs EXCEPT ![l.tx].hash = TRUE]
    /\ IF l.kind = "pay" THEN Goto(w, "done")
       ELSE work' = [work EXCEPT ![w].pc = "nextSweep", ![w].swept = @ + l.sel.amount]
    /\ UNCHANGED <<payments, ledger, signed, held, chain>>

MarkInProgress(w) ==
    /\ At(w, "done")
    /\ pay' = [pay EXCEPT ![work[w].pay] = "inProgress"]
    /\ End(w)
    /\ UNCHANGED <<price, ledger, txs, signed, held, chain>>

\* An error of the KMS, the database or an explorer.  Before the KMS signed, the
\* rows are released by their ids; after the broadcast they stay.
Error(w) ==
    /\ "error" \in Faults \/ (At(w, "sign") /\ ~KmsAccepts(work[w].sel))
    /\ \/ work[w].pc \in {"check", "plan", "reserve", "createTx", "decrement"} /\ Undo(w, FALSE)
       \/ At(w, "sign") /\ Goto(w, "unreserve")
       \/ work[w].pc \in {"mark", "done"} /\ Goto(w, "undoTx")
    /\ UNCHANGED <<payments, ledger, txs, signed, held, chain>>

-----------------------------------------------------------------------------
(* The deferred release, then rollbackWithdrawal or rollbackInternalTransfer *)

Unreserve(w) ==
    /\ At(w, "unreserve")
    /\ releaseBitcoinUTXOReservationIDs(Inputs(work[w]))
    /\ Goto(w, "undoTx")
    /\ UNCHANGED <<payments, ledger, txs, signed, chain>>

Release(w) ==
    /\ At(w, "release")
    /\ ReleaseBitcoinTransactionReservations(work[w].tx)
    /\ Goto(w, "undoTx")
    /\ UNCHANGED <<payments, ledger, txs, signed, chain>>

UndoTx(w) ==
    /\ At(w, "undoTx")
    /\ txs' = IF work[w].created THEN [txs EXCEPT ![work[w].tx].status = "canceled"] ELSE txs
    /\ Goto(w, "undoBalances")
    /\ UNCHANGED <<payments, ledger, signed, held, chain>>

UndoBalances(w) ==
    LET l == work[w] IN
    /\ At(w, "undoBalances")
    /\ merchantBalance' = merchantBalance + (IF l.moved THEN Charge(l) ELSE 0)
    /\ balance' = IF l.moved THEN [balance EXCEPT ![l.wallet] = @ + l.sel.amount] ELSE balance
    /\ Goto(w, IF l.kind = "sweep" THEN "nextSweep" ELSE "failPayment")
    /\ UNCHANGED <<payments, txs, signed, held, chain>>

FailPayment(w) ==
    /\ At(w, "failPayment")
    /\ pay' = IF work[w].mark THEN [pay EXCEPT ![work[w].pay] = "failed"] ELSE pay
    /\ End(w)
    /\ UNCHANGED <<price, ledger, txs, signed, held, chain>>

-----------------------------------------------------------------------------
(* BatchCheckWithdrawals and BatchCheckInternalTransfers.  The receipt of a *)
(* UTXO chain is never a failure, so there is nothing to cancel.            *)

\* Mutant: the network's fee is not charged.
SettleFree(t) ==
    LET r == txs[t] IN
    /\ r.status = "pending" /\ r.hash /\ chain[t].state = "mined"
    /\ balance' = IF r.kind = "sweep" THEN [balance EXCEPT ![Outbound] = @ + r.amount] ELSE balance
    /\ txs' = [txs EXCEPT ![t].status = "completed"]
    /\ pay' = IF r.kind = "pay" THEN [pay EXCEPT ![r.pay] = "success"] ELSE pay
    /\ UNCHANGED <<price, merchantBalance, signed, held, chain, work>>

Settle(t) ==
    LET r == txs[t]
        from == [balance EXCEPT ![r.wallet] = @ - r.fee]
    IN
    /\ r.status = "pending" /\ r.hash /\ chain[t].state = "mined"
    /\ balance[r.wallet] >= r.fee
    /\ r.kind = "sweep" \/ pay[r.pay] # "success"
    /\ balance' = IF r.kind = "sweep" THEN [from EXCEPT ![Outbound] = @ + r.amount] ELSE from
    /\ txs' = [txs EXCEPT ![t].status = "completed"]
    /\ pay' = IF r.kind = "pay" THEN [pay EXCEPT ![r.pay] = "success"] ELSE pay
    /\ UNCHANGED <<price, merchantBalance, signed, held, chain, work>>

-----------------------------------------------------------------------------
(* The environment *)

Crash(w) ==
    /\ "crash" \in Faults /\ work[w] # Idle
    /\ End(w)
    /\ UNCHANGED <<payments, ledger, txs, signed, held, chain>>

\* bitcoinUTXOReservationTTL has passed.
Expire(o) ==
    /\ "expire" \in Faults
    /\ o \in DOMAIN held /\ held[o].status = "reserved" /\ ~held[o].expired
    /\ held' = [held EXCEPT ![o].expired = TRUE]
    /\ UNCHANGED <<payments, ledger, txs, signed, chain, work>>

Step(w) ==
    \/ resolveUTXOWithdrawalSource(w) \/ NextSweep(w) \/ CheckBalances(w) \/ Plan(w) \/ Reserve(w)
    \/ Sign(w) \/ CreateTx(w) \/ Decrement(w) \/ Broadcast(w) \/ MarkBroadcasted(w)
    \/ SetHash(w) \/ MarkInProgress(w) \/ Unreserve(w) \/ Release(w) \/ UndoTx(w)
    \/ UndoBalances(w) \/ FailPayment(w)

Next ==
    \/ \E p \in Withdrawals : CreateWithdrawal(p)
    \/ \E w \in Workers : \/ \E p \in Withdrawals : StartWithdrawal(w, p)
                          \/ Step(w) \/ Error(w) \/ Crash(w)
    \/ \E t \in TxIds : Mine(t) \/ Settle(t)
    \/ \E o \in DOMAIN held : Expire(o)

Spec == Init /\ [][Next]_vars

\* The scheduler lists pending withdrawals and open transactions for ever, and a
\* goroutine that runs ends; the network mines what it took.
Fairness ==
    /\ \A w \in Workers : WF_vars(Step(w))
    /\ \A p \in Withdrawals : WF_vars(\E w \in Workers : StartWithdrawal(w, p))
    /\ \A t \in TxIds : WF_vars(Mine(t)) /\ WF_vars(Settle(t))
FairSpec == Spec /\ Fairness

-----------------------------------------------------------------------------
Quiet == \A w \in Workers : work[w] = Idle
Sent(t) == chain[t].state # "unsent"

\* Whatever crashes, expires, fails or is listed late, no two transactions that were
\* sent spend one output: the reservations of createSignedBitcoinTransaction hold
\* until the chain itself shows the output as spent.
NoConflictingBroadcasts ==
    \A t, u \in TxIds : t # u /\ Sent(t) /\ Sent(u) => chain[t].ins \cap chain[u].ins = {}

\* Once everything is settled a wallet's balance is the sum of the outputs it can
\* spend: amounts and fees of every withdrawal and sweep were taken exactly, and
\* every rollback gave back all of it.
BooksMatchOutputs ==
    (Quiet /\ \A t \in TxIds : (Sent(t) => txs[t].status = "completed")) =>
        \A a \in Wallets : balance[a] = Value(Unspent({t \in TxIds : Known(t)}, a))

\* A withdrawal that the merchant covers is paid in the end, if need be after a
\* consolidation, or it fails; one that another withdrawal left uncovered may wait
\* for ever, as resolveUTXOWithdrawalSource comes before the check that fails it.
EventuallySettled ==
    \A p \in Withdrawals :
        pay[p] = "pending" ~> \/ pay[p] \in {"success", "failed"}
                              \/ merchantBalance < price[p] + bitcoinFee(Max(Rates))

\* Every plan is exact, whatever a concurrent goroutine took before: its inputs pay
\* for the recipient, a change that is no dust, and a fee the rate asks for, and the
\* KMS does not refuse it.
PlansAreSound ==
    \A w \in Workers : At(w, "reserve") =>
        LET own == {o \in Made(TxIds) : o.wallet = work[w].wallet}
        IN  KmsAccepts(work[w].sel) /\ SoundSelection(work[w].sel, own, work[w].rate)

\* The limit of a wallet is the largest amount that has a plan: nothing less is
\* refused for a gap in the binary search, nothing more is let pass.
LimitIsMaximal ==
    Quiet => \A a \in Wallets, rate \in Rates :
        MaximalAmount(SpendableUTXOs(Unspent({t \in TxIds : Known(t)}, a)), balance[a], rate)
=============================================================================
