------------------------ MODULE IncomingPaymentProofs ------------------------
(***************************************************************************)
(* What IncomingPayment guarantees for any number of overlapping jobs, any *)
(* failures, currencies, amounts and deposits, proved from one inductive   *)
(* invariant.  It ties what a worker remembers to the tables: rows and     *)
(* deposits never change owner, wallet or currency, so what a worker once  *)
(* read of them still holds when it acts, although statuses may not.       *)
(*                                                                         *)
(* The second part is about collecting a payment one job after the other,  *)
(* none of them failing.                                                   *)
(***************************************************************************)
EXTENDS IncomingPayment, FiniteSetTheorems, TLAPS

\* A deposit that exists went to an address given out, in a known currency.
DepositOK(h) ==
    chain[h].state # "absent" => chain[h].wallet \in Wallets /\ chain[h].ticker \in Tickers

\* The deposit h is to the address and in the currency of row t.
Paid(h, t) ==
    /\ h \in Hashes /\ chain[h].state # "absent"
    /\ chain[h].wallet = txs[t].wallet /\ chain[h].ticker = txs[t].ticker

\* The chain confirmed some deposit for row t.
Funded(t) == \E h \in Hashes : chain[h].state = "success" /\ Paid(h, t)

RowOK(t) ==
    txs[t].status # "none" =>
        /\ t <= lastTx
        /\ txs[t].ticker \in Tickers
        /\ txs[t].wallet \in Wallets
        /\ txs[t].owner = "merchant" => txs[t].wallet <= lastWallet
        /\ txs[t].hash # None => Paid(txs[t].hash, t)
        /\ txs[t].status \in InProgress => txs[t].hash # None

\* Only the newest transaction of the payment may be pending.
PendingIsLatest ==
    \A t, u \in PaymentTxs : txs[t].status = "pending" => u <= t

NonePending == \A t \in PaymentTxs : txs[t].status # "pending"

\* Where a worker's variable tx names a row, where its hash names a deposit for
\* that row, and where that deposit or another is known to be confirmed.
WithTx == {"receive", "markInProgress", "candidate", "reload", "receipt",
           "confirmRead", "confirmWrite", "markConfirmed", "cancelTx",
           "releaseLock", "observe"}
WithPaid == {"receive", "markInProgress", "reload", "receipt",
             "confirmRead", "confirmWrite", "markConfirmed"}
WithFunds == {"confirmRead", "confirmWrite", "markConfirmed"}
MethodSteps == {"lockWait", "current", "cancelTx", "releaseLock", "freshWallet", "createTx"}

LocalOK(l) ==
    /\ l.pc \in WithTx => l.tx \in TxIds /\ txs[l.tx].status # "none"
    /\ l.pc \in WithPaid => Paid(l.hash, l.tx)
    /\ l.pc \in WithFunds => Funded(l.tx)
    /\ l.pc \in {"markInProgress", "reload"} => txs[l.tx].hash # None
    /\ l.pc = "markConfirmed" => txs[l.tx].owner = "merchant"
    /\ l.pc \in {"unexpected", "createUnexpected"} =>
           l.hash \in Hashes /\ chain[l.hash].state # "absent"
    /\ l.pc \in {"lockWait", "current", "freshWallet", "createTx"} => l.job = "method"
    /\ l.job = "method" => l.ticker \in Tickers /\ l.pc \in MethodSteps

\* Inside locker.Do: what SetPaymentMethod may rely on.
CriticalOK(w, l) ==
    (l.job = "method" /\ l.pc # "lockWait") =>
        /\ holder = w
        /\ l.pc \in {"freshWallet", "createTx", "releaseLock"} => NonePending
        /\ l.pc = "cancelTx" =>
              \A t \in PaymentTxs : txs[t].status = "pending" => t = l.tx
        /\ l.pc = "createTx" =>
              /\ l.wallet \in Wallets /\ l.wallet <= lastWallet
              /\ \A t \in PaymentTxs : txs[t].wallet # l.wallet

Inv ==
    /\ TypeOK
    /\ \A h \in Hashes : DepositOK(h)
    /\ \A t \in TxIds : RowOK(t)
    /\ \A w \in Workers : LocalOK(work[w])
    /\ \A w \in Workers : CriticalOK(w, work[w])
    /\ PendingIsLatest
    /\ SingleUseAddress
    /\ PaidOnlyIfConfirmed
    /\ Solvency

USE ConstantsAssumption

-----------------------------------------------------------------------------
\* Rows and deposits stay, with their owner, wallet, currency and verdict.
Grow ==
    /\ \A t \in TxIds : txs[t].status # "none" =>
          /\ txs'[t].status # "none"
          /\ txs'[t].owner = txs[t].owner
          /\ txs'[t].wallet = txs[t].wallet
          /\ txs'[t].ticker = txs[t].ticker
          /\ txs[t].hash # None => txs'[t].hash # None
    /\ \A h \in Hashes : chain[h].state # "absent" =>
          /\ chain'[h].state # "absent"
          /\ chain'[h].wallet = chain[h].wallet
          /\ chain'[h].ticker = chain[h].ticker
          /\ chain[h].state = "success" => chain'[h].state = "success"

\* The payment gets no new transaction and none becomes pending.
NoNewTx ==
    \A t \in PaymentTxs' : t \in PaymentTxs /\ (txs'[t].status = "pending" => txs[t].status = "pending")

\* What a worker knows of the tables outlives the steps of the others.
LEMMA LocalStable ==
    ASSUME NEW l, LocalOK(l), Grow
    PROVE  LocalOK(l)'
  <1>1. ASSUME NEW h, NEW t \in TxIds, txs[t].status # "none", Paid(h, t)
        PROVE  Paid(h, t)'
    BY <1>1 DEF Paid, Grow
  <1>2. ASSUME NEW t \in TxIds, txs[t].status # "none", Funded(t)
        PROVE  Funded(t)'
    BY <1>2 DEF Funded, Paid, Grow
  <1> QED
    BY <1>1, <1>2 DEF LocalOK, Grow, WithTx, WithPaid, WithFunds

\* What locker.Do protects outlives the steps of those outside it.
LEMMA CriticalStable ==
    ASSUME NEW v, NEW l, CriticalOK(v, l), Grow, NoNewTx, TypeOK, TypeOK',
           lastWallet <= lastWallet', holder' = holder
    PROVE  CriticalOK(v, l)'
  BY DEF CriticalOK, NonePending, NoNewTx, Grow, PaymentTxs, TypeOK, Wallets

\* All invariants but TypeOK and those on rows and deposits follow for a step that
\* keeps the payment's transactions and the lock and moves workers legally.
LEMMA Preserve ==
    ASSUME Inv, TypeOK', (\A h \in Hashes : DepositOK(h))', (\A t \in TxIds : RowOK(t))',
           Grow, NoNewTx,
           \A v \in Workers : work'[v] = work[v] \/ (LocalOK(work[v]) /\ CriticalOK(v, work[v]))',
           lastWallet <= lastWallet', holder' = holder,
           pay' = "success" => pay = "success" \/ \E t \in PaymentTxs : Funded(t),
           Solvency'
    PROVE  Inv'
  <1>1. ASSUME NEW v \in Workers
        PROVE  (LocalOK(work[v]) /\ CriticalOK(v, work[v]))'
    <2>1. CASE work'[v] = work[v]
      <3>1. LocalOK(work[v]) /\ CriticalOK(v, work[v])
        BY DEF Inv
      <3>2. LocalOK(work'[v]) /\ CriticalOK(v, work'[v])
        BY <2>1, <3>1
      <3> QED
        BY <3>2, LocalStable, CriticalStable DEF Inv
    <2> QED
      BY <2>1
  <1>2. PendingIsLatest' /\ SingleUseAddress'
    BY DEF Inv, PendingIsLatest, SingleUseAddress, NoNewTx, Grow, PaymentTxs
  <1>3. PaidOnlyIfConfirmed'
    <2>1. ASSUME pay' = "success" PROVE \E t \in PaymentTxs : Funded(t)
      BY <2>1 DEF Inv, PaidOnlyIfConfirmed, Funded, Paid, TypeOK
    <2> QED
      BY <2>1 DEF PaidOnlyIfConfirmed, Funded, Paid, Grow, PaymentTxs
  <1> QED
    BY <1>1, <1>2, <1>3 DEF Inv
-----------------------------------------------------------------------------
(* Steps that move a worker and leave the transactions alone *)

core == <<txs, lastTx, lastWallet, walletBalance, merchantBalance, chain, holder>>
tables == <<pay, customer, locks, shown, core>>

LEMMA CoreStep ==
    ASSUME Inv, NEW w \in Workers, NEW l \in Local, LocalOK(l), CriticalOK(w, l),
           work' = [work EXCEPT ![w] = l], UNCHANGED core,
           pay' \in PayStatus, customer' \in BOOLEAN,
           locks' \subseteq Wallets \X Tickers, shown' \subseteq Wallets,
           pay' = "success" => pay = "success" \/ \E t \in PaymentTxs : Funded(t)
    PROVE  Inv'
  <1>1. TypeOK'
    BY DEF Inv, TypeOK, core
  <1>2. (\A h \in Hashes : DepositOK(h))' /\ (\A t \in TxIds : RowOK(t))'
    BY DEF Inv, DepositOK, RowOK, Paid, core
  <1>3. Grow /\ NoNewTx /\ Solvency'
    BY DEF Inv, Grow, NoNewTx, PaymentTxs, Solvency, core
  <1>4. LocalOK(l)' /\ CriticalOK(w, l)'
    BY DEF LocalOK, CriticalOK, Paid, Funded, NonePending, PaymentTxs, core
  <1>5. ASSUME NEW v \in Workers
        PROVE  work'[v] = work[v] \/ (LocalOK(work[v]) /\ CriticalOK(v, work[v]))'
    <2>1. CASE v = w
      <3>1. work'[v] = l
        BY <2>1 DEF Inv, TypeOK
      <3> QED
        BY <2>1, <3>1, <1>4
    <2>2. CASE v # w
      BY <2>2 DEF Inv, TypeOK
    <2> QED
      BY <2>1, <2>2
  <1>6. lastWallet <= lastWallet' /\ holder' = holder
    BY DEF Inv, TypeOK, core
  <1> QED
    BY <1>1, <1>2, <1>3, <1>5, <1>6, Preserve

LEMMA MoveStep ==
    ASSUME Inv, NEW w \in Workers, NEW l \in Local, LocalOK(l), CriticalOK(w, l),
           work' = [work EXCEPT ![w] = l], UNCHANGED tables
    PROVE  Inv'
  BY CoreStep DEF Inv, TypeOK, tables

LEMMA IdleOK ==
    Idle \in Local /\ LocalOK(Idle) /\ \A w : CriticalOK(w, Idle)
  BY DEF LocalOK, CriticalOK, Idle, Local, Steps, TxStatus, AllJobs, WithTx, WithPaid, WithFunds

LEMMA EndStep ==
    ASSUME Inv, NEW w \in Workers, End(w), UNCHANGED tables
    PROVE  Inv'
  BY IdleOK, MoveStep DEF End

\* A jump within a job keeps the worker's variables.
LEMMA GotoStep ==
    ASSUME Inv, NEW w \in Workers, NEW p \in Steps, Goto(w, p), UNCHANGED tables,
           LocalOK([work[w] EXCEPT !.pc = p]), CriticalOK(w, [work[w] EXCEPT !.pc = p])
    PROVE  Inv'
  <1>1. work' = [work EXCEPT ![w] = [work[w] EXCEPT !.pc = p]]
    BY DEF Goto
  <1>2. [work[w] EXCEPT !.pc = p] \in Local
    BY DEF Inv, TypeOK, Local
  <1> QED
    BY <1>1, <1>2, MoveStep

LEMMA StartWebhookStep ==
    ASSUME Inv, NEW w \in Workers, NEW h \in Hashes, StartWebhook(w, h)
    PROVE  Inv'
  <1> UNCHANGED tables
    BY DEF StartWebhook, tables, core, setup, ledger
  <1>1. CASE Begin(w, [Idle EXCEPT !.job = "webhook", !.hash = h, !.pc = "unexpected"])
    <2> DEFINE l == [Idle EXCEPT !.job = "webhook", !.hash = h, !.pc = "unexpected"]
    <2>1. l \in Local
      BY IdleOK DEF Local, Steps, AllJobs
    <2>2. LocalOK(l) /\ CriticalOK(w, l)
      BY DEF StartWebhook, LocalOK, CriticalOK, Idle, WithTx, WithPaid, WithFunds
    <2> QED
      BY <1>1, <2>1, <2>2, MoveStep DEF Begin
  <1>2. ASSUME NEW t \in Awaiting(h),
               Begin(w, [Idle EXCEPT !.job = "webhook", !.hash = h, !.pc = "receive", !.tx = t])
        PROVE  Inv'
    <2> DEFINE l == [Idle EXCEPT !.job = "webhook", !.hash = h, !.pc = "receive", !.tx = t]
    <2>1. l \in Local
      <3>1. t \in 0..MaxTx
        BY DEF Awaiting, TxIds
      <3> QED
        BY <3>1, IdleOK DEF Local, Steps, AllJobs
    <2>2. LocalOK(l) /\ CriticalOK(w, l)
      BY DEF StartWebhook, Awaiting, LocalOK, CriticalOK, Paid, Idle, WithTx, WithPaid, WithFunds
    <2> QED
      BY <1>2, <2>1, <2>2, MoveStep DEF Begin
  <1> QED
    BY <1>1, <1>2 DEF StartWebhook

LEMMA UnexpectedStep ==
    ASSUME Inv, NEW w \in Workers, Unexpected(w)
    PROVE  Inv'
  <1> UNCHANGED tables
    BY DEF Unexpected, tables, core, setup, ledger
  <1>1. CASE Goto(w, "createUnexpected")
    <2> DEFINE l == [work[w] EXCEPT !.pc = "createUnexpected"]
    <2>1. LocalOK(l) /\ CriticalOK(w, l)
      BY DEF Unexpected, At, Inv, TypeOK, Local, LocalOK, CriticalOK, WithTx, WithPaid,
             WithFunds, MethodSteps
    <2> QED
      BY <1>1, <2>1, GotoStep DEF Steps
  <1>2. CASE End(w)
    BY <1>2, EndStep
  <1> QED
    BY <1>1, <1>2 DEF Unexpected

LEMMA StartDiscoverStep ==
    ASSUME Inv, NEW w \in Workers, NEW t \in TxIds, StartDiscover(w, t)
    PROVE  Inv'
  <1> DEFINE l == [Idle EXCEPT !.job = "discover", !.pc = "candidate", !.tx = t]
  <1>1. l \in Local
    <2>1. t \in 0..MaxTx
      BY DEF TxIds
    <2> QED
      BY <2>1, IdleOK DEF Local, Steps, AllJobs
  <1>2. LocalOK(l) /\ CriticalOK(w, l)
    BY DEF StartDiscover, LocalOK, CriticalOK, Idle, WithTx, WithPaid, WithFunds
  <1> QED
    BY <1>1, <1>2, MoveStep DEF StartDiscover, Begin, tables, core, setup, ledger

LEMMA CandidateStep ==
    ASSUME Inv, NEW w \in Workers, Candidate(w)
    PROVE  Inv'
  <1> UNCHANGED tables
    BY DEF Candidate, tables, core, setup, ledger
  <1>1. ASSUME NEW h \in Listed(work[w].tx),
               work' = [work EXCEPT ![w].pc = "receipt", ![w].hash = h]
        PROVE  Inv'
    <2> DEFINE l == [work[w] EXCEPT !.pc = "receipt", !.hash = h]
    <2>1. l \in Local
      <3>1. work[w] \in Local /\ h \in Hashes
        BY DEF Inv, TypeOK, Listed
      <3> QED
        BY <3>1 DEF Local, Steps
    <2>2. LocalOK(l) /\ CriticalOK(w, l)
      BY DEF Candidate, At, Inv, TypeOK, Local, LocalOK, CriticalOK, Listed, Paid,
             WithTx, WithPaid, WithFunds, MethodSteps
    <2>3. work' = [work EXCEPT ![w] = l]
      BY <1>1 DEF Inv, TypeOK, Local
    <2> QED
      BY <2>1, <2>2, <2>3, MoveStep
  <1>2. CASE End(w)
    BY <1>2, EndStep
  <1> QED
    BY <1>1, <1>2 DEF Candidate, Listings

LEMMA ReloadStep ==
    ASSUME Inv, NEW w \in Workers, Reload(w)
    PROVE  Inv'
  <1> DEFINE p == IF chain[work[w].hash].state = "success" THEN "confirmRead" ELSE "cancelTx"
             row == txs[work[w].tx]
             l == [work[w] EXCEPT !.seen = row.status, !.hash = row.hash, !.pc = p]
  <1>1. /\ work[w].pc = "reload" /\ work[w].tx \in TxIds /\ row.status # "none"
        /\ row.hash # None /\ Paid(work[w].hash, work[w].tx)
    BY DEF Reload, At, Inv, LocalOK, WithTx, WithPaid
  <1>2. row \in Row /\ work[w] \in Local
    BY <1>1 DEF Inv, TypeOK
  <1>3. l \in Local /\ work' = [work EXCEPT ![w] = l]
    BY <1>2, ZenonT(40) DEF Reload, Inv, TypeOK, Local, Row, Steps
  <1>4. Paid(row.hash, work[w].tx)
    BY <1>1 DEF Inv, RowOK
  <1>5. chain[work[w].hash].state = "success" => Funded(work[w].tx)
    BY <1>1 DEF Funded, Paid
  <1>6. LocalOK(l) /\ CriticalOK(w, l)
    BY <1>1, <1>2, <1>4, <1>5 DEF Inv, Local, LocalOK, CriticalOK, WithTx, WithPaid, WithFunds,
             MethodSteps
  <1> QED
    BY <1>3, <1>6, MoveStep DEF Reload, tables, core, setup, ledger

LEMMA StartCheckStep ==
    ASSUME Inv, NEW w \in Workers, NEW t \in TxIds, StartCheck(w, t)
    PROVE  Inv'
  <1> DEFINE l == [Idle EXCEPT !.job = "check", !.pc = "receipt", !.tx = t,
                               !.hash = txs[t].hash, !.seen = txs[t].status]
  <1>1. txs[t] \in Row /\ txs[t].status \in InProgress
    BY DEF StartCheck, Inv, TypeOK
  <1>2. Paid(txs[t].hash, t)
    BY <1>1 DEF Inv, RowOK, InProgress
  <1>3. l \in Local
    <2>1. t \in 0..MaxTx
      BY DEF TxIds
    <2> QED
      BY <2>1, <1>1, IdleOK DEF Local, Steps, AllJobs, Row
  <1>4. LocalOK(l) /\ CriticalOK(w, l)
    BY <1>1, <1>2 DEF LocalOK, CriticalOK, Idle, WithTx, WithPaid, WithFunds, InProgress
  <1> QED
    BY <1>3, <1>4, MoveStep DEF StartCheck, Begin, tables, core, setup, ledger

LEMMA ReceiptStep ==
    ASSUME Inv, NEW w \in Workers, Receipt(w)
    PROVE  Inv'
  <1> UNCHANGED tables
    BY DEF Receipt, tables, core, setup, ledger
  <1>1. /\ work[w].pc = "receipt" /\ work[w].job # "method" /\ work[w] \in Local
        /\ work[w].tx \in TxIds /\ txs[work[w].tx].status # "none"
        /\ Paid(work[w].hash, work[w].tx)
    BY DEF Receipt, At, Inv, TypeOK, LocalOK, WithTx, WithPaid, MethodSteps
  <1>2. CASE End(w)
    BY <1>2, EndStep
  <1>3. CASE Goto(w, "receive")
    <2>1. LocalOK([work[w] EXCEPT !.pc = "receive"]) /\ CriticalOK(w, [work[w] EXCEPT !.pc = "receive"])
      BY <1>1 DEF Local, LocalOK, CriticalOK, WithTx, WithPaid, WithFunds
    <2> QED
      BY <1>3, <2>1, GotoStep DEF Steps
  <1>4. CASE chain[work[w].hash].state = "success" /\ Goto(w, "confirmRead")
    <2>1. Funded(work[w].tx)
      BY <1>1, <1>4 DEF Funded, Paid
    <2>2. LocalOK([work[w] EXCEPT !.pc = "confirmRead"]) /\ CriticalOK(w, [work[w] EXCEPT !.pc = "confirmRead"])
      BY <1>1, <2>1 DEF Local, LocalOK, CriticalOK, WithTx, WithPaid, WithFunds
    <2> QED
      BY <1>4, <2>2, GotoStep DEF Steps
  <1>5. CASE Goto(w, "cancelTx")
    <2>1. LocalOK([work[w] EXCEPT !.pc = "cancelTx"]) /\ CriticalOK(w, [work[w] EXCEPT !.pc = "cancelTx"])
      BY <1>1 DEF Local, LocalOK, CriticalOK, WithTx, WithPaid, WithFunds
    <2> QED
      BY <1>5, <2>1, GotoStep DEF Steps
  <1> QED
    BY <1>2, <1>3, <1>4, <1>5 DEF Receipt

LEMMA ConfirmReadStep ==
    ASSUME Inv, NEW w \in Workers, ConfirmRead(w)
    PROVE  Inv'
  <1> UNCHANGED tables
    BY DEF ConfirmRead, tables, core, setup, ledger
  <1>1. CASE End(w)
    BY <1>1, EndStep
  <1>2. CASE Goto(w, "confirmWrite")
    <2>1. LocalOK([work[w] EXCEPT !.pc = "confirmWrite"]) /\ CriticalOK(w, [work[w] EXCEPT !.pc = "confirmWrite"])
      BY DEF ConfirmRead, At, Inv, TypeOK, Local, LocalOK, CriticalOK, WithTx, WithPaid, WithFunds,
             MethodSteps
    <2> QED
      BY <1>2, <2>1, GotoStep DEF Steps
  <1> QED
    BY <1>1, <1>2 DEF ConfirmRead

LEMMA StartExpireStep ==
    ASSUME Inv, NEW w \in Workers, StartExpire(w)
    PROVE  Inv'
  <1> DEFINE l == [Idle EXCEPT !.job = "expire", !.pc = "latest"]
  <1>1. l \in Local
    BY IdleOK DEF Local, Steps, AllJobs
  <1>2. LocalOK(l) /\ CriticalOK(w, l)
    BY DEF LocalOK, CriticalOK, Idle, WithTx, WithPaid, WithFunds
  <1> QED
    BY <1>1, <1>2, MoveStep DEF StartExpire, Begin, tables, core, setup, ledger

LEMMA LatestStep ==
    ASSUME Inv, NEW w \in Workers, Latest(w)
    PROVE  Inv'
  <1> UNCHANGED tables
    BY DEF Latest, tables, core, setup, ledger
  <1>1. work[w].pc = "latest" /\ work[w].job # "method" /\ work[w] \in Local
    BY DEF Latest, At, Inv, TypeOK, LocalOK, MethodSteps
  <1>2. CASE End(w)
    BY <1>2, EndStep
  <1>3. CASE Goto(w, "failPayment")
    <2>1. LocalOK([work[w] EXCEPT !.pc = "failPayment"]) /\ CriticalOK(w, [work[w] EXCEPT !.pc = "failPayment"])
      BY <1>1 DEF Local, LocalOK, CriticalOK, WithTx, WithPaid, WithFunds
    <2> QED
      BY <1>3, <2>1, GotoStep DEF Steps
  <1>4. ASSUME NEW t \in TxIds, NEW p \in {"cancelTx", "observe"}, txs[t].status # "none",
               work' = [work EXCEPT ![w].pc = p, ![w].tx = t]
        PROVE  Inv'
    <2> DEFINE l == [work[w] EXCEPT !.pc = p, !.tx = t]
    <2>1. l \in Local
      <3>1. t \in 0..MaxTx /\ p \in Steps
        BY DEF TxIds, Steps
      <3> QED
        BY <1>1, <3>1 DEF Local
    <2>2. LocalOK(l) /\ CriticalOK(w, l)
      BY <1>1, <1>4 DEF Local, LocalOK, CriticalOK, WithTx, WithPaid, WithFunds
    <2>3. work' = [work EXCEPT ![w] = l]
      BY <1>4
    <2> QED
      BY <2>1, <2>2, <2>3, MoveStep
  <1> QED
    BY <1>2, <1>3, <1>4 DEF Latest, IsLatest, PaymentTxs

LEMMA ObserveStep ==
    ASSUME Inv, NEW w \in Workers, Observe(w)
    PROVE  Inv'
  <1> UNCHANGED tables
    BY DEF Observe, tables, core, setup, ledger
  <1>1. CASE End(w)
    BY <1>1, EndStep
  <1>2. CASE Goto(w, "cancelTx")
    <2>1. LocalOK([work[w] EXCEPT !.pc = "cancelTx"]) /\ CriticalOK(w, [work[w] EXCEPT !.pc = "cancelTx"])
      BY DEF Observe, At, Inv, TypeOK, Local, LocalOK, CriticalOK, WithTx, WithPaid, WithFunds,
             MethodSteps
    <2> QED
      BY <1>2, <2>1, GotoStep DEF Steps
  <1> QED
    BY <1>1, <1>2 DEF Observe

LEMMA StartMethodStep ==
    ASSUME Inv, NEW w \in Workers, NEW k \in Tickers, StartMethod(w, k)
    PROVE  Inv'
  <1> DEFINE l == [Idle EXCEPT !.job = "method", !.pc = "lockWait", !.ticker = k]
  <1>1. l \in Local
    BY IdleOK DEF Local, Steps, AllJobs
  <1>2. LocalOK(l) /\ CriticalOK(w, l)
    BY DEF LocalOK, CriticalOK, Idle, WithTx, WithPaid, WithFunds, MethodSteps
  <1> QED
    BY <1>1, <1>2, MoveStep DEF StartMethod, Begin, tables, core, setup, ledger

LEMMA StartLockStep ==
    ASSUME Inv, NEW w \in Workers, StartLock(w)
    PROVE  Inv'
  <1> DEFINE l == [Idle EXCEPT !.job = "lock", !.pc = "method"]
  <1>1. l \in Local
    BY IdleOK DEF Local, Steps, AllJobs
  <1>2. LocalOK(l) /\ CriticalOK(w, l)
    BY DEF LocalOK, CriticalOK, Idle, WithTx, WithPaid, WithFunds
  <1> QED
    BY <1>1, <1>2, MoveStep DEF StartLock, Begin, tables, core, setup, ledger

LEMMA MethodStep ==
    ASSUME Inv, NEW w \in Workers, Method(w)
    PROVE  Inv'
  <1> UNCHANGED tables
    BY DEF Method, tables, core, setup, ledger
  <1>1. CASE End(w)
    BY <1>1, EndStep
  <1>2. CASE Goto(w, "lockWrite")
    <2>1. LocalOK([work[w] EXCEPT !.pc = "lockWrite"]) /\ CriticalOK(w, [work[w] EXCEPT !.pc = "lockWrite"])
      BY DEF Method, At, Inv, TypeOK, Local, LocalOK, CriticalOK, WithTx, WithPaid, WithFunds,
             MethodSteps
    <2> QED
      BY <1>2, <2>1, GotoStep DEF Steps
  <1> QED
    BY <1>1, <1>2 DEF Method

LEMMA MarkInProgressStep ==
    ASSUME Inv, NEW w \in Workers, MarkInProgress(w)
    PROVE  Inv'
  <1>1. /\ UNCHANGED core /\ pay' \in PayStatus /\ pay' # "success" /\ customer' \in BOOLEAN
        /\ locks' \subseteq Wallets \X Tickers /\ shown' \subseteq Wallets
    BY DEF MarkInProgress, Inv, TypeOK, PayStatus, core, setup, ledger
  <1>2. CASE End(w)
    BY <1>1, <1>2, IdleOK, CoreStep DEF End
  <1>3. CASE Goto(w, "reload")
    <2> DEFINE l == [work[w] EXCEPT !.pc = "reload"]
    <2>1. work' = [work EXCEPT ![w] = l] /\ l \in Local
      BY <1>3 DEF Goto, Inv, TypeOK, Local, Steps
    <2>2. LocalOK(l) /\ CriticalOK(w, l)
      BY DEF MarkInProgress, At, Inv, TypeOK, Local, LocalOK, CriticalOK, WithTx, WithPaid,
             WithFunds, MethodSteps
    <2> QED
      BY <1>1, <2>1, <2>2, CoreStep
  <1> QED
    BY <1>2, <1>3 DEF MarkInProgress

LEMMA MarkConfirmedStep ==
    ASSUME Inv, NEW w \in Workers, MarkConfirmed(w)
    PROVE  Inv'
  <1>1. /\ UNCHANGED core /\ pay' \in PayStatus /\ customer' \in BOOLEAN
        /\ locks' \subseteq Wallets \X Tickers /\ shown' \subseteq Wallets
    BY DEF MarkConfirmed, Inv, TypeOK, PayStatus, core, setup, ledger
  <1>2. work[w].tx \in PaymentTxs /\ Funded(work[w].tx)
    BY DEF MarkConfirmed, At, Inv, LocalOK, PaymentTxs, WithTx, WithFunds
  <1> QED
    BY <1>1, <1>2, IdleOK, CoreStep DEF MarkConfirmed, End

LEMMA FailOrLockStep ==
    ASSUME Inv, NEW w \in Workers, FailPayment(w) \/ LockWrite(w)
    PROVE  Inv'
  <1>1. /\ UNCHANGED core /\ pay' \in PayStatus /\ pay' # "success" /\ customer' \in BOOLEAN
        /\ locks' \subseteq Wallets \X Tickers /\ shown' \subseteq Wallets
    BY DEF FailPayment, LockWrite, Inv, TypeOK, PayStatus, core, setup, ledger
  <1>2. End(w)
    BY DEF FailPayment, LockWrite
  <1> QED
    BY <1>1, <1>2, IdleOK, CoreStep DEF End

LEMMA ReleaseLockStep ==
    ASSUME Inv, NEW w \in Workers, ReleaseLock(w)
    PROVE  Inv'
  <1>1. /\ UNCHANGED core /\ pay' \in PayStatus /\ pay' = pay /\ customer' \in BOOLEAN
        /\ locks' \subseteq Wallets \X Tickers /\ shown' \subseteq Wallets
    BY DEF ReleaseLock, Inv, TypeOK, core, setup, ledger
  <1>2. CASE End(w)
    BY <1>1, <1>2, IdleOK, CoreStep DEF End
  <1>3. ASSUME NEW p \in {"freshWallet", "failPayment"}, Goto(w, p),
               p = "freshWallet" <=> work[w].job = "method"
        PROVE  Inv'
    <2> DEFINE l == [work[w] EXCEPT !.pc = p]
    <2>1. work' = [work EXCEPT ![w] = l] /\ l \in Local
      BY <1>3 DEF Goto, Inv, TypeOK, Local, Steps
    <2>2. LocalOK(l) /\ CriticalOK(w, l)
      BY <1>3 DEF ReleaseLock, At, Inv, TypeOK, Local, LocalOK, CriticalOK, WithTx, WithPaid,
             WithFunds, MethodSteps
    <2> QED
      BY <1>1, <2>1, <2>2, CoreStep
  <1> QED
    BY <1>2, <1>3 DEF ReleaseLock

-----------------------------------------------------------------------------
(* Steps that write a row *)

LEMMA RowStep ==
    ASSUME Inv, NEW w \in Workers, NEW l \in Local, work' = [work EXCEPT ![w] = l],
           LocalOK(l)', CriticalOK(w, l)',
           NEW t \in TxIds, txs[t].status # "none",
           NEW r \in Row, txs' = [txs EXCEPT ![t] = r],
           r.status \notin {"none", "pending"}, r.owner = txs[t].owner,
           r.wallet = txs[t].wallet, r.ticker = txs[t].ticker,
           txs[t].hash # None => r.hash # None,
           r.hash # None => Paid(r.hash, t),
           r.status \in InProgress => r.hash # None,
           UNCHANGED <<pay, setup, chain, holder>>,
           locks' \subseteq Wallets \X Tickers,
           walletBalance' \in [Tickers -> Nat], merchantBalance' \in [Tickers -> Nat],
           Solvency'
    PROVE  Inv'
  <1>1. TypeOK'
    BY DEF Inv, TypeOK, setup
  <1>2. \A u \in TxIds : txs'[u] = IF u = t THEN r ELSE txs[u]
    BY DEF Inv, TypeOK
  <1>3. Grow
    BY <1>2 DEF Grow
  <1>4. (\A h \in Hashes : DepositOK(h))'
    BY DEF Inv, DepositOK
  <1>5. (\A u \in TxIds : RowOK(u))'
    <2> SUFFICES ASSUME NEW u \in TxIds PROVE RowOK(u)'
      OBVIOUS
    <2>1. RowOK(u) /\ RowOK(t)
      BY DEF Inv
    <2>2. CASE u = t
      BY <1>2, <2>1, <2>2 DEF RowOK, Paid, setup
    <2>3. CASE u # t
      BY <1>2, <2>1, <2>3 DEF RowOK, Paid, setup
    <2> QED
      BY <2>2, <2>3
  <1>6. NoNewTx
    BY <1>2 DEF NoNewTx, PaymentTxs
  <1>7. ASSUME NEW v \in Workers
        PROVE  work'[v] = work[v] \/ (LocalOK(work[v]) /\ CriticalOK(v, work[v]))'
    <2>1. CASE v = w
      <3>1. work'[v] = l
        BY <2>1 DEF Inv, TypeOK
      <3> QED
        BY <2>1, <3>1
    <2>2. CASE v # w
      BY <2>2 DEF Inv, TypeOK
    <2> QED
      BY <2>1, <2>2
  <1>8. lastWallet <= lastWallet' /\ holder' = holder /\ pay' = pay
    BY DEF Inv, TypeOK, setup
  <1> QED
    BY <1>1, <1>3, <1>4, <1>5, <1>6, <1>7, <1>8, Preserve

LEMMA ReceiveStep ==
    ASSUME Inv, NEW w \in Workers, Receive(w)
    PROVE  Inv'
  <1> DEFINE t == work[w].tx
             h == work[w].hash
             r == [txs[t] EXCEPT !.status = IncomingStatus(h), !.hash = h]
  <1>1. /\ work[w].pc = "receive" /\ work[w].job # "method" /\ work[w] \in Local
        /\ t \in TxIds /\ txs[t].status # "none" /\ txs[t] \in Row /\ Paid(h, t)
    BY DEF Receive, At, Inv, TypeOK, LocalOK, WithTx, WithPaid, MethodSteps
  <1>2. CASE chain[h].amount = 0
    <2>1. End(w) /\ UNCHANGED tables
      BY <1>2 DEF Receive, tables, core, setup, ledger
    <2> QED
      BY <2>1, EndStep
  <1>3. CASE chain[h].amount # 0
    <2>1. /\ txs' = [txs EXCEPT ![t] = r] /\ UNCHANGED <<pay, setup, chain, holder, ledger>>
          /\ locks' = locks \ {<<txs[t].wallet, txs[t].ticker>>}
      BY <1>1, <1>3 DEF Receive, Inv, TypeOK, Row
    <2>2. IncomingStatus(h) \in InProgress /\ h \in Hashes
      BY <1>1 DEF IncomingStatus, InProgress, Paid
    <2>3. r \in Row /\ r.status = IncomingStatus(h) /\ r.hash = h /\ r.owner = txs[t].owner
          /\ r.wallet = txs[t].wallet /\ r.ticker = txs[t].ticker
      BY <1>1, <2>2 DEF Row, TxStatus
    <2>4. txs'[t] = r
      BY <1>1, <2>1 DEF Inv, TypeOK
    <2>5. ASSUME NEW l \in Local, work' = [work EXCEPT ![w] = l],
                 LocalOK(l)', CriticalOK(w, l)'
          PROVE  Inv'
      <3>1. Solvency' /\ locks' \subseteq Wallets \X Tickers
            /\ walletBalance' \in [Tickers -> Nat] /\ merchantBalance' \in [Tickers -> Nat]
        BY <2>1 DEF Inv, TypeOK, Solvency, ledger
      <3>2. r.hash # None /\ r.status \notin {"none", "pending"}
        BY <2>2, <2>3 DEF InProgress
      <3> QED
        BY <1>1, <2>1, <2>3, <2>5, <3>1, <3>2, RowStep
    <2>6. CASE End(w)
      <3>1. LocalOK(Idle)' /\ CriticalOK(w, Idle)'
        BY DEF LocalOK, CriticalOK, Idle, WithTx, WithPaid, WithFunds
      <3> QED
        BY <2>5, <2>6, <3>1, IdleOK DEF End
    <2>7. ASSUME NEW p \in {"markInProgress", "reload"}, Goto(w, p)
          PROVE  Inv'
      <3>0. [work[w] EXCEPT !.pc = p] \in Local
        BY <1>1 DEF Local, Steps
      <3>1. PICK l \in Local : l = [work[w] EXCEPT !.pc = p]
        BY <3>0
      <3>2. /\ l.pc = p /\ l.tx = t /\ l.hash = h /\ l.job = work[w].job
            /\ work' = [work EXCEPT ![w] = l]
        BY <1>1, <2>7, <3>1 DEF Goto, Local
      <3>3. LocalOK(l)' /\ CriticalOK(w, l)'
        BY <1>1, <2>1, <2>2, <2>3, <2>4, <3>2, ZenonT(40)
           DEF LocalOK, CriticalOK, Paid, InProgress, WithTx, WithPaid, WithFunds
      <3> QED
        BY <2>5, <3>2, <3>3
    <2> QED
      BY <1>3, <2>6, <2>7 DEF Receive
  <1> QED
    BY <1>2, <1>3

LEMMA CancelTxStep ==
    ASSUME Inv, NEW w \in Workers, CancelTx(w)
    PROVE  Inv'
  <1> DEFINE t == work[w].tx
             r == [txs[t] EXCEPT !.status = CancelStatus(work[w].job)]
  <1>1. /\ work[w].pc = "cancelTx" /\ work[w] \in Local
        /\ t \in TxIds /\ txs[t].status # "none" /\ txs[t] \in Row
    BY DEF CancelTx, At, Inv, TypeOK, LocalOK, WithTx
  <1>2. CancelStatus(work[w].job) \in {"failed", "canceled"}
    BY DEF CancelStatus
  <1>3. /\ r \in Row /\ r.status \in {"failed", "canceled"} /\ r.owner = txs[t].owner
        /\ r.wallet = txs[t].wallet /\ r.ticker = txs[t].ticker /\ r.hash = txs[t].hash
    BY <1>1, <1>2 DEF Row, TxStatus, Finalized
  <1>4. /\ txs' = [txs EXCEPT ![t] = r] /\ UNCHANGED <<pay, setup, chain, holder, locks, ledger>>
    BY <1>1 DEF CancelTx, Inv, TypeOK, Row
  <1>5. \A u \in TxIds : txs'[u] = IF u = t THEN r ELSE txs[u]
    BY <1>4 DEF Inv, TypeOK
  <1>0. [work[w] EXCEPT !.pc = "releaseLock"] \in Local
    BY <1>1 DEF Local, Steps
  <1>l. PICK l \in Local : l = [work[w] EXCEPT !.pc = "releaseLock"]
    BY <1>0
  <1>6. /\ l.pc = "releaseLock" /\ l.tx = t /\ l.job = work[w].job /\ l.ticker = work[w].ticker
        /\ work' = [work EXCEPT ![w] = l]
    BY <1>1, <1>l DEF CancelTx, Goto, Local
  <1>7. LocalOK(l)'
    BY <1>1, <1>3, <1>5, <1>6 DEF Inv, LocalOK, WithTx, WithPaid, WithFunds, MethodSteps
  <1>8. CriticalOK(w, l)'
    <2> SUFFICES ASSUME work[w].job = "method"
                 PROVE  holder' = w /\ NonePending'
      BY <1>6 DEF CriticalOK
    <2>1. holder = w /\ \A u \in PaymentTxs : txs[u].status = "pending" => u = t
      BY <1>1 DEF Inv, CriticalOK
    <2>2. ASSUME NEW u \in TxIds, txs'[u].owner = "merchant", txs'[u].status = "pending"
          PROVE  FALSE
      <3>1. u # t /\ txs'[u] = txs[u]
        BY <1>3, <1>5, <2>2
      <3> QED
        BY <2>1, <2>2, <3>1 DEF PaymentTxs
    <2>3. holder' = w
      BY <1>4, <2>1
    <2>4. NonePending'
      BY <2>2 DEF NonePending, PaymentTxs
    <2> QED
      BY <2>3, <2>4
  <1>9. r.hash # None => Paid(r.hash, t)
    BY <1>1, <1>3 DEF Inv, RowOK
  <1>10. /\ Solvency' /\ locks' \subseteq Wallets \X Tickers
         /\ walletBalance' \in [Tickers -> Nat] /\ merchantBalance' \in [Tickers -> Nat]
    BY <1>4 DEF Inv, TypeOK, Solvency, ledger
  <1>11. r.status \notin {"none", "pending"} /\ r.status \notin InProgress
    BY <1>3 DEF InProgress
  <1> QED
    BY <1>1, <1>3, <1>4, <1>6, <1>7, <1>8, <1>9, <1>10, <1>11, RowStep

LEMMA ConfirmWriteStep ==
    ASSUME Inv, NEW w \in Workers, ConfirmWrite(w)
    PROVE  Inv'
  <1> DEFINE t == work[w].tx
             h == work[w].hash
             k == txs[t].ticker
             status == ConfirmedStatus(work[w].seen)
             credited == Credited(w)
             r == [txs[t] EXCEPT !.status = status, !.hash = h,
                                 !.fee = IF status = "completedInv" THEN 0 ELSE @]
  <1>1. /\ work[w].pc = "confirmWrite" /\ work[w].job # "method" /\ work[w] \in Local
        /\ t \in TxIds /\ txs[t].status # "none" /\ txs[t] \in Row /\ Paid(h, t) /\ Funded(t)
    BY DEF ConfirmWrite, At, Inv, TypeOK, LocalOK, WithTx, WithPaid, WithFunds, MethodSteps
  <1>2. CASE credited /\ Gained(h) < txs[t].fee
    <2>1. End(w) /\ UNCHANGED tables
      BY <1>2 DEF ConfirmWrite, tables, core, setup, ledger
    <2> QED
      BY <2>1, EndStep
  <1>3. CASE ~(credited /\ Gained(h) < txs[t].fee)
    <2>1. /\ txs' = [txs EXCEPT ![t] = r] /\ UNCHANGED <<pay, setup, chain, holder, locks>>
          /\ walletBalance' = [walletBalance EXCEPT ![k] = @ + chain[h].amount]
          /\ merchantBalance' = IF credited
                THEN [merchantBalance EXCEPT ![k] = @ + (Gained(h) - txs[t].fee)]
                ELSE merchantBalance
      BY <1>1, <1>3 DEF ConfirmWrite, Inv, TypeOK, Row
    <2>2. status \in {"completed", "completedInv"} /\ h \in Hashes
      BY <1>1 DEF ConfirmedStatus, Paid
    <2>3. /\ r \in Row /\ r.status = status /\ r.hash = h /\ r.owner = txs[t].owner
          /\ r.wallet = txs[t].wallet /\ r.ticker = txs[t].ticker
      BY <1>1, <2>2 DEF Row, TxStatus, Finalized
    <2>4. txs'[t] = r
      BY <1>1, <2>1 DEF Inv, TypeOK
    <2>5. /\ Solvency' /\ locks' \subseteq Wallets \X Tickers
          /\ walletBalance' \in [Tickers -> Nat] /\ merchantBalance' \in [Tickers -> Nat]
      <3>1. k \in Tickers /\ chain[h].amount \in Nat /\ txs[t].fee \in Nat
        BY <1>1, <2>2 DEF Inv, TypeOK, RowOK, Deposits, Row
      <3>2. Gained(h) \in Nat /\ Gained(h) <= chain[h].amount
        BY <3>1 DEF Gained
      <3>3. credited => Gained(h) - txs[t].fee \in Nat /\ Gained(h) - txs[t].fee <= chain[h].amount
        BY <1>3, <3>1, <3>2
      <3>4. /\ walletBalance \in [Tickers -> Nat] /\ merchantBalance \in [Tickers -> Nat]
            /\ \A c \in Tickers : merchantBalance[c] <= walletBalance[c]
            /\ locks \subseteq Wallets \X Tickers
        BY DEF Inv, TypeOK, Solvency
      <3>5. walletBalance' \in [Tickers -> Nat] /\ merchantBalance' \in [Tickers -> Nat]
        BY <2>1, <3>1, <3>3, <3>4
      <3>6. Solvency'
        BY <2>1, <3>1, <3>3, <3>4, <3>5, SMTT(30) DEF Solvency
      <3> QED
        BY <2>1, <3>4, <3>5, <3>6
    <2>6. ASSUME NEW l \in Local, work' = [work EXCEPT ![w] = l],
                 LocalOK(l)', CriticalOK(w, l)'
          PROVE  Inv'
      <3>1. r.hash # None /\ r.status \notin {"none", "pending"}
        BY <2>2, <2>3
      <3> QED
        BY <1>1, <2>1, <2>3, <2>5, <2>6, <3>1, RowStep
    <2>7. CASE End(w)
      <3>1. LocalOK(Idle)' /\ CriticalOK(w, Idle)'
        BY DEF LocalOK, CriticalOK, Idle, WithTx, WithPaid, WithFunds
      <3> QED
        BY <2>6, <2>7, <3>1, IdleOK DEF End
    <2>8. CASE txs[t].owner = "merchant" /\ Goto(w, "markConfirmed")
      <3>0. [work[w] EXCEPT !.pc = "markConfirmed"] \in Local
        BY <1>1 DEF Local, Steps
      <3>1. PICK l \in Local : l = [work[w] EXCEPT !.pc = "markConfirmed"]
        BY <3>0
      <3>2. /\ l.pc = "markConfirmed" /\ l.tx = t /\ l.hash = h /\ l.job = work[w].job
            /\ work' = [work EXCEPT ![w] = l]
        BY <1>1, <2>8, <3>1 DEF Goto, Local
      <3>3. LocalOK(l)' /\ CriticalOK(w, l)'
        BY <1>1, <2>1, <2>2, <2>3, <2>4, <2>8, <3>2
           DEF LocalOK, CriticalOK, Paid, Funded, WithTx, WithPaid, WithFunds
      <3> QED
        BY <2>6, <3>2, <3>3
    <2> QED
      BY <1>3, <2>7, <2>8 DEF ConfirmWrite
  <1> QED
    BY <1>2, <1>3
-----------------------------------------------------------------------------
(* Steps of customers and of the blockchain *)

LEMMA SetupStep ==
    ASSUME Inv, UNCHANGED <<core, work, pay, locks>>,
           customer' \in BOOLEAN, shown' \subseteq Wallets
    PROVE  Inv'
  <1>1. TypeOK'
    BY DEF Inv, TypeOK, core
  <1>2. (\A h \in Hashes : DepositOK(h))' /\ (\A t \in TxIds : RowOK(t))'
    BY DEF Inv, DepositOK, RowOK, Paid, core
  <1>3. Grow /\ NoNewTx /\ Solvency'
    BY DEF Inv, Grow, NoNewTx, PaymentTxs, Solvency, core
  <1>4. lastWallet <= lastWallet' /\ holder' = holder
    BY DEF Inv, TypeOK, core
  <1> QED
    BY <1>1, <1>2, <1>3, <1>4, Preserve

LEMMA AssignCustomerStep ==
    ASSUME Inv, AssignCustomer
    PROVE  Inv'
  <1>1. customer' \in BOOLEAN /\ shown' \subseteq Wallets
    BY DEF AssignCustomer, Inv, TypeOK
  <1> QED
    BY <1>1, SetupStep DEF AssignCustomer, core, ledger

LEMMA ShowAddressStep ==
    ASSUME Inv, NEW t \in TxIds, ShowAddress(t)
    PROVE  Inv'
  <1>1. txs[t].wallet \in Wallets
    BY DEF ShowAddress, IsLatest, PaymentTxs, Inv, RowOK
  <1>2. customer' \in BOOLEAN /\ shown' \subseteq Wallets
    BY <1>1 DEF ShowAddress, Inv, TypeOK
  <1> QED
    BY <1>2, SetupStep DEF ShowAddress, core, ledger

\* The chain adds a deposit, or gives its verdict on one it has seen.
LEMMA ChainStep ==
    ASSUME Inv, NEW h \in Hashes, NEW d \in Deposits, chain' = [chain EXCEPT ![h] = d],
           chain[h].state \notin {"absent", "success"} =>
               d.wallet = chain[h].wallet /\ d.ticker = chain[h].ticker,
           chain[h].state # "success", d.state # "absent",
           d.wallet \in Wallets, d.ticker \in Tickers,
           UNCHANGED <<pay, txs, setup, locks, ledger, holder, work>>
    PROVE  Inv'
  <1>1. \A g \in Hashes : chain'[g] = IF g = h THEN d ELSE chain[g]
    BY DEF Inv, TypeOK
  <1>2. TypeOK'
    BY DEF Inv, TypeOK, setup, ledger
  <1>3. (\A g \in Hashes : DepositOK(g))'
    BY <1>1 DEF Inv, DepositOK
  <1>4. Grow
    BY <1>1 DEF Grow
  <1>5. (\A t \in TxIds : RowOK(t))'
    BY <1>1 DEF Inv, RowOK, Paid, setup
  <1>6. NoNewTx /\ Solvency'
    BY DEF Inv, NoNewTx, PaymentTxs, Solvency, ledger
  <1>7. lastWallet <= lastWallet' /\ holder' = holder
    BY DEF Inv, TypeOK, setup
  <1> QED
    BY <1>2, <1>3, <1>4, <1>5, <1>6, <1>7, Preserve

LEMMA DepositStep ==
    ASSUME Inv, NEW h \in Hashes, NEW wt \in Wallets, NEW k \in Tickers,
           NEW a \in DepositAmounts, Deposit(h, wt, k, a)
    PROVE  Inv'
  <1> DEFINE d == [state |-> "seen", wallet |-> wt, ticker |-> k, amount |-> a]
  <1>1. d \in Deposits
    BY DEF Deposits, Wallets
  <1> QED
    BY <1>1, ChainStep DEF Deposit

LEMMA FinalizeStep ==
    ASSUME Inv, NEW h \in Hashes, NEW result \in {"success", "reverted"}, Finalize(h, result)
    PROVE  Inv'
  <1> DEFINE d == [chain[h] EXCEPT !.state = result]
  <1>1. chain[h] \in Deposits /\ chain[h].state = "seen"
    BY DEF Finalize, Inv, TypeOK
  <1>2. chain[h].wallet \in Wallets /\ chain[h].ticker \in Tickers
    BY <1>1 DEF Inv, DepositOK
  <1>3. /\ d \in Deposits /\ d.state = result
        /\ d.wallet = chain[h].wallet /\ d.ticker = chain[h].ticker
    BY <1>1 DEF Deposits
  <1>4. chain' = [chain EXCEPT ![h] = d]
    BY DEF Finalize, Inv, TypeOK
  <1> QED
    BY <1>1, <1>2, <1>3, <1>4, ChainStep DEF Finalize

-----------------------------------------------------------------------------
(* Steps that insert a row *)

LEMMA InsertFacts ==
    ASSUME Inv, NEW r \in Row, Insert(r), UNCHANGED chain
    PROVE  /\ lastTx + 1 \in TxIds /\ txs[lastTx + 1].status = "none"
           /\ \A u \in TxIds : txs'[u] = IF u = lastTx + 1 THEN r ELSE txs[u]
           /\ txs' \in [TxIds -> Row] /\ lastTx' = lastTx + 1 /\ lastTx' \in 0..MaxTx
           /\ Grow
  <1>1. lastTx + 1 \in TxIds /\ lastTx' = lastTx + 1 /\ lastTx' \in 0..MaxTx
    BY DEF Insert, Inv, TypeOK, TxIds
  <1>2. txs[lastTx + 1].status = "none"
    BY <1>1 DEF Inv, TypeOK, RowOK
  <1>3. \A u \in TxIds : txs'[u] = IF u = lastTx + 1 THEN r ELSE txs[u]
    BY <1>1 DEF Insert, Inv, TypeOK
  <1>4. txs' \in [TxIds -> Row]
    BY <1>1 DEF Insert, Inv, TypeOK
  <1>5. Grow
    BY <1>2, <1>3 DEF Grow
  <1> QED
    BY <1>1, <1>2, <1>3, <1>4, <1>5

\* The other rows stay well formed, and so is the new one if it should be.
LEMMA InsertRows ==
    ASSUME Inv, NEW r \in Row, Insert(r), UNCHANGED chain, lastWallet' = lastWallet,
           r.ticker \in Tickers, r.wallet \in Wallets,
           r.owner = "merchant" => r.wallet <= lastWallet,
           r.hash # None => /\ r.hash \in Hashes /\ chain[r.hash].state # "absent"
                            /\ chain[r.hash].wallet = r.wallet /\ chain[r.hash].ticker = r.ticker,
           r.status \in InProgress => r.hash # None
    PROVE  (\A t \in TxIds : RowOK(t))'
  <1> SUFFICES ASSUME NEW t \in TxIds PROVE RowOK(t)'
    OBVIOUS
  <1>1. CASE t = lastTx + 1
    <2>1. txs'[t] = r /\ lastTx' = t
      BY <1>1, InsertFacts
    <2> QED
      BY <2>1 DEF RowOK, Paid, TxIds
  <1>2. CASE t # lastTx + 1
    <2>1. txs'[t] = txs[t] /\ lastTx' = lastTx + 1
      BY <1>2, InsertFacts
    <2>2. RowOK(t) /\ lastTx \in Nat
      BY DEF Inv, TypeOK
    <2> QED
      BY <2>1, <2>2 DEF RowOK, Paid, TxIds
  <1> QED
    BY <1>1, <1>2

LEMMA CreateUnexpectedStep ==
    ASSUME Inv, NEW w \in Workers, CreateUnexpected(w)
    PROVE  Inv'
  <1> DEFINE h == work[w].hash
             r == [status |-> "inProgress", owner |-> "system", wallet |-> chain[h].wallet,
                   ticker |-> chain[h].ticker, hash |-> h, fee |-> 0]
  <1>1. End(w) /\ UNCHANGED <<pay, customer, lastWallet, shown, locks, ledger, chain, holder>>
    BY DEF CreateUnexpected
  <1>2. CASE UNCHANGED <<txs, lastTx>>
    BY <1>1, <1>2, EndStep DEF tables, core, ledger
  <1>3. CASE Insert(r)
    <2>1. h \in Hashes /\ chain[h].state # "absent"
      BY DEF CreateUnexpected, At, Inv, LocalOK
    <2>2. chain[h].wallet \in Wallets /\ chain[h].ticker \in Tickers
      BY <2>1 DEF Inv, DepositOK
    <2>3. r \in Row
      BY <2>1, <2>2 DEF Row, TxStatus, InProgress, Wallets
    <2>4. (\A t \in TxIds : RowOK(t))'
      BY <1>1, <1>3, <2>1, <2>2, <2>3, InsertRows
    <2>5. TypeOK'
      BY <1>1, <1>3, <2>3, InsertFacts, IdleOK DEF End, Inv, TypeOK, ledger
    <2>6. Grow /\ NoNewTx
      BY <1>1, <1>3, <2>3, InsertFacts DEF NoNewTx, PaymentTxs
    <2>7. (\A g \in Hashes : DepositOK(g))' /\ Solvency'
      BY <1>1 DEF Inv, DepositOK, Solvency, ledger
    <2>8. LocalOK(Idle)' /\ CriticalOK(w, Idle)'
      BY DEF LocalOK, CriticalOK, Idle, WithTx, WithPaid, WithFunds
    <2>9. ASSUME NEW v \in Workers
          PROVE  work'[v] = work[v] \/ (LocalOK(work[v]) /\ CriticalOK(v, work[v]))'
      <3>1. CASE v = w
        <4>1. work'[v] = Idle
          BY <1>1, <3>1 DEF End, Inv, TypeOK
        <4> QED
          BY <3>1, <4>1, <2>8
      <3>2. CASE v # w
        BY <1>1, <3>2 DEF End, Inv, TypeOK
      <3> QED
        BY <3>1, <3>2
    <2>10. lastWallet <= lastWallet'
      BY <1>1 DEF Inv, TypeOK
    <2> QED
      BY <1>1, <2>4, <2>5, <2>6, <2>7, <2>9, <2>10, Preserve
  <1> QED
    BY <1>2, <1>3 DEF CreateUnexpected

-----------------------------------------------------------------------------
(* SetPaymentMethod: steps that enter, use or leave locker.Do *)

\* Whoever is inside holds the lock, so the others are outside.
LEMMA OnlyHolderInside ==
    ASSUME Inv, NEW v \in Workers, holder # v
    PROVE  ~(work[v].job = "method" /\ work[v].pc # "lockWait")
  BY DEF Inv, CriticalOK

\* A step that takes the free lock, or gives it back, and touches no table.
LEMMA HolderStep ==
    ASSUME Inv, NEW w \in Workers, NEW l \in Local, work' = [work EXCEPT ![w] = l], LocalOK(l),
           (l.job = "method" /\ l.pc # "lockWait") => l.pc = "current" /\ holder' = w,
           UNCHANGED <<pay, txs, setup, locks, ledger, chain>>,
           holder' \in Workers \cup {None},
           \A v \in Workers \ {w} : holder = v => holder' = v
    PROVE  Inv'
  <1>1. TypeOK'
    BY DEF Inv, TypeOK, setup, ledger
  <1>2. \A v \in Workers : work'[v] = IF v = w THEN l ELSE work[v]
    BY DEF Inv, TypeOK
  <1>3. (\A h \in Hashes : DepositOK(h))' /\ (\A t \in TxIds : RowOK(t))'
    BY DEF Inv, DepositOK, RowOK, Paid, setup
  <1>4. ASSUME NEW v \in Workers
        PROVE  LocalOK(work[v])'
    <2>1. LocalOK(work'[v])
      BY <1>2 DEF Inv
    <2> QED
      BY <2>1 DEF LocalOK, Paid, Funded
  <1>5. ASSUME NEW v \in Workers
        PROVE  CriticalOK(v, work[v])'
    <2>1. CASE v = w
      <3>1. work'[v] = l
        BY <1>2, <2>1
      <3> QED
        BY <2>1, <3>1 DEF CriticalOK
    <2>2. CASE v # w
      <3>1. work'[v] = work[v] /\ CriticalOK(v, work[v])
        BY <1>2, <2>2 DEF Inv
      <3> QED
        BY <2>2, <3>1 DEF CriticalOK, NonePending, PaymentTxs, setup
    <2> QED
      BY <2>1, <2>2
  <1>6. PendingIsLatest' /\ SingleUseAddress' /\ PaidOnlyIfConfirmed' /\ Solvency'
    BY DEF Inv, PendingIsLatest, SingleUseAddress, PaidOnlyIfConfirmed, Solvency,
           PaymentTxs, ledger
  <1> QED
    BY <1>1, <1>3, <1>4, <1>5, <1>6 DEF Inv

LEMMA AcquireLockStep ==
    ASSUME Inv, NEW w \in Workers, AcquireLock(w)
    PROVE  Inv'
  <1> DEFINE l == [work[w] EXCEPT !.pc = "current"]
  <1>1. work[w] \in Local /\ work[w].pc = "lockWait" /\ LocalOK(work[w])
    BY DEF AcquireLock, At, Inv, TypeOK
  <1>2. l \in Local /\ l.pc = "current" /\ l.job = work[w].job /\ l.ticker = work[w].ticker
    BY <1>1 DEF Local, Steps
  <1>3. work' = [work EXCEPT ![w] = l]
    BY DEF AcquireLock, Goto
  <1>4. LocalOK(l)
    BY <1>1, <1>2 DEF LocalOK, WithTx, WithPaid, WithFunds, MethodSteps
  <1> QED
    BY <1>2, <1>3, <1>4, HolderStep DEF AcquireLock

LEMMA LeaveStep ==
    ASSUME Inv, NEW w \in Workers, holder = w, End(w), holder' = None,
           UNCHANGED <<pay, txs, setup, locks, ledger, chain>>
    PROVE  Inv'
  BY IdleOK, HolderStep DEF End, Idle

\* A pending transaction of the payment is its latest.
LEMMA LatestPending ==
    ASSUME Inv, NEW t \in TxIds, IsLatest(t), NEW u \in PaymentTxs, txs[u].status = "pending"
    PROVE  u = t
  <1>1. t <= u /\ u <= t
    BY DEF Inv, PendingIsLatest, IsLatest
  <1> QED
    BY <1>1 DEF PaymentTxs, TxIds

LEMMA CurrentStep ==
    ASSUME Inv, NEW w \in Workers, Current(w)
    PROVE  Inv'
  <1>1. /\ work[w] \in Local /\ work[w].pc = "current" /\ work[w].job = "method"
        /\ work[w].ticker \in Tickers /\ holder = w
    BY DEF Current, At, Inv, TypeOK, LocalOK, CriticalOK
  <1>2. CASE NonePending /\ Goto(w, "freshWallet") /\ UNCHANGED holder
    <2> DEFINE l == [work[w] EXCEPT !.pc = "freshWallet"]
    <2>1. LocalOK(l) /\ CriticalOK(w, l)
      BY <1>1, <1>2 DEF Local, LocalOK, CriticalOK, WithTx, WithPaid, WithFunds, MethodSteps
    <2>2. UNCHANGED tables
      BY <1>2 DEF Current, tables, core, setup, ledger
    <2> QED
      BY <1>2, <2>1, <2>2, GotoStep DEF Steps
  <1>3. CASE PaymentTxs = {} /\ Goto(w, "freshWallet") /\ UNCHANGED holder
    BY <1>2, <1>3 DEF NonePending
  <1>4. ASSUME NEW t \in TxIds, IsLatest(t), txs[t].status = "canceled",
               Goto(w, "freshWallet"), UNCHANGED holder
        PROVE  Inv'
    <2>1. NonePending
      BY <1>4, LatestPending DEF NonePending
    <2> QED
      BY <1>2, <1>4, <2>1
  <1>5. CASE End(w) /\ holder' = None
    BY <1>1, <1>5, LeaveStep DEF Current
  <1>6. ASSUME NEW t \in TxIds, IsLatest(t), UNCHANGED holder,
               work' = [work EXCEPT ![w].pc = "cancelTx", ![w].tx = t]
        PROVE  Inv'
    <2> DEFINE l == [work[w] EXCEPT !.pc = "cancelTx", !.tx = t]
    <2>1. t \in 0..MaxTx /\ txs[t].status # "none"
      BY <1>6 DEF IsLatest, PaymentTxs, TxIds
    <2>2. l \in Local /\ work' = [work EXCEPT ![w] = l]
      BY <1>1, <1>6, <2>1 DEF Inv, TypeOK, Local, Steps
    <2>3. /\ l.pc = "cancelTx" /\ l.tx = t /\ l.job = "method" /\ l.ticker = work[w].ticker
      BY <1>1 DEF Local
    <2>4. LocalOK(l)
      BY <1>1, <2>1, <2>3 DEF LocalOK, WithTx, WithPaid, WithFunds, MethodSteps
    <2>5. CriticalOK(w, l)
      BY <1>1, <1>6, <2>3, LatestPending DEF CriticalOK
    <2>6. UNCHANGED tables
      BY <1>6 DEF Current, tables, core, setup, ledger
    <2> QED
      BY <2>2, <2>4, <2>5, <2>6, MoveStep
  <1> QED
    BY <1>3, <1>4, <1>5, <1>6 DEF Current

LEMMA FreshWalletStep ==
    ASSUME Inv, NEW w \in Workers, FreshWallet(w)
    PROVE  Inv'
  <1>1. /\ work[w] \in Local /\ work[w].pc = "freshWallet" /\ work[w].job = "method"
        /\ work[w].ticker \in Tickers /\ holder = w /\ NonePending
    BY DEF FreshWallet, At, Inv, TypeOK, LocalOK, CriticalOK
  <1>2. lastWallet + 1 \in Wallets /\ lastWallet' = lastWallet + 1 /\ lastWallet \in Nat
    BY DEF FreshWallet, Inv, TypeOK, Wallets
  <1>3. [work[w] EXCEPT !.pc = "createTx", !.wallet = lastWallet + 1] \in Local
    <2>1. lastWallet + 1 \in 0..MaxWallets
      BY <1>2 DEF Wallets
    <2> QED
      BY <1>1, <2>1 DEF Local, Steps
  <1>4. PICK l \in Local : l = [work[w] EXCEPT !.pc = "createTx", !.wallet = lastWallet + 1]
    BY <1>3
  <1>5. /\ l.pc = "createTx" /\ l.job = "method" /\ l.ticker = work[w].ticker
        /\ l.wallet = lastWallet + 1 /\ work' = [work EXCEPT ![w] = l]
    BY <1>1, <1>4 DEF FreshWallet, Inv, TypeOK, Local
  <1>6. UNCHANGED <<pay, customer, txs, lastTx, shown, ledger, chain, holder>>
    BY DEF FreshWallet
  <1>7. TypeOK'
    <2>1. lastWallet' \in 0..MaxWallets
      BY <1>2 DEF Wallets
    <2>2. locks' \subseteq Wallets \X Tickers
      BY <1>1, <1>2 DEF FreshWallet, Inv, TypeOK
    <2>3. work' \in [Workers -> Local]
      BY <1>5 DEF Inv, TypeOK
    <2> QED
      BY <1>6, <2>1, <2>2, <2>3 DEF Inv, TypeOK, ledger
  <1>8. (\A h \in Hashes : DepositOK(h))'
    BY <1>6 DEF Inv, DepositOK
  <1>9. (\A t \in TxIds : RowOK(t))'
    BY <1>2, <1>6 DEF Inv, RowOK, Paid, Wallets
  <1>10. Grow /\ NoNewTx /\ Solvency'
    BY <1>6 DEF Inv, Grow, NoNewTx, PaymentTxs, Solvency, ledger
  <1>11. LocalOK(l)'
    BY <1>1, <1>5 DEF LocalOK, WithTx, WithPaid, WithFunds, MethodSteps
  <1>12. \A t \in PaymentTxs : txs[t].wallet # lastWallet + 1
    BY <1>2 DEF Inv, RowOK, PaymentTxs, Wallets
  <1>13. CriticalOK(w, l)'
    BY <1>1, <1>2, <1>5, <1>6, <1>12 DEF CriticalOK, NonePending, PaymentTxs
  <1>14. ASSUME NEW v \in Workers
         PROVE  work'[v] = work[v] \/ (LocalOK(work[v]) /\ CriticalOK(v, work[v]))'
    <2>1. CASE v = w
      <3>1. work'[v] = l
        BY <1>5, <2>1 DEF Inv, TypeOK
      <3> QED
        BY <2>1, <3>1, <1>11, <1>13
    <2>2. CASE v # w
      BY <1>5, <2>2 DEF Inv, TypeOK
    <2> QED
      BY <2>1, <2>2
  <1>15. lastWallet <= lastWallet'
    BY <1>2
  <1> QED
    BY <1>6, <1>7, <1>8, <1>9, <1>10, <1>14, <1>15, Preserve

LEMMA CreateTxStep ==
    ASSUME Inv, NEW w \in Workers, CreateTx(w)
    PROVE  Inv'
  <1> DEFINE n == lastTx + 1
             r == [status |-> "pending", owner |-> "merchant", wallet |-> work[w].wallet,
                   ticker |-> work[w].ticker, hash |-> None, fee |-> ServiceFee]
  <1>1. /\ work[w].job = "method" /\ work[w].ticker \in Tickers /\ holder = w /\ NonePending
        /\ work[w].wallet \in Wallets /\ work[w].wallet <= lastWallet
        /\ \A t \in PaymentTxs : txs[t].wallet # work[w].wallet
    BY DEF CreateTx, At, Inv, TypeOK, LocalOK, CriticalOK
  <1>2. /\ Insert(r) /\ End(w) /\ holder' = None
        /\ UNCHANGED <<pay, customer, lastWallet, shown, locks, ledger, chain>>
    BY DEF CreateTx
  <1>3. r \in Row
    BY <1>1 DEF Row, TxStatus, Wallets
  <1>4. TypeOK'
    BY <1>2, <1>3, InsertFacts, IdleOK DEF End, Inv, TypeOK, ledger
  <1>5. (\A t \in TxIds : RowOK(t))'
    BY <1>1, <1>2, <1>3, InsertRows DEF InProgress
  <1>6. Grow /\ \A u \in TxIds : txs'[u] = IF u = n THEN r ELSE txs[u]
    BY <1>2, <1>3, InsertFacts
  <1>7. n \in TxIds /\ \A u \in PaymentTxs : u <= lastTx
    BY <1>2, <1>3, InsertFacts DEF Inv, RowOK, PaymentTxs
  <1>8. (\A h \in Hashes : DepositOK(h))' /\ Solvency'
    BY <1>2 DEF Inv, DepositOK, Solvency, ledger
  <1>9. \A v \in Workers : work'[v] = IF v = w THEN Idle ELSE work[v]
    BY <1>2 DEF End, Inv, TypeOK
  <1>10. ASSUME NEW v \in Workers
         PROVE  LocalOK(work[v])'
    <2>1. LocalOK(work'[v])
      BY <1>9, IdleOK DEF Inv
    <2> QED
      BY <1>6, <2>1, LocalStable
  <1>11. ASSUME NEW v \in Workers
         PROVE  CriticalOK(v, work[v])'
    <2>1. ~(work'[v].job = "method" /\ work'[v].pc # "lockWait")
      BY <1>1, <1>9, OnlyHolderInside DEF Idle
    <2> QED
      BY <2>1 DEF CriticalOK
  <1>12. \A t \in PaymentTxs' : t = n \/ (t \in PaymentTxs /\ txs'[t] = txs[t])
    BY <1>6 DEF PaymentTxs
  <1>13. PendingIsLatest'
    <2> SUFFICES ASSUME NEW t \in PaymentTxs', NEW u \in PaymentTxs', txs'[t].status = "pending"
                 PROVE  u <= t
      BY DEF PendingIsLatest
    <2>1. t = n
      BY <1>1, <1>12 DEF NonePending
    <2>2. lastTx \in Nat
      BY DEF Inv, TypeOK
    <2> QED
      BY <1>7, <1>12, <2>1, <2>2 DEF PaymentTxs, TxIds
  <1>14. SingleUseAddress'
    <2> SUFFICES ASSUME NEW t \in PaymentTxs', NEW u \in PaymentTxs', txs'[t].wallet = txs'[u].wallet
                 PROVE  t = u
      BY DEF SingleUseAddress
    <2>1. txs'[n].wallet = work[w].wallet
      BY <1>6, <1>7
    <2> QED
      BY <1>1, <1>12, <2>1 DEF Inv, SingleUseAddress
  <1>15. PaidOnlyIfConfirmed'
    <2> SUFFICES ASSUME pay' = "success"
                 PROVE  \E h \in Hashes, t \in PaymentTxs' :
                            /\ chain'[h].state = "success"
                            /\ chain'[h].wallet = txs'[t].wallet /\ chain'[h].ticker = txs'[t].ticker
      BY DEF PaidOnlyIfConfirmed
    <2>1. PICK h \in Hashes, t \in PaymentTxs :
                  /\ chain[h].state = "success"
                  /\ chain[h].wallet = txs[t].wallet /\ chain[h].ticker = txs[t].ticker
      BY <1>2 DEF Inv, PaidOnlyIfConfirmed
    <2>2. t \in PaymentTxs' /\ txs'[t].wallet = txs[t].wallet /\ txs'[t].ticker = txs[t].ticker
      BY <1>6 DEF Grow, PaymentTxs
    <2> QED
      BY <1>2, <2>1, <2>2
  <1> QED
    BY <1>4, <1>5, <1>8, <1>10, <1>11, <1>13, <1>14, <1>15 DEF Inv

LEMMA RefusedStep ==
    ASSUME Inv, NEW w \in Workers, Refused(w)
    PROVE  Inv'
  <1>1. holder = w
    BY DEF Refused, At, Inv, LocalOK, CriticalOK
  <1> QED
    BY <1>1, LeaveStep DEF Refused

LEMMA AbortStep ==
    ASSUME Inv, NEW w \in Workers, Abort(w)
    PROVE  Inv'
  <1>1. /\ holder' \in Workers \cup {None}
        /\ \A v \in Workers \ {w} : holder = v => holder' = v
    BY DEF Abort, Inv, TypeOK
  <1> QED
    BY <1>1, IdleOK, HolderStep DEF Abort, End, Idle

-----------------------------------------------------------------------------
(* The theorems *)

LEMMA InitInv == Init => Inv
  <1> SUFFICES ASSUME Init PROVE Inv
    OBVIOUS
  <1>1. TypeOK
    <2>1. NoRow \in Row /\ NoDeposit \in Deposits
      BY DEF Row, NoRow, TxStatus, Deposits, NoDeposit
    <2>2. /\ txs \in [TxIds -> Row] /\ chain \in [Hashes -> Deposits]
          /\ work \in [Workers -> Local]
      BY <2>1, IdleOK DEF Init
    <2>3. walletBalance \in [Tickers -> Nat] /\ merchantBalance \in [Tickers -> Nat]
      BY DEF Init
    <2>4. lastTx \in 0..MaxTx /\ lastWallet \in 0..MaxWallets
      BY DEF Init
    <2>5. pay \in PayStatus /\ customer \in BOOLEAN /\ holder \in Workers \cup {None}
      BY DEF Init, PayStatus
    <2>6. locks \subseteq Wallets \X Tickers /\ shown \subseteq Wallets
      BY DEF Init
    <2> QED
      BY <2>2, <2>3, <2>4, <2>5, <2>6 DEF TypeOK
  <1>2. \A w \in Workers : LocalOK(work[w]) /\ CriticalOK(w, work[w])
    BY IdleOK DEF Init
  <1>3. \A t \in TxIds : txs[t].status = "none"
    BY DEF Init, NoRow
  <1>4. PaymentTxs = {} /\ (\A t \in TxIds : RowOK(t))
    BY <1>3 DEF PaymentTxs, RowOK
  <1>5. \A h \in Hashes : DepositOK(h)
    BY DEF Init, DepositOK, NoDeposit
  <1>6. PendingIsLatest /\ SingleUseAddress /\ PaidOnlyIfConfirmed /\ Solvency
    BY <1>4 DEF Init, PendingIsLatest, SingleUseAddress, PaidOnlyIfConfirmed, Solvency
  <1> QED
    BY <1>1, <1>2, <1>4, <1>5, <1>6 DEF Inv

LEMMA WorkerStep ==
    ASSUME Inv, NEW w \in Workers, Step(w)
    PROVE  Inv'
  BY StartWebhookStep, UnexpectedStep, CreateUnexpectedStep, ReceiveStep, MarkInProgressStep,
     StartDiscoverStep, StartCheckStep, CandidateStep, ReloadStep, ReceiptStep, ConfirmReadStep,
     ConfirmWriteStep, MarkConfirmedStep, CancelTxStep, ReleaseLockStep, FailOrLockStep,
     StartExpireStep, LatestStep, ObserveStep, StartMethodStep, AcquireLockStep, CurrentStep,
     FreshWalletStep, CreateTxStep, RefusedStep, StartLockStep, MethodStep, AbortStep
     DEF Step

LEMMA NextInv == Inv /\ [Next]_vars => Inv'
  <1> SUFFICES ASSUME Inv, [Next]_vars PROVE Inv'
    OBVIOUS
  <1>1. CASE Next
    BY <1>1, WorkerStep, AssignCustomerStep, ShowAddressStep, DepositStep, FinalizeStep DEF Next
  <1>2. CASE UNCHANGED vars
    <2>1. UNCHANGED <<core, work, pay, locks, customer, shown>>
      BY <1>2 DEF vars, core
    <2> QED
      BY <2>1, SetupStep DEF Inv, TypeOK
  <1> QED
    BY <1>1, <1>2

\* The strengthened invariant holds in every reachable state.
THEOREM InductiveInvariant == Spec => []Inv
  BY InitInv, NextInv, PTL DEF Spec

\* Every variable keeps its type: in particular no job ever reads a row, a deposit or
\* a wallet that does not exist, and no balance becomes negative.
THEOREM TypeCorrectness == Spec => []TypeOK
  <1>1. Inv => TypeOK
    BY DEF Inv
  <1> QED
    BY <1>1, InductiveInvariant, PTL

\* AcquireFreshLock and locker.Do make deposit addresses single-use, however many
\* requests, expiries and failures interleave.
THEOREM AddressesAreSingleUse == Spec => []SingleUseAddress
  <1>1. Inv => SingleUseAddress
    BY DEF Inv
  <1> QED
    BY <1>1, InductiveInvariant, PTL

\* Concurrent calls of SetPaymentMethod never leave two transactions waiting.
THEOREM OnePendingTransaction == Spec => []AtMostOnePending
  <1>1. Inv => AtMostOnePending
    <2> SUFFICES ASSUME Inv, NEW t \in PaymentTxs, NEW u \in PaymentTxs,
                        txs[t].status = "pending", txs[u].status = "pending"
                 PROVE  t = u
      BY DEF AtMostOnePending
    <2>1. t <= u /\ u <= t
      BY DEF Inv, PendingIsLatest
    <2> QED
      BY <2>1 DEF PaymentTxs, TxIds
  <1> QED
    BY <1>1, InductiveInvariant, PTL

\* updateBalancesAfterTxConfirmation keeps the ledger solvent even when overlapping
\* jobs confirm the same transaction several times.
THEOREM LedgerSolvent == Spec => []Solvency
  <1>1. Inv => Solvency
    BY DEF Inv
  <1> QED
    BY <1>1, InductiveInvariant, PTL

\* No race makes a payment successful without a confirmed deposit to its address.
THEOREM SuccessNeedsDeposit == Spec => []PaidOnlyIfConfirmed
  <1>1. Inv => PaidOnlyIfConfirmed
    BY DEF Inv
  <1> QED
    BY <1>1, InductiveInvariant, PTL
-----------------------------------------------------------------------------
(* Collecting a payment one job after the other, none of them failing, for *)
(* any currencies, amounts, deposits and order of jobs: the payment follows*)
(* its transactions, no wallet stays locked, and IncomingPayment implements*)
(* PaymentPromise.  Overlapping jobs break all three (README), so the      *)
(* inductive invariant is one of a single worker: it says, for each step   *)
(* of each job, how the payment and the rows may differ for the moment.    *)

\* One goroutine works on the payment, and no job stops half-way.
OneAtATime == ~Faults /\ \E w \in Workers : Workers = {w}

\* The tables have room for a row per wallet and per deposit: the bound MaxTx is
\* the model's, not the program's.
Roomy == IsFiniteSet(Hashes) /\ MaxTx >= MaxWallets + Cardinality(Hashes)

AllIn(S) == \A t \in PaymentTxs : txs[t].status \in S
Has(s) == \E t \in PaymentTxs : txs[t].status = s

\* What the payment says of its transactions when no job is half-way through both.
Agree ==
    /\ pay = "pending" => AllIn({"canceled", "pending"})
    /\ pay = "locked" => AllIn({"canceled", "pending", "inProgressInv"})
    /\ pay = "inProgress" => AllIn({"canceled", "inProgress"}) /\ Has("inProgress")
    /\ pay = "success" => AllIn({"canceled", "completed"}) /\ Has("completed")
    /\ pay = "failed" => AllIn({"canceled", "failed", "completedInv"})

\* The payment can still be settled, and none of its transactions can pay it.
Lost == pay \in {"pending", "locked", "inProgress"} /\ AllIn({"canceled", "failed"})

RowSerial(t) ==
    /\ t <= lastTx => txs[t].status # "none"
    /\ txs[t].status # "none" =>
        /\ txs[t].owner = "system" =>
              txs[t].status \in {"inProgress", "completed", "failed"} /\ txs[t].hash # None
        /\ (txs[t].owner = "merchant" /\ txs[t].status = "inProgress") =>
              IncomingStatus(txs[t].hash) = "inProgress" /\ txs[t].fee = ServiceFee
        /\ txs[t].status = "pending" => txs[t].hash = None /\ txs[t].fee = ServiceFee

\* A deposit belongs to one row.
HashesApart ==
    \A t, u \in TxIds : (txs[t].status # "none" /\ txs[u].status # "none"
                         /\ txs[t].hash # None /\ txs[t].hash = txs[u].hash) => t = u

\* All transactions of the payment but its newest are canceled.
OpenIsLatest == \A t, u \in PaymentTxs : txs[t].status # "canceled" => u <= t

\* Nobody can pay while the currency may still change.
UnpaidWhilePending == pay = "pending" => shown = {} /\ \A h \in Hashes : chain[h].state = "absent"

\* A deposit for a row that waits has not been recorded elsewhere, except one that
\* is taken for the activation of a TRON account.
WaitingIsUnrecorded ==
    \A t, u \in TxIds : \A h \in Hashes :
        (txs[t].status = "pending" /\ Paid(h, t)
         /\ txs[u].status # "none" /\ txs[u].hash = h) => IsActivation(h)

\* The worker acts on an open row as it is in the table.
Acting(l) ==
    txs[l.tx].status \in InProgress /\ l.seen = txs[l.tx].status /\ l.hash = txs[l.tx].hash

Waiting(l) == txs[l.tx].status = "pending"

\* What the one worker knows, and what it has yet to tell the payment.
SerialOK(l) ==
    /\ l.pc \notin {"markInProgress", "markConfirmed", "releaseLock", "failPayment"} => Agree
    /\ l.pc \in {"unexpected", "createUnexpected"} =>
          IsActivation(l.hash) \/ Awaiting(l.hash) = {}
    /\ l.pc = "createUnexpected" => RowsWithHash(l.hash) = {}
    /\ l.pc \in {"candidate", "observe"} => Waiting(l)
    /\ l.pc = "candidate" => l.job = "discover"
    /\ l.pc = "observe" => l.job = "expire"
    /\ l.pc = "receive" => Waiting(l) /\ RowsWithHash(l.hash) = {}
    /\ l.pc = "receipt" => IF l.job = "discover"
                           THEN Waiting(l) /\ RowsWithHash(l.hash) = {}
                           ELSE l.job = "check" /\ Acting(l)
    /\ l.pc = "markInProgress" =>
          /\ pay = "locked" /\ l.tx \in PaymentTxs
          /\ txs[l.tx].status = "inProgress" /\ txs[l.tx].hash = l.hash
    /\ l.pc = "reload" =>
          l.job = "discover" /\ txs[l.tx].status \in InProgress /\ txs[l.tx].hash = l.hash
    /\ l.pc \in {"confirmRead", "confirmWrite"} => Acting(l) /\ chain[l.hash].state = "success"
    /\ l.pc = "markConfirmed" =>
          /\ l.tx \in PaymentTxs /\ l.seen \in InProgress
          /\ txs[l.tx].status = ConfirmedStatus(l.seen)
          /\ pay = IF l.seen = "inProgress" THEN "inProgress" ELSE "locked"
    /\ l.pc = "cancelTx" =>
          /\ l.job \in {"discover", "check"} => txs[l.tx].status \in InProgress
          /\ l.job \notin {"discover", "check"} =>
                Waiting(l) /\ l.job \in {"method", "expire"}
    /\ l.pc = "releaseLock" => IF txs[l.tx].owner = "merchant" THEN Lost
                               ELSE Agree /\ l.job # "method"
    /\ l.pc = "failPayment" => Lost
    /\ l.pc = "latest" => pay \in {"pending", "locked"} /\ l.job = "expire"
    /\ l.job = "method" => pay = "pending"
    /\ (l.job = "method" /\ l.pc \in {"releaseLock", "freshWallet", "createTx"}) =>
          AllIn({"canceled"})
    /\ l.pc \in {"method", "lockWrite"} => pay = "pending"

\* A locked wallet waits for a deposit, or its lock is about to get a transaction or
\* about to go.
LockOK(x, l) ==
    \/ \E t \in PaymentTxs : txs[t].status = "pending" /\ x = <<txs[t].wallet, txs[t].ticker>>
    \/ l.pc = "createTx" /\ x = <<l.wallet, l.ticker>>
    \/ l.pc = "releaseLock" /\ x = <<txs[l.tx].wallet, txs[l.tx].ticker>>

TablesSerial ==
    /\ \A t \in TxIds : RowSerial(t)
    /\ HashesApart
    /\ OpenIsLatest
    /\ UnpaidWhilePending
    /\ WaitingIsUnrecorded

LocksSerial == \A w \in Workers : \A x \in locks : LockOK(x, work[w])

SInv ==
    /\ TablesSerial
    /\ \A w \in Workers : SerialOK(work[w])
    /\ Roomy => LocksSerial

USE DEF InProgress

-----------------------------------------------------------------------------
(* Steps that move the worker and leave the tables alone *)

facts == <<pay, txs, lastTx, chain, shown>>
seen == <<facts, locks>>

\* With one worker, what holds of it after the step holds of all.
LEMMA SWorker ==
    ASSUME OneAtATime, Inv, NEW w \in Workers, NEW l,
           work' = [work EXCEPT ![w] = l], TablesSerial', SerialOK(l)',
           Roomy => \A x \in locks' : LockOK(x, l)'
    PROVE  SInv'
  <1>1. \A v \in Workers : v = w /\ work'[v] = l
    BY DEF OneAtATime, Inv, TypeOK
  <1>2. \A v \in Workers : SerialOK(work[v])'
    BY <1>1
  <1>3. Roomy => \A v \in Workers : \A x \in locks' : LockOK(x, work[v])'
    BY <1>1
  <1> QED
    BY <1>2, <1>3 DEF SInv, LocksSerial

LEMMA SKept ==
    ASSUME UNCHANGED facts
    PROVE  /\ TablesSerial => TablesSerial'
           /\ \A l : SerialOK(l) => SerialOK(l)'
  <1>1. TablesSerial => TablesSerial'
    BY DEF TablesSerial, RowSerial, HashesApart, OpenIsLatest, UnpaidWhilePending,
           WaitingIsUnrecorded, IncomingStatus, PaymentTxs, IsActivation, Paid, facts
  <1>2. ASSUME NEW l, SerialOK(l) PROVE SerialOK(l)'
    <2>1. pay' = pay /\ txs' = txs /\ chain' = chain
      BY DEF facts
    <2>2. /\ Agree' <=> Agree
          /\ Lost' <=> Lost
          /\ AllIn({"canceled"})' <=> AllIn({"canceled"})
      BY <2>1 DEF Agree, Lost, AllIn, Has, PaymentTxs
    <2>3. /\ IsActivation(l.hash)' <=> IsActivation(l.hash)
          /\ Awaiting(l.hash)' = Awaiting(l.hash)
          /\ RowsWithHash(l.hash)' = RowsWithHash(l.hash)
          /\ PaymentTxs' = PaymentTxs
      BY <2>1 DEF IsActivation, Awaiting, RowsWithHash, PaymentTxs
    <2>4. /\ Waiting(l)' <=> Waiting(l)
          /\ Acting(l)' <=> Acting(l)
      BY <2>1 DEF Waiting, Acting
    <2> QED
      BY <1>2, <2>1, <2>2, <2>3, <2>4 DEF SerialOK
  <1> QED
    BY <1>1, <1>2

LEMMA SMove ==
    ASSUME OneAtATime, Inv, SInv, NEW w \in Workers, NEW l, SerialOK(l),
           work' = [work EXCEPT ![w] = l], UNCHANGED seen,
           work[w].pc \notin {"createTx", "releaseLock"}
    PROVE  SInv'
  <1>1. TablesSerial' /\ SerialOK(l)'
    BY SKept DEF SInv, seen
  <1>2. ASSUME Roomy, NEW x \in locks'
        PROVE  LockOK(x, l)'
    <2>1. LockOK(x, work[w])
      BY <1>2 DEF SInv, LocksSerial, seen
    <2>2. \E t \in PaymentTxs : txs[t].status = "pending" /\ x = <<txs[t].wallet, txs[t].ticker>>
      BY <2>1 DEF LockOK
    <2> QED
      BY <2>2 DEF LockOK, PaymentTxs, seen, facts
  <1> QED
    BY <1>1, <1>2, SWorker

\* What is known of the worker before its step.
LEMMA Known ==
    ASSUME Inv, SInv, NEW w \in Workers
    PROVE  /\ SerialOK(work[w]) /\ LocalOK(work[w])
           /\ work[w] \in Local /\ DOMAIN work[w] = DOMAIN Idle
  BY DEF Inv, SInv, TypeOK, Local, Idle

LEMMA SerialIdle ==
    Agree => SerialOK(Idle)
  BY DEF SerialOK, Idle

LEMMA SEnd ==
    ASSUME OneAtATime, Inv, SInv, NEW w \in Workers, End(w), UNCHANGED seen, Agree,
           work[w].pc \notin {"createTx", "releaseLock"}
    PROVE  SInv'
  BY SerialIdle, SMove DEF End

LEMMA SGoto ==
    ASSUME OneAtATime, Inv, SInv, NEW w \in Workers, NEW p, Goto(w, p), UNCHANGED seen,
           SerialOK([work[w] EXCEPT !.pc = p]),
           work[w].pc \notin {"createTx", "releaseLock"}
    PROVE  SInv'
  <1>1. work' = [work EXCEPT ![w] = [work[w] EXCEPT !.pc = p]]
    BY DEF Goto
  <1> QED
    BY <1>1, SMove

\* A job starts in a state where the payment and the rows agree.
LEMMA SBegin ==
    ASSUME OneAtATime, Inv, SInv, NEW w \in Workers, NEW l, Begin(w, l), UNCHANGED seen,
           Agree => SerialOK(l)
    PROVE  SInv'
  <1>1. SerialOK(work[w]) /\ work[w] = Idle
    BY Known DEF Begin
  <1>2. Agree /\ work[w].pc = "idle"
    BY <1>1 DEF SerialOK, Idle
  <1> QED
    BY <1>2, SMove DEF Begin

LEMMA SStartWebhook ==
    ASSUME OneAtATime, Inv, SInv, NEW w \in Workers, NEW h \in Hashes, StartWebhook(w, h)
    PROVE  SInv'
  <1> UNCHANGED seen
    BY DEF StartWebhook, seen, facts, setup
  <1>1. CASE /\ IsActivation(h) \/ Awaiting(h) = {}
             /\ Begin(w, [Idle EXCEPT !.job = "webhook", !.hash = h, !.pc = "unexpected"])
    <2> DEFINE l == [Idle EXCEPT !.job = "webhook", !.hash = h, !.pc = "unexpected"]
    <2>1. l.pc = "unexpected" /\ l.job = "webhook" /\ l.hash = h
      BY DEF Idle
    <2>2. Agree => SerialOK(l)
      <3> HIDE DEF l
      <3> QED
        BY <2>1, <1>1 DEF SerialOK
    <2> QED
      BY <1>1, <2>2, SBegin
  <1>2. ASSUME ~IsActivation(h), NEW t \in Awaiting(h),
               Begin(w, [Idle EXCEPT !.job = "webhook", !.hash = h, !.pc = "receive", !.tx = t])
        PROVE  SInv'
    <2> DEFINE l == [Idle EXCEPT !.job = "webhook", !.hash = h, !.pc = "receive", !.tx = t]
    <2>1. l.pc = "receive" /\ l.job = "webhook" /\ l.hash = h /\ l.tx = t
      BY DEF Idle
    <2>2. txs[t].status = "pending" /\ t \in TxIds /\ Paid(h, t)
      BY <1>2 DEF Awaiting, Paid, StartWebhook
    <2>3. RowsWithHash(h) = {}
      BY <1>2, <2>2 DEF SInv, TablesSerial, WaitingIsUnrecorded, RowsWithHash
    <2>4. Agree => SerialOK(l)
      <3> HIDE DEF l
      <3> QED
        BY <2>1, <2>2, <2>3 DEF SerialOK, Waiting
    <2> QED
      BY <1>2, <2>4, SBegin
  <1> QED
    BY <1>1, <1>2 DEF StartWebhook

LEMMA SUnexpected ==
    ASSUME OneAtATime, Inv, SInv, NEW w \in Workers, Unexpected(w)
    PROVE  SInv'
  <1> UNCHANGED seen
    BY DEF Unexpected, seen, facts, setup
  <1>1. SerialOK(work[w]) /\ DOMAIN work[w] = DOMAIN Idle /\ work[w].pc = "unexpected"
    BY Known DEF Unexpected, At
  <1>2. Agree
    BY <1>1 DEF SerialOK
  <1>3. CASE RowsWithHash(work[w].hash) = {}
    <2> DEFINE l == [work[w] EXCEPT !.pc = "createUnexpected"]
    <2>1. l.pc = "createUnexpected" /\ l.hash = work[w].hash /\ l.job = work[w].job
      BY <1>1 DEF Idle
    <2>2. SerialOK(l)
      <3> HIDE DEF l
      <3> QED
        BY <1>1, <1>3, <2>1 DEF SerialOK
    <2> QED
      BY <1>1, <1>3, <2>2, SGoto DEF Unexpected
  <1> QED
    BY <1>1, <1>2, <1>3, SEnd DEF Unexpected

LEMMA SStartDiscover ==
    ASSUME OneAtATime, Inv, SInv, NEW w \in Workers, NEW t \in TxIds, StartDiscover(w, t)
    PROVE  SInv'
  <1> UNCHANGED seen
    BY DEF StartDiscover, seen, facts, setup
  <1> DEFINE l == [Idle EXCEPT !.job = "discover", !.pc = "candidate", !.tx = t]
  <1>1. l.pc = "candidate" /\ l.job = "discover" /\ l.tx = t
    BY DEF Idle
  <1>2. Agree => SerialOK(l)
    <2> HIDE DEF l
    <2> QED
      BY <1>1 DEF SerialOK, Waiting, StartDiscover
  <1> QED
    BY <1>2, SBegin DEF StartDiscover

LEMMA SStartCheck ==
    ASSUME OneAtATime, Inv, SInv, NEW w \in Workers, NEW t \in TxIds, StartCheck(w, t)
    PROVE  SInv'
  <1> UNCHANGED seen
    BY DEF StartCheck, seen, facts, setup
  <1> DEFINE l == [Idle EXCEPT !.job = "check", !.pc = "receipt", !.tx = t,
                               !.hash = txs[t].hash, !.seen = txs[t].status]
  <1>1. /\ l.pc = "receipt" /\ l.job = "check" /\ l.tx = t
        /\ l.hash = txs[t].hash /\ l.seen = txs[t].status
    BY DEF Idle
  <1>2. Agree => SerialOK(l)
    <2> HIDE DEF l
    <2> QED
      BY <1>1 DEF SerialOK, Acting, StartCheck
  <1> QED
    BY <1>2, SBegin DEF StartCheck

LEMMA SStartOther ==
    ASSUME OneAtATime, Inv, SInv, NEW w \in Workers,
           StartExpire(w) \/ StartLock(w) \/ \E k \in Tickers : StartMethod(w, k)
    PROVE  SInv'
  <1> UNCHANGED seen
    BY DEF StartExpire, StartLock, StartMethod, seen, facts, setup
  <1>1. CASE StartExpire(w)
    <2> DEFINE l == [Idle EXCEPT !.job = "expire", !.pc = "latest"]
    <2>1. l.pc = "latest" /\ l.job = "expire"
      BY DEF Idle
    <2>2. Agree => SerialOK(l)
      <3> HIDE DEF l
      <3> QED
        BY <1>1, <2>1 DEF SerialOK, StartExpire
    <2> QED
      BY <1>1, <2>2, SBegin DEF StartExpire
  <1>2. CASE StartLock(w)
    <2> DEFINE l == [Idle EXCEPT !.job = "lock", !.pc = "method"]
    <2>1. l.pc = "method" /\ l.job = "lock"
      BY DEF Idle
    <2>2. Agree => SerialOK(l)
      <3> HIDE DEF l
      <3> QED
        BY <1>2, <2>1 DEF SerialOK, StartLock
    <2> QED
      BY <1>2, <2>2, SBegin DEF StartLock
  <1>3. ASSUME NEW k \in Tickers, StartMethod(w, k) PROVE SInv'
    <2> DEFINE l == [Idle EXCEPT !.job = "method", !.pc = "lockWait", !.ticker = k]
    <2>1. l.pc = "lockWait" /\ l.job = "method"
      BY DEF Idle
    <2>2. Agree => SerialOK(l)
      <3> HIDE DEF l
      <3> QED
        BY <1>3, <2>1 DEF SerialOK, StartMethod
    <2> QED
      BY <1>3, <2>2, SBegin DEF StartMethod
  <1> QED
    BY <1>1, <1>2, <1>3

LEMMA SCandidate ==
    ASSUME OneAtATime, Inv, SInv, NEW w \in Workers, Candidate(w)
    PROVE  SInv'
  <1> UNCHANGED seen
    BY DEF Candidate, seen, facts, setup
  <1>1. /\ SerialOK(work[w]) /\ DOMAIN work[w] = DOMAIN Idle /\ work[w].pc = "candidate"
        /\ LocalOK(work[w])
    BY Known DEF Candidate, At
  <1>2. /\ Agree /\ Waiting(work[w]) /\ work[w].job = "discover"
        /\ work[w].tx \in TxIds
    BY <1>1 DEF SerialOK, LocalOK, WithTx
  <1>3. ASSUME NEW h \in Hashes, MayUse(work[w].tx, h),
               work' = [work EXCEPT ![w].pc = "receipt", ![w].hash = h]
        PROVE  SInv'
    <2>1. RowsWithHash(h) = {}
      <3>1. txs[work[w].tx].hash = None
        BY <1>2 DEF SInv, TablesSerial, RowSerial, Waiting
      <3> QED
        BY <1>3, <3>1 DEF MayUse, RowsWithHash
    <2> DEFINE l == [work[w] EXCEPT !.pc = "receipt", !.hash = h]
    <2>2. l.pc = "receipt" /\ l.hash = h /\ l.job = "discover" /\ l.tx = work[w].tx
      BY <1>1, <1>2 DEF Idle
    <2>3. work' = [work EXCEPT ![w] = l]
      BY <1>3
    <2>4. SerialOK(l)
      <3> HIDE DEF l
      <3> QED
        BY <1>2, <2>1, <2>2 DEF SerialOK, Waiting
    <2> QED
      BY <1>1, <2>3, <2>4, SMove
  <1>4. CASE End(w)
    BY <1>1, <1>2, <1>4, SEnd
  <1>5. \A l \in Listings(work[w].tx) : l \subseteq Hashes
    BY DEF Listings, Listed
  <1> QED
    BY <1>3, <1>4, <1>5 DEF Candidate

LEMMA SReload ==
    ASSUME OneAtATime, Inv, SInv, NEW w \in Workers, Reload(w)
    PROVE  SInv'
  <1> UNCHANGED seen
    BY DEF Reload, seen, facts, setup
  <1>1. SerialOK(work[w]) /\ DOMAIN work[w] = DOMAIN Idle /\ work[w].pc = "reload"
    BY Known DEF Reload, At
  <1>2. /\ Agree /\ work[w].job = "discover" /\ txs[work[w].tx].status \in InProgress
        /\ txs[work[w].tx].hash = work[w].hash
    BY <1>1 DEF SerialOK
  <1> DEFINE p == IF chain[work[w].hash].state = "success" THEN "confirmRead" ELSE "cancelTx"
             l == [work[w] EXCEPT !.seen = txs[work[w].tx].status,
                                  !.hash = txs[work[w].tx].hash, !.pc = p]
  <1>3. work' = [work EXCEPT ![w] = l]
    BY DEF Reload
  <1>4. /\ l.pc = p /\ l.job = "discover" /\ l.tx = work[w].tx
        /\ l.hash = work[w].hash /\ l.seen = txs[work[w].tx].status
    BY <1>1, <1>2 DEF Idle
  <1>5. SerialOK(l)
    <2> HIDE DEF l
    <2> QED
      BY <1>2, <1>4 DEF SerialOK, Acting
  <1> QED
    BY <1>1, <1>3, <1>5, SMove

LEMMA SReceipt ==
    ASSUME OneAtATime, Inv, SInv, NEW w \in Workers, Receipt(w)
    PROVE  SInv'
  <1> UNCHANGED seen
    BY DEF Receipt, seen, facts, setup
  <1>1. SerialOK(work[w]) /\ DOMAIN work[w] = DOMAIN Idle /\ work[w].pc = "receipt"
    BY Known DEF Receipt, At
  <1>2. Agree
    BY <1>1 DEF SerialOK
  <1>3. ASSUME NEW p, Goto(w, p),
               \/ p = "receive" /\ work[w].job = "discover"
               \/ p = "confirmRead" /\ work[w].job # "discover"
                  /\ chain[work[w].hash].state = "success"
               \/ p = "cancelTx" /\ work[w].job # "discover"
        PROVE  SInv'
    <2> DEFINE l == [work[w] EXCEPT !.pc = p]
    <2>1. /\ l.pc = p /\ l.job = work[w].job /\ l.tx = work[w].tx
          /\ l.hash = work[w].hash /\ l.seen = work[w].seen
      BY <1>1 DEF Idle
    <2>2. SerialOK(l)
      <3> HIDE DEF l
      <3> QED
        BY <1>1, <1>2, <1>3, <2>1 DEF SerialOK, Acting, Waiting
    <2> QED
      BY <1>1, <1>3, <2>2, SGoto
  <1>4. CASE End(w)
    BY <1>1, <1>2, <1>4, SEnd
  <1> QED
    BY <1>3, <1>4 DEF Receipt

LEMMA SConfirmRead ==
    ASSUME OneAtATime, Inv, SInv, NEW w \in Workers, ConfirmRead(w)
    PROVE  SInv'
  <1> UNCHANGED seen
    BY DEF ConfirmRead, seen, facts, setup
  <1>1. SerialOK(work[w]) /\ DOMAIN work[w] = DOMAIN Idle /\ work[w].pc = "confirmRead"
    BY Known DEF ConfirmRead, At
  <1>2. Agree
    BY <1>1 DEF SerialOK
  <1>3. CASE Goto(w, "confirmWrite")
    <2> DEFINE l == [work[w] EXCEPT !.pc = "confirmWrite"]
    <2>1. /\ l.pc = "confirmWrite" /\ l.job = work[w].job /\ l.tx = work[w].tx
          /\ l.hash = work[w].hash /\ l.seen = work[w].seen
      BY <1>1 DEF Idle
    <2>2. SerialOK(l)
      <3> HIDE DEF l
      <3> QED
        BY <1>1, <1>2, <2>1 DEF SerialOK, Acting
    <2> QED
      BY <1>1, <1>3, <2>2, SGoto
  <1>4. CASE End(w)
    BY <1>1, <1>2, <1>4, SEnd
  <1> QED
    BY <1>3, <1>4 DEF ConfirmRead

LEMMA SLatest ==
    ASSUME OneAtATime, Inv, SInv, NEW w \in Workers, Latest(w)
    PROVE  SInv'
  <1> UNCHANGED seen
    BY DEF Latest, seen, facts, setup
  <1>1. SerialOK(work[w]) /\ DOMAIN work[w] = DOMAIN Idle /\ work[w].pc = "latest"
    BY Known DEF Latest, At
  <1>2. Agree /\ pay \in {"pending", "locked"} /\ work[w].job = "expire"
    BY <1>1 DEF SerialOK
  <1>3. ASSUME Lost, Goto(w, "failPayment") PROVE SInv'
    <2> DEFINE l == [work[w] EXCEPT !.pc = "failPayment"]
    <2>1. l.pc = "failPayment" /\ l.job = "expire"
      BY <1>1, <1>2 DEF Idle
    <2>2. SerialOK(l)
      <3> HIDE DEF l
      <3> QED
        BY <1>3, <2>1 DEF SerialOK
    <2> QED
      BY <1>1, <1>3, <2>2, SGoto
  <1>4. CASE PaymentTxs = {} /\ Goto(w, "failPayment")
    BY <1>2, <1>3, <1>4 DEF Lost, AllIn
  <1>5. ASSUME NEW t \in TxIds, IsLatest(t), txs[t].status = "canceled", Goto(w, "failPayment")
        PROVE  SInv'
    <2>1. \A u \in PaymentTxs : txs[u].status = "canceled"
      BY <1>5 DEF SInv, TablesSerial, OpenIsLatest, IsLatest, PaymentTxs, TxIds
    <2> QED
      BY <1>2, <1>3, <1>5, <2>1 DEF Lost, AllIn
  <1>6. ASSUME NEW t \in TxIds, IsLatest(t), txs[t].status \in Finalized \ {"canceled"}
        PROVE  FALSE
    BY <1>2, <1>6 DEF Agree, AllIn, IsLatest, Finalized
  <1>7. CASE End(w)
    BY <1>1, <1>2, <1>7, SEnd
  <1>8. ASSUME NEW t \in TxIds, txs[t].status = "pending",
               work' = [work EXCEPT ![w].pc = "observe", ![w].tx = t]
        PROVE  SInv'
    <2> DEFINE l == [work[w] EXCEPT !.pc = "observe", !.tx = t]
    <2>1. l.pc = "observe" /\ l.job = "expire" /\ l.tx = t
      BY <1>1, <1>2 DEF Idle
    <2>2. work' = [work EXCEPT ![w] = l]
      BY <1>8
    <2>3. SerialOK(l)
      <3> HIDE DEF l
      <3> QED
        BY <1>2, <1>8, <2>1 DEF SerialOK, Waiting
    <2> QED
      BY <1>1, <2>2, <2>3, SMove
  <1> QED
    BY <1>4, <1>5, <1>6, <1>7, <1>8 DEF Latest

LEMMA SObserve ==
    ASSUME OneAtATime, Inv, SInv, NEW w \in Workers, Observe(w)
    PROVE  SInv'
  <1> UNCHANGED seen
    BY DEF Observe, seen, facts, setup
  <1>1. SerialOK(work[w]) /\ DOMAIN work[w] = DOMAIN Idle /\ work[w].pc = "observe"
    BY Known DEF Observe, At
  <1>2. Agree
    BY <1>1 DEF SerialOK
  <1>3. CASE Goto(w, "cancelTx")
    <2> DEFINE l == [work[w] EXCEPT !.pc = "cancelTx"]
    <2>1. l.pc = "cancelTx" /\ l.job = work[w].job /\ l.tx = work[w].tx
      BY <1>1 DEF Idle
    <2>2. SerialOK(l)
      <3> HIDE DEF l
      <3> QED
        BY <1>1, <1>2, <2>1 DEF SerialOK, Waiting
    <2> QED
      BY <1>1, <1>3, <2>2, SGoto
  <1>4. CASE End(w)
    BY <1>1, <1>2, <1>4, SEnd
  <1> QED
    BY <1>3, <1>4 DEF Observe

LEMMA SAcquireLock ==
    ASSUME OneAtATime, Inv, SInv, NEW w \in Workers, AcquireLock(w)
    PROVE  SInv'
  <1> UNCHANGED seen
    BY DEF AcquireLock, seen, facts, setup
  <1>1. SerialOK(work[w]) /\ DOMAIN work[w] = DOMAIN Idle /\ work[w].pc = "lockWait"
    BY Known DEF AcquireLock, At
  <1> DEFINE l == [work[w] EXCEPT !.pc = "current"]
  <1>2. l.pc = "current" /\ l.job = work[w].job
    BY <1>1 DEF Idle
  <1>3. SerialOK(l)
    <2> HIDE DEF l
    <2> QED
      BY <1>1, <1>2 DEF SerialOK
  <1> QED
    BY <1>1, <1>3, SGoto DEF AcquireLock

LEMMA SCurrent ==
    ASSUME OneAtATime, Inv, SInv, NEW w \in Workers, Current(w)
    PROVE  SInv'
  <1> UNCHANGED seen
    BY DEF Current, seen, facts, setup
  <1>1. /\ SerialOK(work[w]) /\ DOMAIN work[w] = DOMAIN Idle /\ work[w].pc = "current"
        /\ work[w].job = "method"
    BY Known DEF Current, At, LocalOK
  <1>2. Agree /\ pay = "pending"
    BY <1>1 DEF SerialOK
  <1>3. ASSUME AllIn({"canceled"}), Goto(w, "freshWallet") PROVE SInv'
    <2> DEFINE l == [work[w] EXCEPT !.pc = "freshWallet"]
    <2>1. l.pc = "freshWallet" /\ l.job = "method"
      BY <1>1 DEF Idle
    <2>2. SerialOK(l)
      <3> HIDE DEF l
      <3> QED
        BY <1>2, <1>3, <2>1 DEF SerialOK
    <2> QED
      BY <1>1, <1>3, <2>2, SGoto
  <1>4. CASE PaymentTxs = {} /\ Goto(w, "freshWallet")
    BY <1>3, <1>4 DEF AllIn
  <1>5. ASSUME NEW t \in TxIds, IsLatest(t), txs[t].status = "canceled", Goto(w, "freshWallet")
        PROVE  SInv'
    <2>1. AllIn({"canceled"})
      BY <1>5 DEF SInv, TablesSerial, OpenIsLatest, IsLatest, PaymentTxs, TxIds, AllIn
    <2> QED
      BY <1>3, <1>5, <2>1
  <1>6. CASE End(w)
    BY <1>1, <1>2, <1>6, SEnd
  <1>7. ASSUME NEW t \in TxIds, IsLatest(t), txs[t].status # "canceled",
               work' = [work EXCEPT ![w].pc = "cancelTx", ![w].tx = t]
        PROVE  SInv'
    <2> DEFINE l == [work[w] EXCEPT !.pc = "cancelTx", !.tx = t]
    <2>1. l.pc = "cancelTx" /\ l.job = "method" /\ l.tx = t
      BY <1>1 DEF Idle
    <2>2. work' = [work EXCEPT ![w] = l]
      BY <1>7
    <2>3. txs[t].status = "pending"
      BY <1>2, <1>7 DEF Agree, AllIn, IsLatest
    <2>4. SerialOK(l)
      <3> HIDE DEF l
      <3> QED
        BY <1>2, <2>1, <2>3 DEF SerialOK, Waiting
    <2> QED
      BY <1>1, <2>2, <2>4, SMove
  <1> QED
    BY <1>4, <1>5, <1>6, <1>7 DEF Current

LEMMA SMethod ==
    ASSUME OneAtATime, Inv, SInv, NEW w \in Workers, Method(w)
    PROVE  SInv'
  <1> UNCHANGED seen
    BY DEF Method, seen, facts, setup
  <1>1. SerialOK(work[w]) /\ DOMAIN work[w] = DOMAIN Idle /\ work[w].pc = "method"
    BY Known DEF Method, At
  <1>2. Agree /\ pay = "pending"
    BY <1>1 DEF SerialOK
  <1>3. CASE Goto(w, "lockWrite")
    <2> DEFINE l == [work[w] EXCEPT !.pc = "lockWrite"]
    <2>1. l.pc = "lockWrite" /\ l.job = work[w].job
      BY <1>1 DEF Idle
    <2>2. SerialOK(l)
      <3> HIDE DEF l
      <3> QED
        BY <1>1, <1>2, <2>1 DEF SerialOK
    <2> QED
      BY <1>1, <1>3, <2>2, SGoto
  <1>4. CASE End(w)
    BY <1>1, <1>2, <1>4, SEnd
  <1> QED
    BY <1>3, <1>4 DEF Method

-----------------------------------------------------------------------------
(* Steps that tell the payment what became of its transaction *)

\* The rows and the locks stay; the payment leaves "pending" if it changes at all.
LEMMA SPay ==
    ASSUME OneAtATime, Inv, SInv, NEW w \in Workers, NEW l,
           work' = [work EXCEPT ![w] = l], UNCHANGED <<txs, lastTx, chain, shown, locks>>,
           pay' # "pending", SerialOK(l)',
           work[w].pc \notin {"createTx", "releaseLock"}
    PROVE  SInv'
  <1>1. TablesSerial'
    BY DEF SInv, TablesSerial, RowSerial, HashesApart, OpenIsLatest, UnpaidWhilePending,
           WaitingIsUnrecorded, IncomingStatus, PaymentTxs, IsActivation, Paid
  <1>2. ASSUME Roomy, NEW x \in locks'
        PROVE  LockOK(x, l)'
    <2>1. LockOK(x, work[w])
      BY <1>2 DEF SInv, LocksSerial
    <2>2. \E t \in PaymentTxs : txs[t].status = "pending" /\ x = <<txs[t].wallet, txs[t].ticker>>
      BY <2>1 DEF LockOK
    <2> QED
      BY <2>2 DEF LockOK, PaymentTxs
  <1> QED
    BY <1>1, <1>2, SWorker

LEMMA SIdle ==
    ASSUME Agree' PROVE SerialOK(Idle)'
  BY DEF SerialOK, Idle

\* The other transactions of the payment are canceled.
LEMMA OthersCanceled ==
    ASSUME Inv, SInv, NEW t \in PaymentTxs, txs[t].status # "canceled"
    PROVE  \A u \in PaymentTxs : u # t => txs[u].status = "canceled"
  BY DEF SInv, TablesSerial, OpenIsLatest, PaymentTxs, TxIds

LEMMA SMarkInProgress ==
    ASSUME OneAtATime, Inv, SInv, NEW w \in Workers, MarkInProgress(w)
    PROVE  SInv'
  <1>1. SerialOK(work[w]) /\ DOMAIN work[w] = DOMAIN Idle /\ work[w].pc = "markInProgress"
    BY Known DEF MarkInProgress, At
  <1>2. /\ work[w].tx \in PaymentTxs /\ txs[work[w].tx].status = "inProgress"
        /\ txs[work[w].tx].hash = work[w].hash /\ work[w].job # "method"
    BY <1>1 DEF SerialOK
  <1>3. UNCHANGED <<txs, lastTx, chain, shown, locks>> /\ pay' = "inProgress"
    BY DEF MarkInProgress, setup
  <1>4. Agree'
    BY <1>2, <1>3, OthersCanceled DEF Agree, AllIn, Has, PaymentTxs
  <1>5. CASE End(w)
    BY <1>1, <1>3, <1>4, <1>5, SIdle, SPay DEF End
  <1>6. CASE work[w].job = "discover" /\ Goto(w, "reload")
    <2> DEFINE ll == [work[w] EXCEPT !.pc = "reload"]
    <2>1. PICK l : l = ll
      OBVIOUS
    <2>2. work' = [work EXCEPT ![w] = l]
      BY <1>6, <2>1 DEF Goto
    <2>3. l.pc = "reload" /\ l.job = "discover" /\ l.tx = work[w].tx /\ l.hash = work[w].hash
      BY <1>1, <1>6, <2>1 DEF Idle
    <2>4. txs[l.tx].status = "inProgress" /\ txs[l.tx].hash = l.hash
      BY <1>2, <2>3
    <2>5. SerialOK(l)'
      BY <1>3, <1>4, <2>3, <2>4 DEF SerialOK
    <2> QED
      BY <1>1, <1>3, <2>2, <2>5, SPay
  <1> QED
    BY <1>5, <1>6 DEF MarkInProgress

LEMMA SMarkConfirmed ==
    ASSUME OneAtATime, Inv, SInv, NEW w \in Workers, MarkConfirmed(w)
    PROVE  SInv'
  <1>1. SerialOK(work[w]) /\ work[w].pc = "markConfirmed"
    BY Known DEF MarkConfirmed, At
  <1>2. /\ work[w].tx \in PaymentTxs /\ work[w].seen \in InProgress
        /\ txs[work[w].tx].status = ConfirmedStatus(work[w].seen)
    BY <1>1 DEF SerialOK
  <1>3. /\ UNCHANGED <<txs, lastTx, chain, shown, locks>>
        /\ pay' = IF ConfirmedStatus(work[w].seen) = "completed" THEN "success" ELSE "failed"
    BY DEF MarkConfirmed, setup
  <1>4. Agree'
    BY <1>2, <1>3, OthersCanceled DEF Agree, AllIn, Has, PaymentTxs, ConfirmedStatus
  <1> QED
    BY <1>1, <1>3, <1>4, SIdle, SPay DEF End, MarkConfirmed

LEMMA SFailPayment ==
    ASSUME OneAtATime, Inv, SInv, NEW w \in Workers, FailPayment(w)
    PROVE  SInv'
  <1>1. SerialOK(work[w]) /\ work[w].pc = "failPayment"
    BY Known DEF FailPayment, At
  <1>2. Lost
    BY <1>1 DEF SerialOK
  <1>3. UNCHANGED <<txs, lastTx, chain, shown, locks>> /\ pay' = "failed"
    BY DEF FailPayment, setup
  <1>4. Agree'
    BY <1>2, <1>3 DEF Agree, Lost, AllIn, PaymentTxs
  <1> QED
    BY <1>1, <1>3, <1>4, SIdle, SPay DEF End, FailPayment

LEMMA SLockWrite ==
    ASSUME OneAtATime, Inv, SInv, NEW w \in Workers, LockWrite(w)
    PROVE  SInv'
  <1>1. SerialOK(work[w]) /\ work[w].pc = "lockWrite"
    BY Known DEF LockWrite, At
  <1>2. Agree /\ pay = "pending"
    BY <1>1 DEF SerialOK
  <1>3. UNCHANGED <<txs, lastTx, chain, shown, locks>> /\ pay' = "locked"
    BY DEF LockWrite, setup
  <1>4. Agree'
    BY <1>2, <1>3 DEF Agree, AllIn, PaymentTxs
  <1> QED
    BY <1>1, <1>3, <1>4, SIdle, SPay DEF End, LockWrite

-----------------------------------------------------------------------------
(* Steps on the locks *)

LEMMA SReleaseLock ==
    ASSUME OneAtATime, Inv, SInv, NEW w \in Workers, ReleaseLock(w)
    PROVE  SInv'
  <1> UNCHANGED facts
    BY DEF ReleaseLock, facts, setup
  <1>1. SerialOK(work[w]) /\ DOMAIN work[w] = DOMAIN Idle /\ work[w].pc = "releaseLock"
    BY Known DEF ReleaseLock, At
  <1>2. IF txs[work[w].tx].owner = "merchant" THEN Lost ELSE Agree /\ work[w].job # "method"
    BY <1>1 DEF SerialOK
  <1>3. ASSUME NEW l, Roomy, NEW x \in locks' PROVE LockOK(x, l)'
    <2>1. LockOK(x, work[w]) /\ x # <<txs[work[w].tx].wallet, txs[work[w].tx].ticker>>
      BY <1>3 DEF SInv, LocksSerial, ReleaseLock
    <2>2. \E t \in PaymentTxs : txs[t].status = "pending" /\ x = <<txs[t].wallet, txs[t].ticker>>
      BY <1>1, <2>1 DEF LockOK
    <2> QED
      BY <2>2 DEF LockOK, PaymentTxs, facts
  <1>4. TablesSerial'
    BY SKept DEF SInv
  <1>5. ASSUME NEW l, SerialOK(l), work' = [work EXCEPT ![w] = l] PROVE SInv'
    BY <1>3, <1>4, <1>5, SKept, SWorker
  <1>6. CASE work[w].job = "method" /\ Goto(w, "freshWallet")
    <2> DEFINE l == [work[w] EXCEPT !.pc = "freshWallet"]
    <2>1. l.pc = "freshWallet" /\ l.job = "method"
      BY <1>1, <1>6 DEF Idle
    <2>2. pay = "pending" /\ AllIn({"canceled"})
      BY <1>1, <1>6 DEF SerialOK
    <2>3. Agree
      BY <2>2 DEF Agree, AllIn
    <2>4. SerialOK(l)
      <3> HIDE DEF l
      <3> QED
        BY <2>1, <2>2, <2>3 DEF SerialOK
    <2>5. work' = [work EXCEPT ![w] = l]
      BY <1>6 DEF Goto
    <2> QED
      BY <1>5, <2>4, <2>5
  <1>7. CASE /\ work[w].job # "method" /\ txs[work[w].tx].owner = "merchant"
             /\ Goto(w, "failPayment")
    <2> DEFINE l == [work[w] EXCEPT !.pc = "failPayment"]
    <2>1. l.pc = "failPayment" /\ l.job = work[w].job
      BY <1>1 DEF Idle
    <2>2. SerialOK(l)
      <3> HIDE DEF l
      <3> QED
        BY <1>2, <1>7, <2>1 DEF SerialOK
    <2>3. work' = [work EXCEPT ![w] = l]
      BY <1>7 DEF Goto
    <2> QED
      BY <1>5, <2>2, <2>3
  <1>8. CASE txs[work[w].tx].owner # "merchant" /\ End(w)
    BY <1>2, <1>5, <1>8, SerialIdle DEF End
  <1> QED
    BY <1>6, <1>7, <1>8 DEF ReleaseLock

LEMMA SFreshWallet ==
    ASSUME OneAtATime, Inv, SInv, NEW w \in Workers, FreshWallet(w)
    PROVE  SInv'
  <1> UNCHANGED facts
    BY DEF FreshWallet, facts
  <1>1. /\ SerialOK(work[w]) /\ DOMAIN work[w] = DOMAIN Idle /\ work[w].pc = "freshWallet"
        /\ work[w].job = "method"
    BY Known DEF FreshWallet, At, LocalOK
  <1>2. PICK l : l = [work[w] EXCEPT !.pc = "createTx", !.wallet = lastWallet + 1]
    OBVIOUS
  <1>3. /\ l.pc = "createTx" /\ l.job = "method" /\ l.wallet = lastWallet + 1
        /\ l.ticker = work[w].ticker
    BY <1>1, <1>2 DEF Idle
  <1>4. work' = [work EXCEPT ![w] = l]
    BY <1>2 DEF FreshWallet
  <1>5. SerialOK(l)
    BY <1>1, <1>3 DEF SerialOK
  <1>6. ASSUME Roomy, NEW x \in locks' PROVE LockOK(x, l)'
    <2>1. CASE x \in locks
      <3>1. LockOK(x, work[w])
        BY <1>6, <2>1 DEF SInv, LocksSerial
      <3>2. \E t \in PaymentTxs :
               txs[t].status = "pending" /\ x = <<txs[t].wallet, txs[t].ticker>>
        BY <1>1, <3>1 DEF LockOK
      <3> QED
        BY <3>2 DEF LockOK, PaymentTxs, facts
    <2>2. CASE x = <<l.wallet, l.ticker>>
      BY <1>3, <2>2 DEF LockOK
    <2> QED
      BY <1>3, <1>6, <2>1, <2>2 DEF FreshWallet
  <1> QED
    BY <1>4, <1>5, <1>6, SKept, SWorker DEF SInv

-----------------------------------------------------------------------------
(* Steps on a row *)

\* An open row moves on: it may get the hash of an unrecorded deposit, if it waited.
LEMMA SRow ==
    ASSUME Inv, SInv, NEW t \in TxIds, NEW r, txs' = [txs EXCEPT ![t] = r],
           txs[t].status \notin {"none", "canceled"}, r.status \notin {"none", "pending"},
           r.owner = txs[t].owner, r.wallet = txs[t].wallet, r.ticker = txs[t].ticker,
           \/ r.hash = txs[t].hash
           \/ txs[t].status = "pending" /\ RowsWithHash(r.hash) = {},
           RowSerial(t)', UNCHANGED <<pay, chain, shown, lastTx>>
    PROVE  TablesSerial'
  <1>1. txs' \in [TxIds -> {r} \cup {txs[u] : u \in TxIds}] /\ txs'[t] = r
        /\ \A u \in TxIds : u # t => txs'[u] = txs[u]
    BY DEF Inv, TypeOK
  <1>2. \A u \in TxIds : RowSerial(u)'
    BY <1>1 DEF SInv, TablesSerial, RowSerial, IncomingStatus
  <1>3. PaymentTxs' = PaymentTxs
    BY <1>1 DEF PaymentTxs
  <1>4. HashesApart'
    BY <1>1 DEF SInv, TablesSerial, HashesApart, RowsWithHash
  <1>5. OpenIsLatest'
    BY <1>1, <1>3 DEF SInv, TablesSerial, OpenIsLatest, PaymentTxs
  <1>6. UnpaidWhilePending'
    BY DEF SInv, TablesSerial, UnpaidWhilePending
  <1>7. ASSUME NEW a \in TxIds, NEW u \in TxIds, NEW h \in Hashes,
               txs'[a].status = "pending", Paid(h, a)', txs'[u].status # "none",
               txs'[u].hash = h
        PROVE  IsActivation(h)'
    <2>1. a # t /\ txs[a].status = "pending" /\ Paid(h, a)
      BY <1>1, <1>7 DEF Paid
    <2>2. CASE u = t /\ txs[t].status = "pending" /\ RowsWithHash(r.hash) = {}
      <3>1. txs[a].owner = "merchant" /\ txs[t].owner = "merchant"
        BY <2>1, <2>2 DEF SInv, TablesSerial, RowSerial, Inv, TypeOK, Row
      <3> QED
        BY <2>1, <2>2, <3>1 DEF SInv, TablesSerial, OpenIsLatest, PaymentTxs, TxIds
    <2>3. CASE txs[u].hash = h
      BY <1>1, <1>7, <2>1, <2>3 DEF SInv, TablesSerial, WaitingIsUnrecorded, IsActivation
    <2> QED
      BY <1>1, <1>7, <2>2, <2>3
  <1> QED
    BY <1>2, <1>4, <1>5, <1>6, <1>7 DEF TablesSerial, WaitingIsUnrecorded

\* What an open row says of the payment.
LEMMA OpenMeans ==
    ASSUME Inv, SInv, Agree, NEW t \in PaymentTxs
    PROVE  /\ txs[t].status = "pending" => pay \in {"pending", "locked"}
           /\ txs[t].status = "inProgressInv" => pay = "locked"
           /\ txs[t].status = "inProgress" => pay = "inProgress"
  <1>1. pay \in PayStatus
    BY DEF Inv, TypeOK
  <1> QED
    BY <1>1 DEF Agree, AllIn, PayStatus

LEMMA SCancelTx ==
    ASSUME OneAtATime, Inv, SInv, NEW w \in Workers, CancelTx(w)
    PROVE  SInv'
  <1>1. /\ SerialOK(work[w]) /\ LocalOK(work[w]) /\ DOMAIN work[w] = DOMAIN Idle
        /\ work[w].pc = "cancelTx" /\ work[w] \in Local
    BY Known DEF CancelTx, At
  <1>2. PICK l : l = [work[w] EXCEPT !.pc = "releaseLock"]
    OBVIOUS
  <1>3. PICK t : t = work[w].tx
    OBVIOUS
  <1>4. l.pc = "releaseLock" /\ l.job = work[w].job /\ l.tx = t
    BY <1>1, <1>2, <1>3 DEF Idle
  <1>5. work' = [work EXCEPT ![w] = l]
    BY <1>2 DEF CancelTx, Goto
  <1>6. /\ Agree /\ t \in TxIds
        /\ l.job \in {"discover", "check"} => txs[t].status \in InProgress
        /\ l.job \notin {"discover", "check"} =>
              txs[t].status = "pending" /\ l.job \in {"method", "expire"}
        /\ l.job = "method" => pay = "pending"
    BY <1>1, <1>3, <1>4 DEF SerialOK, LocalOK, WithTx, Waiting
  <1>7. txs[t] \in Row
    BY <1>6 DEF Inv, TypeOK
  <1>8. PICK r : r = [txs[t] EXCEPT !.status = CancelStatus(l.job)]
    OBVIOUS
  <1>9. /\ r.status = CancelStatus(l.job) /\ r.owner = txs[t].owner /\ r.wallet = txs[t].wallet
        /\ r.ticker = txs[t].ticker /\ r.hash = txs[t].hash
    BY <1>7, <1>8 DEF Row
  <1>10. /\ txs' = [txs EXCEPT ![t] = r]
         /\ UNCHANGED <<pay, chain, shown, lastTx, locks>>
    BY <1>3, <1>4, <1>8 DEF CancelTx, setup
  <1>11. /\ txs'[t] = r /\ \A u \in TxIds : u # t => txs'[u] = txs[u]
    BY <1>6, <1>10 DEF Inv, TypeOK
  <1>12. RowSerial(t)
    BY <1>6 DEF SInv, TablesSerial
  <1>13. RowSerial(t)'
    BY <1>6, <1>9, <1>10, <1>11, <1>12 DEF RowSerial, CancelStatus
  <1>14. TablesSerial'
    BY <1>6, <1>9, <1>10, <1>13, SRow DEF CancelStatus
  <1>15. PaymentTxs' = PaymentTxs /\ (t \in PaymentTxs <=> txs[t].owner = "merchant")
    BY <1>6, <1>9, <1>11 DEF PaymentTxs, CancelStatus
  <1>16. SerialOK(l)'
    <2>1. CASE txs[t].owner = "merchant"
      <3>1. \A u \in PaymentTxs : u # t => txs'[u].status = "canceled"
        BY <1>6, <1>11, <1>15, <2>1, OthersCanceled DEF PaymentTxs
      <3>2. txs'[t].status = CancelStatus(l.job)
        BY <1>9, <1>11
      <3>3. Lost'
        BY <1>6, <1>10, <1>15, <2>1, <3>1, <3>2, OpenMeans DEF Lost, AllIn, CancelStatus
      <3>4. l.job = "method" => AllIn({"canceled"})'
        BY <1>15, <3>1, <3>2 DEF AllIn, CancelStatus
      <3> QED
        BY <1>4, <1>6, <1>9, <1>10, <1>11, <2>1, <3>3, <3>4 DEF SerialOK
    <2>2. CASE txs[t].owner # "merchant"
      <3>1. l.job \in {"discover", "check"}
        BY <1>6, <1>7, <1>12, <2>2 DEF RowSerial, Row
      <3>2. \A u \in PaymentTxs : txs'[u] = txs[u]
        BY <1>11, <1>15, <2>2 DEF PaymentTxs
      <3>3. Agree'
        BY <1>6, <1>10, <1>15, <3>2 DEF Agree, AllIn, Has
      <3> QED
        BY <1>4, <1>9, <1>11, <2>2, <3>1, <3>3 DEF SerialOK
    <2> QED
      BY <2>1, <2>2
  <1>17. ASSUME Roomy, NEW x \in locks' PROVE LockOK(x, l)'
    <2>1. LockOK(x, work[w])
      BY <1>10, <1>17 DEF SInv, LocksSerial
    <2>2. PICK u \in PaymentTxs :
             txs[u].status = "pending" /\ x = <<txs[u].wallet, txs[u].ticker>>
      BY <1>1, <2>1 DEF LockOK
    <2>3. CASE u = t
      BY <1>4, <1>9, <1>11, <2>2, <2>3 DEF LockOK
    <2>4. CASE u # t
      BY <1>11, <1>15, <2>2, <2>4 DEF LockOK, PaymentTxs
    <2> QED
      BY <2>3, <2>4
  <1> QED
    BY <1>5, <1>14, <1>16, <1>17, SWorker

LEMMA SReceive ==
    ASSUME OneAtATime, Inv, SInv, NEW w \in Workers, Receive(w)
    PROVE  SInv'
  <1>1. /\ SerialOK(work[w]) /\ LocalOK(work[w]) /\ DOMAIN work[w] = DOMAIN Idle
        /\ work[w].pc = "receive" /\ work[w] \in Local
    BY Known DEF Receive, At
  <1>2. PICK t : t = work[w].tx
    OBVIOUS
  <1>3. PICK h : h = work[w].hash
    OBVIOUS
  <1>4. /\ Agree /\ t \in TxIds /\ txs[t].status = "pending" /\ RowsWithHash(h) = {}
        /\ Paid(h, t)
    BY <1>1, <1>2, <1>3 DEF SerialOK, LocalOK, WithTx, WithPaid, Waiting
  <1>5. CASE chain[h].amount = 0
    <2>1. UNCHANGED seen /\ End(w)
      BY <1>3, <1>5 DEF Receive, seen, facts, setup
    <2> QED
      BY <1>1, <1>4, <2>1, SEnd
  <1>6. CASE chain[h].amount # 0
    <2>1. txs[t] \in Row
      BY <1>4 DEF Inv, TypeOK
    <2>2. RowSerial(t)
      BY <1>4 DEF SInv, TablesSerial
    <2>3. t \in PaymentTxs /\ txs[t].fee = ServiceFee /\ txs[t].owner = "merchant"
      BY <1>4, <2>1, <2>2 DEF RowSerial, PaymentTxs, Row
    <2>4. pay = "locked"
      <3>1. pay # "pending"
        BY <1>4 DEF SInv, TablesSerial, UnpaidWhilePending, Paid
      <3> QED
        BY <1>4, <2>3, <3>1, OpenMeans
    <2>5. PICK r : r = [txs[t] EXCEPT !.status = IncomingStatus(h), !.hash = h]
      OBVIOUS
    <2>6. /\ r.status = IncomingStatus(h) /\ r.hash = h /\ r.owner = "merchant"
          /\ r.wallet = txs[t].wallet /\ r.ticker = txs[t].ticker /\ r.fee = ServiceFee
      BY <2>1, <2>3, <2>5 DEF Row
    <2>7. /\ txs' = [txs EXCEPT ![t] = r]
          /\ locks' = locks \ {<<txs[t].wallet, txs[t].ticker>>}
          /\ UNCHANGED <<pay, chain, shown, lastTx>>
      BY <1>2, <1>3, <1>6, <2>5 DEF Receive, setup
    <2>8. txs'[t] = r /\ \A u \in TxIds : u # t => txs'[u] = txs[u]
      BY <1>4, <2>7 DEF Inv, TypeOK
    <2>9. IncomingStatus(h) \in InProgress /\ IncomingStatus(h)' = IncomingStatus(h)
      BY <2>7 DEF IncomingStatus
    <2>10. RowSerial(t)'
      BY <2>6, <2>8, <2>9 DEF RowSerial
    <2>11. TablesSerial'
      BY <1>4, <2>3, <2>6, <2>7, <2>9, <2>10, SRow
    <2>12. PaymentTxs' = PaymentTxs
      BY <2>3, <2>6, <2>8, <2>9 DEF PaymentTxs
    <2>13. \A u \in PaymentTxs : u # t => txs'[u].status = "canceled" /\ txs[u].status = "canceled"
      BY <1>4, <2>3, <2>8, OthersCanceled DEF PaymentTxs
    <2>14. ASSUME NEW l, Roomy, NEW x \in locks' PROVE LockOK(x, l)'
      <3>1. LockOK(x, work[w]) /\ x # <<txs[t].wallet, txs[t].ticker>>
        BY <2>7, <2>14 DEF SInv, LocksSerial
      <3>2. PICK u \in PaymentTxs :
               txs[u].status = "pending" /\ x = <<txs[u].wallet, txs[u].ticker>>
        BY <1>1, <3>1 DEF LockOK
      <3> QED
        BY <2>13, <3>1, <3>2
    <2>15. ASSUME NEW l, SerialOK(l)', work' = [work EXCEPT ![w] = l] PROVE SInv'
      BY <2>11, <2>14, <2>15, SWorker
    <2>16. IncomingStatus(h) = "inProgressInv" => Agree'
      BY <2>4, <2>6, <2>7, <2>8, <2>12, <2>13 DEF Agree, AllIn
    <2>17. CASE IncomingStatus(h) = "inProgress" /\ Goto(w, "markInProgress")
      <3>1. PICK l : l = [work[w] EXCEPT !.pc = "markInProgress"]
        OBVIOUS
      <3>2. l.pc = "markInProgress" /\ l.job = work[w].job /\ l.tx = t /\ l.hash = h
        BY <1>1, <1>2, <1>3, <3>1 DEF Idle
      <3>3. l.job # "method"
        BY <1>1, <2>4, <3>2 DEF SerialOK
      <3>4. SerialOK(l)'
        BY <2>3, <2>4, <2>6, <2>7, <2>8, <2>12, <2>17, <3>2, <3>3 DEF SerialOK
      <3> QED
        BY <2>15, <2>17, <3>1, <3>4 DEF Goto
    <2>18. CASE /\ IncomingStatus(h) = "inProgressInv" /\ work[w].job = "discover"
                /\ Goto(w, "reload")
      <3>1. PICK l : l = [work[w] EXCEPT !.pc = "reload"]
        OBVIOUS
      <3>2. l.pc = "reload" /\ l.job = "discover" /\ l.tx = t /\ l.hash = h
        BY <1>1, <1>2, <1>3, <2>18, <3>1 DEF Idle
      <3>3. SerialOK(l)'
        BY <2>6, <2>8, <2>16, <2>18, <3>2 DEF SerialOK
      <3> QED
        BY <2>15, <2>18, <3>1, <3>3 DEF Goto
    <2>19. CASE IncomingStatus(h) = "inProgressInv" /\ End(w)
      BY <2>15, <2>16, <2>19, SIdle DEF End
    <2> QED
      BY <1>2, <1>3, <1>6, <2>9, <2>17, <2>18, <2>19 DEF Receive
  <1> QED
    BY <1>5, <1>6

LEMMA SConfirmWrite ==
    ASSUME OneAtATime, Inv, SInv, NEW w \in Workers, ConfirmWrite(w)
    PROVE  SInv'
  <1>1. /\ SerialOK(work[w]) /\ LocalOK(work[w]) /\ DOMAIN work[w] = DOMAIN Idle
        /\ work[w].pc = "confirmWrite" /\ work[w] \in Local
    BY Known DEF ConfirmWrite, At
  <1>2. PICK t : t = work[w].tx
    OBVIOUS
  <1>3. PICK st : st = ConfirmedStatus(work[w].seen)
    OBVIOUS
  <1>4. /\ Agree /\ t \in TxIds /\ txs[t].status \in InProgress
        /\ work[w].seen = txs[t].status /\ work[w].hash = txs[t].hash
    BY <1>1, <1>2 DEF SerialOK, LocalOK, WithTx, Acting
  <1>5. CASE UNCHANGED <<txs, ledger>> /\ End(w)
    <2>1. UNCHANGED seen
      BY <1>5 DEF ConfirmWrite, seen, facts, setup
    <2> QED
      BY <1>1, <1>4, <1>5, <2>1, SEnd
  <1>6. CASE /\ txs' = [txs EXCEPT ![t].status = st, ![t].hash = work[w].hash,
                                   ![t].fee = IF st = "completedInv" THEN 0 ELSE @]
             /\ IF txs[t].owner = "merchant" THEN Goto(w, "markConfirmed") ELSE End(w)
    <2>1. txs[t] \in Row
      BY <1>4 DEF Inv, TypeOK
    <2>2. RowSerial(t)
      BY <1>4 DEF SInv, TablesSerial
    <2>3. PICK r : r = [txs[t] EXCEPT !.status = st, !.hash = work[w].hash,
                                      !.fee = IF st = "completedInv" THEN 0 ELSE @]
      OBVIOUS
    <2>4. /\ r.status = st /\ r.hash = txs[t].hash /\ r.owner = txs[t].owner
          /\ r.wallet = txs[t].wallet /\ r.ticker = txs[t].ticker
      BY <1>4, <2>1, <2>3 DEF Row
    <2>5. txs' = [txs EXCEPT ![t] = r] /\ UNCHANGED <<pay, chain, shown, lastTx, locks>>
      BY <1>6, <2>3, ZenonT(40) DEF ConfirmWrite, setup
    <2>6. txs'[t] = r /\ \A u \in TxIds : u # t => txs'[u] = txs[u]
      BY <1>4, <2>5 DEF Inv, TypeOK
    <2>7. st = IF txs[t].status = "inProgressInv" THEN "completedInv" ELSE "completed"
      BY <1>3, <1>4 DEF ConfirmedStatus
    <2>8. RowSerial(t)'
      BY <1>4, <2>2, <2>4, <2>6, <2>7 DEF RowSerial
    <2>9. TablesSerial'
      BY <1>4, <2>4, <2>5, <2>7, <2>8, SRow
    <2>10. PaymentTxs' = PaymentTxs /\ (t \in PaymentTxs <=> txs[t].owner = "merchant")
      BY <1>4, <2>4, <2>6, <2>7 DEF PaymentTxs
    <2>11. ASSUME NEW l, Roomy, NEW x \in locks' PROVE LockOK(x, l)'
      <3>1. LockOK(x, work[w])
        BY <2>5, <2>11 DEF SInv, LocksSerial
      <3>2. PICK u \in PaymentTxs :
               txs[u].status = "pending" /\ x = <<txs[u].wallet, txs[u].ticker>>
        BY <1>1, <3>1 DEF LockOK
      <3> QED
        BY <1>4, <2>6, <2>10, <3>2 DEF LockOK, PaymentTxs
    <2>12. ASSUME NEW l, SerialOK(l)', work' = [work EXCEPT ![w] = l] PROVE SInv'
      BY <2>9, <2>11, <2>12, SWorker
    <2>13. CASE txs[t].owner = "merchant"
      <3>1. PICK l : l = [work[w] EXCEPT !.pc = "markConfirmed"]
        OBVIOUS
      <3>2. /\ l.pc = "markConfirmed" /\ l.job = work[w].job /\ l.tx = t
            /\ l.seen = txs[t].status
        BY <1>1, <1>2, <1>4, <3>1 DEF Idle
      <3>3. pay = IF l.seen = "inProgress" THEN "inProgress" ELSE "locked"
        BY <1>4, <2>10, <2>13, <3>2, OpenMeans
      <3>4. l.job # "method"
        BY <1>1, <3>2, <3>3 DEF SerialOK
      <3>5. SerialOK(l)'
        BY <1>3, <1>4, <2>4, <2>5, <2>6, <2>10, <2>13, <3>2, <3>3, <3>4 DEF SerialOK
      <3> QED
        BY <1>6, <2>12, <2>13, <3>1, <3>5 DEF Goto
    <2>14. CASE txs[t].owner # "merchant"
      <3>1. \A u \in PaymentTxs : txs'[u] = txs[u]
        BY <2>6, <2>10, <2>14 DEF PaymentTxs
      <3>2. Agree'
        BY <1>4, <2>5, <2>10, <3>1 DEF Agree, AllIn, Has
      <3> QED
        BY <1>6, <2>12, <2>14, <3>2, SIdle DEF End
    <2> QED
      BY <2>13, <2>14
  <1> QED
    BY <1>2, <1>3, <1>5, <1>6 DEF ConfirmWrite

-----------------------------------------------------------------------------
(* Steps that insert a row *)

LEMMA SInsert ==
    ASSUME Inv, SInv, NEW r \in Row, Insert(r), r.status # "none", NEW n, n = lastTx + 1,
           UNCHANGED <<pay, chain, shown>>, r.hash # None => RowsWithHash(r.hash) = {},
           RowSerial(n)', OpenIsLatest', WaitingIsUnrecorded'
    PROVE  TablesSerial'
  <1>1. /\ n \in TxIds /\ lastTx' = n /\ txs'[n] = r /\ txs[n].status = "none"
        /\ \A u \in TxIds : u # n => txs'[u] = txs[u]
    BY InsertFacts
  <1>2. ASSUME NEW u \in TxIds, u # n PROVE RowSerial(u)'
    <2>1. u <= lastTx' => u <= lastTx
      BY <1>1, <1>2 DEF Inv, TypeOK, TxIds
    <2> QED
      BY <1>1, <1>2, <2>1 DEF SInv, TablesSerial, RowSerial, IncomingStatus
  <1>3. HashesApart'
    BY <1>1 DEF SInv, TablesSerial, HashesApart, RowsWithHash
  <1>4. UnpaidWhilePending'
    BY DEF SInv, TablesSerial, UnpaidWhilePending
  <1> QED
    BY <1>2, <1>3, <1>4 DEF TablesSerial

LEMMA SCreateUnexpected ==
    ASSUME OneAtATime, Inv, SInv, NEW w \in Workers, CreateUnexpected(w)
    PROVE  SInv'
  <1>1. /\ SerialOK(work[w]) /\ LocalOK(work[w])
        /\ work[w].pc = "createUnexpected"
    BY Known DEF CreateUnexpected, At
  <1>2. PICK h : h = work[w].hash
    OBVIOUS
  <1>3. /\ Agree /\ RowsWithHash(h) = {} /\ (IsActivation(h) \/ Awaiting(h) = {})
        /\ h \in Hashes /\ chain[h].state # "absent"
    BY <1>1, <1>2 DEF SerialOK, LocalOK
  <1>4. CASE UNCHANGED <<txs, lastTx>>
    <2>1. UNCHANGED seen
      BY <1>4 DEF CreateUnexpected, seen, facts
    <2> QED
      BY <1>1, <1>3, <2>1, SEnd DEF CreateUnexpected
  <1>5. PICK r : r = [status |-> "inProgress", owner |-> "system", wallet |-> chain[h].wallet,
                      ticker |-> chain[h].ticker, hash |-> h, fee |-> 0]
    OBVIOUS
  <1>6. CASE Insert(r)
    <2>1. chain[h].wallet \in 0..MaxWallets /\ chain[h].ticker \in Tickers \cup {None}
      BY <1>3 DEF Inv, TypeOK, Deposits
    <2>2. r \in Row
      BY <1>3, <1>5, <2>1 DEF Row, TxStatus
    <2>3. PICK n : n = lastTx + 1
      OBVIOUS
    <2>4. UNCHANGED <<pay, chain, shown, locks>>
      BY DEF CreateUnexpected
    <2>5. /\ n \in TxIds /\ lastTx' = n /\ txs'[n] = r /\ txs[n].status = "none"
          /\ \A u \in TxIds : u # n => txs'[u] = txs[u]
      BY <1>6, <2>2, <2>3, <2>4, InsertFacts
    <2>6. RowSerial(n)'
      BY <1>3, <1>5, <2>5 DEF RowSerial
    <2>7. PaymentTxs' = PaymentTxs /\ \A u \in PaymentTxs : txs'[u] = txs[u]
      BY <1>5, <2>5 DEF PaymentTxs
    <2>8. OpenIsLatest'
      BY <2>7 DEF SInv, TablesSerial, OpenIsLatest
    <2>9. ASSUME NEW a \in TxIds, NEW u \in TxIds, NEW g \in Hashes,
                 txs'[a].status = "pending", Paid(g, a)', txs'[u].status # "none",
                 txs'[u].hash = g
          PROVE  IsActivation(g)'
      <3>1. a # n /\ txs[a].status = "pending" /\ Paid(g, a)
        BY <1>5, <2>4, <2>5, <2>9 DEF Paid
      <3>2. CASE u = n
        <4>1. g = h
          BY <1>5, <2>5, <2>9, <3>2
        <4>2. txs[a].hash = None
          BY <3>1 DEF SInv, TablesSerial, RowSerial
        <4>3. a \in Awaiting(h)
          BY <3>1, <4>1, <4>2 DEF Awaiting, Paid
        <4> QED
          BY <1>3, <2>4, <4>1, <4>3 DEF IsActivation
      <3>3. CASE u # n
        BY <2>4, <2>5, <2>9, <3>1, <3>3
           DEF SInv, TablesSerial, WaitingIsUnrecorded, IsActivation
      <3> QED
        BY <3>2, <3>3
    <2>10. TablesSerial'
      <3>1. r.status # "none" /\ r.hash = h
        BY <1>5
      <3> QED
        BY <1>3, <1>6, <2>2, <2>3, <2>4, <2>6, <2>8, <2>9, <3>1, SInsert
           DEF WaitingIsUnrecorded
    <2>11. SerialOK(Idle)'
      BY <1>3, <2>4, <2>7, SIdle DEF Agree, AllIn, Has
    <2>12. ASSUME Roomy, NEW x \in locks' PROVE LockOK(x, Idle)'
      <3>1. LockOK(x, work[w])
        BY <2>4, <2>12 DEF SInv, LocksSerial
      <3> QED
        BY <1>1, <2>7, <3>1 DEF LockOK
    <2> QED
      BY <2>10, <2>11, <2>12, SWorker DEF CreateUnexpected, End
  <1> QED
    BY <1>2, <1>4, <1>5, <1>6 DEF CreateUnexpected

LEMMA SCreateTx ==
    ASSUME OneAtATime, Inv, SInv, NEW w \in Workers, CreateTx(w)
    PROVE  SInv'
  <1>1. /\ SerialOK(work[w]) /\ LocalOK(work[w]) /\ work[w].pc = "createTx"
        /\ work[w].job = "method" /\ work[w] \in Local
    BY Known DEF CreateTx, At, LocalOK
  <1>2. Agree /\ pay = "pending" /\ AllIn({"canceled"})
    BY <1>1 DEF SerialOK
  <1>3. PICK r : r = [status |-> "pending", owner |-> "merchant", wallet |-> work[w].wallet,
                      ticker |-> work[w].ticker, hash |-> None, fee |-> ServiceFee]
    OBVIOUS
  <1>4. r \in Row /\ Insert(r)
    BY <1>1, <1>3 DEF CreateTx, Row, Local, TxStatus
  <1>5. PICK n : n = lastTx + 1
    OBVIOUS
  <1>6. UNCHANGED <<pay, chain, shown, locks>>
    BY DEF CreateTx
  <1>7. /\ n \in TxIds /\ lastTx' = n /\ txs'[n] = r /\ txs[n].status = "none"
        /\ \A u \in TxIds : u # n => txs'[u] = txs[u]
    BY <1>4, <1>5, <1>6, InsertFacts
  <1>8. RowSerial(n)'
    BY <1>3, <1>7 DEF RowSerial
  <1>9. /\ PaymentTxs' = PaymentTxs \cup {n} /\ n \notin PaymentTxs
        /\ \A u \in PaymentTxs : txs'[u] = txs[u] /\ u <= n
    <2>1. \A u \in PaymentTxs : u <= lastTx /\ u \in TxIds
      BY DEF Inv, RowOK, PaymentTxs
    <2>2. \A u \in PaymentTxs : u <= n
      BY <1>5, <2>1 DEF Inv, TypeOK, TxIds
    <2> QED
      BY <1>3, <1>7, <2>2 DEF PaymentTxs
  <1>10. OpenIsLatest'
    BY <1>2, <1>7, <1>9 DEF OpenIsLatest, AllIn, TxIds
  <1>11. WaitingIsUnrecorded'
    <2>1. \A g \in Hashes : chain'[g].state = "absent"
      BY <1>2, <1>6 DEF SInv, TablesSerial, UnpaidWhilePending
    <2> QED
      BY <2>1 DEF WaitingIsUnrecorded, Paid
  <1>12. TablesSerial'
    <2>1. r.status # "none" /\ r.hash = None
      BY <1>3
    <2> QED
      BY <1>4, <1>5, <1>6, <1>8, <1>10, <1>11, <2>1, SInsert
  <1>13. SerialOK(Idle)'
    <2>1. Agree'
      BY <1>2, <1>3, <1>6, <1>7, <1>9 DEF Agree, AllIn
    <2> QED
      BY <2>1, SIdle
  <1>14. ASSUME Roomy, NEW x \in locks' PROVE LockOK(x, Idle)'
    <2>1. LockOK(x, work[w])
      BY <1>6, <1>14 DEF SInv, LocksSerial
    <2>2. CASE x = <<work[w].wallet, work[w].ticker>>
      BY <1>3, <1>7, <1>9, <2>2 DEF LockOK
    <2> QED
      BY <1>1, <1>9, <2>1, <2>2 DEF LockOK
  <1> QED
    BY <1>12, <1>13, <1>14, SWorker DEF CreateTx, End

\* With a row per wallet and per deposit there is room for the row of a new wallet:
\* every row of the payment has a wallet of its own, every other row a deposit.
LEMMA Room ==
    ASSUME Inv, SInv, NEW w \in Workers, work[w].pc = "createTx", Roomy
    PROVE  lastTx < MaxTx
  <1>1. PICK wt : wt = work[w].wallet
    OBVIOUS
  <1>2. wt \in Wallets /\ \A t \in PaymentTxs : txs[t].wallet # wt
    BY <1>1 DEF Inv, LocalOK, CriticalOK
  <1> DEFINE M == PaymentTxs
             N == (1..lastTx) \ PaymentTxs
             f == [t \in M |-> txs[t].wallet]
             g == [t \in N |-> txs[t].hash]
  <1>3. lastTx \in 0..MaxTx /\ lastTx \in Nat /\ 1..lastTx \subseteq TxIds
    BY DEF Inv, TypeOK, TxIds
  <1>4. f \in Injection(M, Wallets \ {wt})
    <2>1. \A t \in M : txs[t].wallet \in Wallets \ {wt}
      BY <1>2 DEF Inv, RowOK, PaymentTxs
    <2>2. f \in [M -> Wallets \ {wt}]
      BY <2>1
    <2>3. \A a, b \in M : f[a] = f[b] => a = b
      BY DEF Inv, SingleUseAddress
    <2> QED
      BY <2>2, <2>3 DEF Injection, IsInjective
  <1>5. g \in Injection(N, Hashes)
    <2>1. ASSUME NEW t \in N
          PROVE  /\ t \in TxIds /\ txs[t].status # "none" /\ txs[t].hash # None
                 /\ txs[t].hash \in Hashes
      <3>1. t \in TxIds /\ t <= lastTx
        BY <1>3
      <3>2. txs[t] \in Row /\ RowSerial(t)
        BY <3>1 DEF Inv, TypeOK, SInv, TablesSerial
      <3>3. txs[t].status # "none"
        BY <3>1, <3>2 DEF RowSerial
      <3>4. txs[t].owner = "system"
        BY <3>1, <3>2, <3>3 DEF PaymentTxs, Row
      <3> QED
        BY <3>1, <3>2, <3>3, <3>4 DEF RowSerial, Row
    <2>2. g \in [N -> Hashes]
      BY <2>1
    <2>3. \A a, b \in N : g[a] = g[b] => a = b
      BY <2>1 DEF SInv, TablesSerial, HashesApart
    <2> QED
      BY <2>2, <2>3 DEF Injection, IsInjective
  <1>6. /\ IsFiniteSet(Wallets) /\ Cardinality(Wallets) = MaxWallets
        /\ IsFiniteSet(Wallets \ {wt}) /\ Cardinality(Wallets \ {wt}) = MaxWallets - 1
    <2>1. IsFiniteSet(Wallets) /\ Cardinality(Wallets) = MaxWallets
      BY FS_Interval DEF Wallets
    <2>2. wt \in Wallets
      BY <1>2
    <2>3. /\ IsFiniteSet(Wallets \ {wt})
          /\ Cardinality(Wallets \ {wt}) = Cardinality(Wallets) - 1
      BY <2>1, <2>2, FS_RemoveElement
    <2> QED
      BY <2>1, <2>3
  <1>7. IsFiniteSet(M) /\ Cardinality(M) <= MaxWallets - 1
    <2> HIDE DEF f, M
    <2> QED
      BY <1>4, <1>6, FS_Injection
  <1>8. IsFiniteSet(N) /\ Cardinality(N) <= Cardinality(Hashes)
    <2> HIDE DEF g, N
    <2> QED
      BY <1>5, FS_Injection DEF Roomy
  <1>9. /\ IsFiniteSet(M \cup N) /\ Cardinality(M \cap N) = 0
        /\ Cardinality(M \cup N) = Cardinality(M) + Cardinality(N) - Cardinality(M \cap N)
    <2>1. M \cap N = {}
      OBVIOUS
    <2> HIDE DEF M, N
    <2> QED
      BY <1>7, <1>8, <2>1, FS_Union, FS_EmptySet
  <1>10. M \cup N = 1..lastTx
    <2>1. \A t \in M : t \in 1..lastTx
      BY <1>3 DEF Inv, RowOK, PaymentTxs, TxIds
    <2> QED
      BY <2>1
  <1>11. Cardinality(1..lastTx) = lastTx
    BY <1>3, FS_Interval
  <1>12. /\ Cardinality(M) \in Nat /\ Cardinality(N) \in Nat /\ Cardinality(Hashes) \in Nat
    <2> HIDE DEF M, N
    <2> QED
      BY <1>7, <1>8, FS_CardinalityType DEF Roomy
  <1>13. Cardinality(M \cup N) = lastTx
    BY <1>10, <1>11
  <1> HIDE DEF M, N
  <1>14. lastTx = Cardinality(M) + Cardinality(N)
    BY <1>9, <1>12, <1>13
  <1> QED
    BY <1>3, <1>7, <1>8, <1>12, <1>14 DEF Roomy

LEMMA SRefused ==
    ASSUME OneAtATime, Inv, SInv, NEW w \in Workers, Refused(w)
    PROVE  SInv'
  <1> UNCHANGED seen /\ End(w)
    BY DEF Refused, seen, facts, setup
  <1>1. SerialOK(work[w])
    BY Known
  <1>2. CASE work[w].pc = "freshWallet"
    <2>1. Agree
      BY <1>1, <1>2 DEF SerialOK
    <2> QED
      BY <1>2, <2>1, SEnd
  <1>3. CASE work[w].pc = "createTx" /\ lastTx = MaxTx
    <2>1. ~Roomy
      <3>1. ~(MaxTx < MaxTx)
        OBVIOUS
      <3> QED
        BY <1>3, <3>1, Room
    <2>2. SerialOK(Idle)
      BY <1>1, <1>3, SerialIdle DEF SerialOK
    <2>3. TablesSerial' /\ SerialOK(Idle)'
      BY <2>2, SKept DEF SInv, seen
    <2> QED
      BY <2>1, <2>3, SWorker DEF End
  <1> QED
    BY <1>2, <1>3 DEF Refused, At

-----------------------------------------------------------------------------
(* The customer and the chain *)

LEMMA SWorld ==
    ASSUME Inv, SInv, UNCHANGED <<pay, txs, lastTx, locks, work>>,
           \A h \in Hashes : chain[h].state # "absent" =>
               /\ chain'[h].wallet = chain[h].wallet /\ chain'[h].ticker = chain[h].ticker
               /\ chain'[h].amount = chain[h].amount
               /\ chain[h].state = "success" => chain'[h].state = "success",
           UnpaidWhilePending'
    PROVE  SInv'
  <1>1. ASSUME NEW t \in TxIds, txs[t].status # "none", txs[t].hash # None
        PROVE  /\ txs[t].hash \in Hashes /\ chain[txs[t].hash].state # "absent"
               /\ IncomingStatus(txs[t].hash)' = IncomingStatus(txs[t].hash)
    <2>1. txs[t].hash \in Hashes /\ chain[txs[t].hash].state # "absent"
      BY <1>1 DEF Inv, RowOK, Paid
    <2> QED
      BY <2>1 DEF IncomingStatus
  <1>2. ASSUME NEW t \in TxIds PROVE RowSerial(t)'
    <2>1. RowSerial(t) /\ RowOK(t)
      BY DEF SInv, TablesSerial, Inv
    <2> QED
      BY <1>1, <2>1 DEF RowSerial, RowOK
  <1>3. HashesApart' /\ OpenIsLatest'
    BY DEF SInv, TablesSerial, HashesApart, OpenIsLatest, PaymentTxs
  <1>4. WaitingIsUnrecorded'
    <2> SUFFICES ASSUME NEW a \in TxIds, NEW u \in TxIds, NEW g \in Hashes,
                        txs[a].status = "pending", Paid(g, a)', txs[u].status # "none",
                        txs[u].hash = g
                 PROVE  IsActivation(g)'
      BY DEF WaitingIsUnrecorded
    <2>1. chain[g].state # "absent"
      BY <1>1
    <2>2. Paid(g, a)
      BY <2>1 DEF Paid
    <2> QED
      BY <2>1, <2>2 DEF SInv, TablesSerial, WaitingIsUnrecorded, IsActivation
  <1>5. ASSUME NEW w \in Workers PROVE SerialOK(work[w])'
    <2>1. PICK l : l = work[w]
      OBVIOUS
    <2>2. l = work'[w] /\ SerialOK(l) /\ LocalOK(l)
      BY <2>1, Known
    <2>3. /\ Agree' <=> Agree
          /\ Lost' <=> Lost
          /\ AllIn({"canceled"})' <=> AllIn({"canceled"})
          /\ PaymentTxs' = PaymentTxs
          /\ RowsWithHash(l.hash)' = RowsWithHash(l.hash)
          /\ Waiting(l)' <=> Waiting(l)
          /\ Acting(l)' <=> Acting(l)
      BY DEF Agree, Lost, AllIn, Has, PaymentTxs, RowsWithHash, Waiting, Acting
    <2>4. l.pc \in {"unexpected", "createUnexpected"} =>
             /\ IsActivation(l.hash)' <=> IsActivation(l.hash)
             /\ Awaiting(l.hash)' = Awaiting(l.hash)
      BY <2>2 DEF LocalOK, IsActivation, Awaiting
    <2>5. (l.pc \in {"confirmRead", "confirmWrite"} /\ chain[l.hash].state = "success") =>
             chain'[l.hash].state = "success"
      BY <2>2 DEF LocalOK, WithPaid, Paid
    <2>6. SerialOK(l)'
      BY <2>2, <2>3, <2>4, <2>5 DEF SerialOK
    <2> QED
      BY <2>2, <2>6
  <1>6. Roomy => LocksSerial'
    BY DEF SInv, LocksSerial, LockOK, PaymentTxs
  <1> QED
    BY <1>2, <1>3, <1>4, <1>5, <1>6 DEF SInv, TablesSerial

LEMMA SCustomer ==
    ASSUME Inv, SInv, AssignCustomer \/ \E t \in TxIds : ShowAddress(t)
    PROVE  SInv'
  <1>1. UNCHANGED <<pay, txs, lastTx, locks, work, chain>>
    BY DEF AssignCustomer, ShowAddress
  <1>2. UnpaidWhilePending'
    BY DEF SInv, TablesSerial, UnpaidWhilePending, AssignCustomer, ShowAddress
  <1> QED
    BY <1>1, <1>2, SWorld

LEMMA SDeposit ==
    ASSUME Inv, SInv, NEW h \in Hashes, NEW wt \in Wallets, NEW k \in Tickers,
           NEW a \in DepositAmounts, Deposit(h, wt, k, a)
    PROVE  SInv'
  <1>1. UNCHANGED <<pay, txs, lastTx, locks, work, shown>>
    BY DEF Deposit, setup
  <1>2. \A g \in Hashes : chain[g].state # "absent" => chain'[g] = chain[g]
    BY DEF Deposit, Inv, TypeOK
  <1>3. UnpaidWhilePending'
    BY DEF SInv, TablesSerial, UnpaidWhilePending, Deposit, setup
  <1> QED
    BY <1>1, <1>2, <1>3, SWorld

LEMMA SFinalize ==
    ASSUME Inv, SInv, NEW h \in Hashes, NEW r \in {"success", "reverted"}, Finalize(h, r)
    PROVE  SInv'
  <1>1. UNCHANGED <<pay, txs, lastTx, locks, work, shown>>
    BY DEF Finalize, setup
  <1>2. chain[h] \in Deposits /\ chain[h].state = "seen"
    BY DEF Inv, TypeOK, Finalize
  <1>3. /\ chain'[h] = [chain[h] EXCEPT !.state = r]
        /\ \A g \in Hashes : g # h => chain'[g] = chain[g]
    BY DEF Finalize, Inv, TypeOK
  <1>4. /\ chain'[h].wallet = chain[h].wallet /\ chain'[h].ticker = chain[h].ticker
        /\ chain'[h].amount = chain[h].amount
    BY <1>2, <1>3 DEF Deposits
  <1>5. UnpaidWhilePending'
    BY <1>1, <1>2 DEF SInv, TablesSerial, UnpaidWhilePending
  <1> QED
    BY <1>1, <1>2, <1>3, <1>4, <1>5, SWorld

-----------------------------------------------------------------------------
LEMMA InitSInv == Init => SInv
  <1> SUFFICES ASSUME Init PROVE SInv
    OBVIOUS
  <1>1. \A t \in TxIds : txs[t] = NoRow
    BY DEF Init
  <1>2. PaymentTxs = {} /\ \A t \in TxIds : txs[t].status = "none"
    BY <1>1 DEF PaymentTxs, NoRow
  <1>3. TablesSerial
    <2>1. \A t \in TxIds : RowSerial(t)
      BY <1>2 DEF RowSerial, Init, TxIds
    <2>2. \A h \in Hashes : chain[h].state = "absent"
      BY DEF Init, NoDeposit
    <2> QED
      BY <1>2, <2>1, <2>2 DEF TablesSerial, HashesApart, OpenIsLatest, UnpaidWhilePending,
         WaitingIsUnrecorded, Init
  <1>4. \A w \in Workers : work[w] = Idle
    BY DEF Init
  <1>5. Agree
    BY <1>2 DEF Agree, AllIn, Init
  <1> QED
    BY <1>3, <1>4, <1>5, SerialIdle DEF SInv, LocksSerial, Init

LEMMA SerialStep ==
    ASSUME OneAtATime, Inv, SInv, NEW w \in Workers, Step(w) PROVE SInv'
  <1>1. ~Abort(w)
    BY DEF Abort, OneAtATime
  <1> QED
    BY <1>1, SStartWebhook, SUnexpected, SCreateUnexpected, SReceive, SMarkInProgress,
       SStartDiscover, SStartCheck, SCandidate, SReload, SReceipt, SConfirmRead,
       SConfirmWrite, SMarkConfirmed, SCancelTx, SReleaseLock, SFailPayment, SStartOther,
       SLatest, SObserve, SAcquireLock, SCurrent, SFreshWallet, SCreateTx, SRefused,
       SMethod, SLockWrite
    DEF Step

LEMMA NextSInv ==
    OneAtATime /\ Inv /\ SInv /\ [Next]_vars => SInv'
  <1> SUFFICES ASSUME OneAtATime, Inv, SInv, [Next]_vars PROVE SInv'
    OBVIOUS
  <1>1. CASE UNCHANGED vars
    <2>1. UNCHANGED facts /\ UNCHANGED <<work, locks>>
      BY <1>1 DEF vars, facts
    <2>2. \A w \in Workers : SerialOK(work[w])'
      BY <2>1, SKept DEF SInv
    <2>3. Roomy => LocksSerial'
      BY <2>1 DEF SInv, LocksSerial, LockOK, PaymentTxs, facts
    <2> QED
      BY <2>1, <2>2, <2>3, SKept DEF SInv
  <1>2. CASE Next
    BY <1>2, SerialStep, SCustomer, SDeposit, SFinalize DEF Next
  <1> QED
    BY <1>1, <1>2

\* One job after the other, the tables and the worker stay in step.
THEOREM SerialInvariant == OneAtATime => (Spec => [](Inv /\ SInv))
  <1> SUFFICES ASSUME OneAtATime PROVE Spec => [](Inv /\ SInv)
    OBVIOUS
  <1>1. Init => Inv /\ SInv
    BY InitInv, InitSInv
  <1>2. Inv /\ SInv /\ [Next]_vars => (Inv /\ SInv)'
    BY NextInv, NextSInv
  <1> QED
    BY <1>1, <1>2, PTL DEF Spec

\* One job after the other, the payment and its transactions agree between jobs,
\* whatever was paid, when and in which currency.
THEOREM PaymentsFollow == OneAtATime => (Spec => []PaymentFollowsTxs)
  <1> SUFFICES ASSUME OneAtATime PROVE Spec => []PaymentFollowsTxs
    OBVIOUS
  <1>1. Inv /\ SInv => PaymentFollowsTxs
    <2> SUFFICES ASSUME Inv, SInv, Quiet PROVE PaymentFollowsTxs
      BY DEF PaymentFollowsTxs
    <2>1. Agree
      BY Known DEF OneAtATime, Quiet, SerialOK, Idle
    <2>2. pay \in PayStatus
      BY DEF Inv, TypeOK
    <2>3. (pay = "success") <=> Has("completed")
      BY <2>1, <2>2 DEF Agree, AllIn, Has, PayStatus
    <2>4. (pay = "inProgress") <=> Has("inProgress")
      BY <2>1, <2>2 DEF Agree, AllIn, Has, PayStatus
    <2>5. pay = "failed" => \A t \in PaymentTxs : txs[t].status \in Finalized
      BY <2>1 DEF Agree, AllIn, Finalized
    <2> QED
      BY <2>3, <2>4, <2>5 DEF PaymentFollowsTxs, Has
  <1> QED
    BY <1>1, SerialInvariant, PTL

\* One job after the other, a wallet is locked between jobs only for a transaction
\* that waits for its deposit.
THEOREM LocksDoNotLeak == OneAtATime /\ Roomy => (Spec => []NoLeakedLock)
  <1> SUFFICES ASSUME OneAtATime, Roomy PROVE Spec => []NoLeakedLock
    OBVIOUS
  <1>1. Inv /\ SInv => NoLeakedLock
    <2> SUFFICES ASSUME Inv, SInv, Quiet, NEW x \in locks
                 PROVE  \E t \in PaymentTxs :
                           txs[t].status = "pending" /\ x = <<txs[t].wallet, txs[t].ticker>>
      BY DEF NoLeakedLock
    <2>1. LockOK(x, Idle)
      BY DEF OneAtATime, Quiet, SInv, LocksSerial
    <2> QED
      BY <2>1 DEF LockOK, Idle
  <1> QED
    BY <1>1, SerialInvariant, PTL

-----------------------------------------------------------------------------
(* IncomingPayment implements PaymentPromise *)

Booked == {txs[t].hash : t \in Confirmed}

\* The steps that the promise does not see.
LEMMA Hidden ==
    ASSUME UNCHANGED <<pay, ledger, chain>>, Has("completed")' <=> Has("completed"),
           Booked' = Booked
    PROVE  UNCHANGED Promise!vars
  <1>1. (\E t \in PaymentTxs : txs[t].status = "completed")'
           = (\E t \in PaymentTxs : txs[t].status = "completed")
    BY DEF Has
  <1> QED
    BY <1>1 DEF Promise!vars, Promise!books, Booked, ledger

\* Those among them that write rows write none that is or becomes confirmed.
LEMMA HiddenRow ==
    ASSUME UNCHANGED <<pay, ledger, chain>>, NEW t \in TxIds, NEW r,
           txs \in [TxIds -> Row], txs' = [txs EXCEPT ![t] = r],
           txs[t].status \notin {"completed", "completedInv"},
           r.status \notin {"completed", "completedInv"}
    PROVE  UNCHANGED Promise!vars
  <1>1. txs'[t] = r /\ \A u \in TxIds : u # t => txs'[u] = txs[u]
    OBVIOUS
  <1>2. Has("completed")' <=> Has("completed")
    BY <1>1 DEF Has, PaymentTxs
  <1>3. Confirmed' = Confirmed /\ \A u \in Confirmed : txs'[u] = txs[u]
    BY <1>1 DEF Confirmed
  <1>4. Booked' = Booked
    BY <1>3 DEF Booked
  <1> QED
    BY <1>2, <1>4, Hidden

LEMMA HiddenMove ==
    ASSUME UNCHANGED <<pay, txs, ledger, chain>>
    PROVE  UNCHANGED Promise!vars
  <1>1. (Has("completed")' <=> Has("completed")) /\ Booked' = Booked
    BY DEF Has, PaymentTxs, Booked, Confirmed
  <1> QED
    BY <1>1, Hidden

LEMMA RefLock ==
    ASSUME Inv, SInv, NEW w \in Workers, LockWrite(w)
    PROVE  Promise!Lock
  <1>1. pay = "pending"
    BY Known DEF LockWrite, At, SerialOK
  <1>2. UNCHANGED <<txs, ledger, chain>> /\ pay' = "locked"
    BY DEF LockWrite
  <1> QED
    BY <1>1, <1>2 DEF Promise!Lock, Promise!books, ledger, PaymentTxs, Confirmed

LEMMA RefNotice ==
    ASSUME Inv, SInv, NEW w \in Workers, MarkInProgress(w)
    PROVE  Promise!Notice
  <1>1. SerialOK(work[w]) /\ LocalOK(work[w]) /\ work[w].pc = "markInProgress"
    BY Known DEF MarkInProgress, At
  <1>2. PICK h : h = work[w].hash
    OBVIOUS
  <1>3. /\ pay = "locked" /\ work[w].tx \in PaymentTxs
        /\ txs[work[w].tx].status = "inProgress" /\ txs[work[w].tx].hash = h
    BY <1>1, <1>2 DEF SerialOK
  <1>4. h \in Hashes /\ chain[h].state # "absent"
    BY <1>1, <1>2 DEF LocalOK, WithPaid, Paid
  <1>5. IncomingStatus(h) = "inProgress"
    BY <1>3 DEF SInv, TablesSerial, RowSerial, PaymentTxs
  <1>6. chain[h].amount + Tolerance >= Amount
    BY <1>5 DEF IncomingStatus
  <1>7. UNCHANGED <<txs, ledger, chain>> /\ pay' = "inProgress"
    BY DEF MarkInProgress
  <1> QED
    BY <1>3, <1>4, <1>6, <1>7 DEF Promise!Notice, Promise!books, ledger, PaymentTxs, Confirmed

LEMMA RefSettle ==
    ASSUME Inv, SInv, NEW w \in Workers, MarkConfirmed(w) \/ FailPayment(w)
    PROVE  Promise!Settle
  <1>1. UNCHANGED <<txs, ledger, chain>>
    BY DEF MarkConfirmed, FailPayment
  <1>2. SerialOK(work[w])
    BY Known
  <1>3. /\ pay \in {"pending", "locked", "inProgress"}
        /\ pay' = IF Has("completed") THEN "success" ELSE "failed"
    <2>1. CASE MarkConfirmed(w)
      <3>1. PICK t : t = work[w].tx
        OBVIOUS
      <3>2. /\ t \in PaymentTxs /\ work[w].seen \in InProgress
            /\ txs[t].status = ConfirmedStatus(work[w].seen)
            /\ pay = IF work[w].seen = "inProgress" THEN "inProgress" ELSE "locked"
        BY <1>2, <2>1, <3>1 DEF SerialOK, MarkConfirmed, At
      <3>3. \A u \in PaymentTxs : u # t => txs[u].status = "canceled"
        BY <3>2, OthersCanceled DEF ConfirmedStatus
      <3>4. Has("completed") <=> ConfirmedStatus(work[w].seen) = "completed"
        BY <3>2, <3>3 DEF Has
      <3> QED
        BY <2>1, <3>2, <3>4 DEF MarkConfirmed
    <2>2. CASE FailPayment(w)
      <3>1. Lost
        BY <1>2, <2>2 DEF SerialOK, FailPayment, At
      <3> QED
        BY <2>2, <3>1 DEF Lost, AllIn, Has, FailPayment
    <2> QED
      BY <2>1, <2>2
  <1> QED
    BY <1>1, <1>3 DEF Promise!Settle, Promise!books, ledger, PaymentTxs, Confirmed, Has

LEMMA RefChain ==
    ASSUME Inv, UNCHANGED <<pay, txs, ledger>>,
           \A h \in Hashes : chain[h].state = "success" => chain'[h] = chain[h]
    PROVE  Promise!ChainMoves
  BY DEF Promise!ChainMoves, Promise!books, ledger, PaymentTxs, Confirmed

LEMMA RefBook ==
    ASSUME Inv, SInv, NEW w \in Workers, ConfirmWrite(w)
    PROVE  (\E h \in Hashes : Promise!Book(h)) \/ UNCHANGED Promise!vars
  <1>1. SerialOK(work[w]) /\ LocalOK(work[w]) /\ work[w].pc = "confirmWrite"
    BY Known DEF ConfirmWrite, At
  <1>2. PICK t : t = work[w].tx
    OBVIOUS
  <1>3. PICK h : h = work[w].hash
    OBVIOUS
  <1>4. PICK st : st = ConfirmedStatus(work[w].seen)
    OBVIOUS
  <1>5. /\ Agree /\ t \in TxIds /\ txs[t].status \in InProgress /\ Paid(h, t)
        /\ work[w].seen = txs[t].status /\ h = txs[t].hash /\ chain[h].state = "success"
    BY <1>1, <1>2, <1>3 DEF SerialOK, LocalOK, WithTx, WithPaid, Acting
  <1>6. st = IF txs[t].status = "inProgressInv" THEN "completedInv" ELSE "completed"
    BY <1>4, <1>5 DEF ConfirmedStatus
  <1>7. /\ UNCHANGED <<pay, chain>>
        /\ Credited(w) <=> (st = "completed" /\ txs[t].owner = "merchant")
    BY <1>2, <1>4 DEF ConfirmWrite, Credited
  <1>8. CASE UNCHANGED <<txs, ledger>>
    BY <1>7, <1>8, HiddenMove DEF ledger
  <1>9. CASE /\ ~(Credited(w) /\ Gained(h) < txs[t].fee)
             /\ txs' = [txs EXCEPT ![t].status = st, ![t].hash = h,
                                   ![t].fee = IF st = "completedInv" THEN 0 ELSE @]
             /\ walletBalance' =
                   [walletBalance EXCEPT ![txs[t].ticker] = @ + chain[h].amount]
             /\ merchantBalance' = IF Credited(w)
                   THEN [merchantBalance EXCEPT
                           ![txs[t].ticker] = @ + (Gained(h) - txs[t].fee)]
                   ELSE merchantBalance
    <2>1. txs[t] \in Row /\ RowSerial(t) /\ txs[t].ticker = chain[h].ticker /\ h \in Hashes
      BY <1>5 DEF Inv, TypeOK, SInv, TablesSerial, Paid
    <2>2. PICK r : r = [txs[t] EXCEPT !.status = st, !.hash = h,
                                      !.fee = IF st = "completedInv" THEN 0 ELSE @]
      OBVIOUS
    <2>3. r.status = st /\ r.hash = h /\ r.owner = txs[t].owner
      BY <2>1, <2>2 DEF Row
    <2>4. txs'[t] = r /\ \A u \in TxIds : u # t => txs'[u] = txs[u]
      BY <1>5, <1>9, <2>2 DEF Inv, TypeOK
    <2>5. Confirmed' = Confirmed \cup {t} /\ t \notin Confirmed
      BY <1>5, <1>6, <2>3, <2>4 DEF Confirmed
    <2>6. \A u \in Confirmed : txs'[u].hash = txs[u].hash
      BY <2>4, <2>5 DEF Confirmed
    <2>7. Booked' = Booked \cup {h}
      BY <2>3, <2>4, <2>5, <2>6 DEF Booked
    <2>8. h \notin Booked
      <3> SUFFICES ASSUME NEW u \in Confirmed, txs[u].hash = h PROVE FALSE
        BY DEF Booked
      <3>1. u \in TxIds /\ txs[u].status # "none" /\ txs[t].status # "none" /\ h # None
        BY <1>5, <2>1 DEF Confirmed
      <3>2. u = t
        BY <1>5, <3>1 DEF SInv, TablesSerial, HashesApart
      <3> QED
        BY <2>5, <3>2
    <2>9. walletBalance' = [walletBalance EXCEPT ![chain[h].ticker] = @ + chain[h].amount]
      BY <1>9, <2>1
    <2>10. CASE Credited(w)
      <3>1. /\ txs[t].owner = "merchant" /\ txs[t].status = "inProgress" /\ st = "completed"
            /\ t \in PaymentTxs
        BY <1>5, <1>6, <1>7, <2>10 DEF PaymentTxs
      <3>2. txs[t].fee = ServiceFee /\ IncomingStatus(h) = "inProgress"
        BY <1>5, <2>1, <3>1 DEF RowSerial
      <3>3. pay = "inProgress"
        BY <1>5, <3>1, OpenMeans
      <3>4. ~Has("completed")
        BY <1>5, <3>3 DEF Agree, AllIn, Has
      <3>5. Has("completed")'
        BY <2>3, <2>4, <3>1 DEF Has, PaymentTxs
      <3>6. chain[h].amount + Tolerance >= Amount
        BY <3>2 DEF IncomingStatus
      <3>7. merchantBalance' = [merchantBalance EXCEPT
                                  ![chain[h].ticker] = @ + Gained(h) - ServiceFee]
        <4>1. merchantBalance \in [Tickers -> Nat] /\ Gained(h) \in Nat
          BY <2>1 DEF Inv, TypeOK, Gained, Deposits
        <4>2. \A k \in Tickers :
                merchantBalance[k] + (Gained(h) - ServiceFee)
                  = merchantBalance[k] + Gained(h) - ServiceFee
          BY <4>1
        <4>3. merchantBalance' = [merchantBalance EXCEPT
                                    ![chain[h].ticker] = @ + (Gained(h) - ServiceFee)]
          BY <1>9, <2>1, <2>10, <3>2
        <4> QED
          BY <4>1, <4>2, <4>3
      <3>8. Promise!Price(h) = Gained(h)
        BY DEF Promise!Price, Gained
      <3>9. Promise!Book(h)
        BY <1>5, <1>7, <2>7, <2>8, <2>9, <3>3, <3>4, <3>5, <3>6, <3>7, <3>8
           DEF Promise!Book, Booked, Has
      <3> QED
        BY <2>1, <3>9
    <2>11. CASE ~Credited(w)
      <3>1. merchantBalance' = merchantBalance
        BY <1>9, <2>11
      <3>2. Has("completed")' <=> Has("completed")
        BY <1>5, <1>7, <2>3, <2>4, <2>11 DEF Has, PaymentTxs
      <3>3. (\E u \in PaymentTxs : txs[u].status = "completed")'
               = (\E u \in PaymentTxs : txs[u].status = "completed")
        BY <3>2 DEF Has
      <3>4. Promise!Book(h)
        BY <1>5, <1>7, <2>7, <2>8, <2>9, <3>1, <3>3 DEF Promise!Book, Booked
      <3> QED
        BY <2>1, <3>4
    <2> QED
      BY <2>10, <2>11
  <1> QED
    BY <1>2, <1>3, <1>4, <1>8, <1>9, Zenon DEF ConfirmWrite

LEMMA RefHidden ==
    ASSUME Inv, SInv, NEW w \in Workers,
           Receive(w) \/ CancelTx(w) \/ CreateTx(w) \/ CreateUnexpected(w)
    PROVE  UNCHANGED Promise!vars
  <1>1. SerialOK(work[w]) /\ LocalOK(work[w]) /\ work[w] \in Local /\ txs \in [TxIds -> Row]
    BY Known DEF Inv, TypeOK
  <1>2. UNCHANGED <<pay, ledger, chain>>
    BY DEF Receive, CancelTx, CreateTx, CreateUnexpected
  <1>3. CASE UNCHANGED txs
    BY <1>2, <1>3, HiddenMove DEF ledger
  <1>4. PICK t : t = work[w].tx
    OBVIOUS
  <1>5. CASE Receive(w) /\ ~UNCHANGED txs
    <2>1. t \in TxIds /\ txs[t].status = "pending"
      BY <1>1, <1>4, <1>5 DEF SerialOK, LocalOK, WithTx, Waiting, Receive, At
    <2>2. PICK r : r = [txs[t] EXCEPT !.status = IncomingStatus(work[w].hash),
                                      !.hash = work[w].hash]
      OBVIOUS
    <2>3. txs' = [txs EXCEPT ![t] = r]
      BY <1>4, <1>5, <2>2 DEF Receive
    <2>4. txs[t] \in Row
      BY <1>1, <2>1
    <2>5. r.status \in InProgress
      BY <2>2, <2>4 DEF Row, IncomingStatus
    <2> QED
      BY <1>1, <1>2, <2>1, <2>3, <2>5, HiddenRow
  <1>6. CASE CancelTx(w)
    <2>1. t \in TxIds /\ txs[t].status \in InProgress \cup {"pending"}
      BY <1>1, <1>4, <1>6 DEF SerialOK, LocalOK, WithTx, Waiting, CancelTx, At
    <2>2. PICK r : r = [txs[t] EXCEPT !.status = CancelStatus(work[w].job)]
      OBVIOUS
    <2>3. txs' = [txs EXCEPT ![t] = r]
      BY <1>4, <1>6, <2>2 DEF CancelTx
    <2>4. txs[t] \in Row
      BY <1>1, <2>1
    <2>5. r.status \in {"failed", "canceled"}
      BY <2>2, <2>4 DEF Row, CancelStatus
    <2> QED
      BY <1>1, <1>2, <2>1, <2>3, <2>5, HiddenRow
  <1>7. ASSUME NEW r, Insert(r), r.status \in {"pending", "inProgress"}
        PROVE  UNCHANGED Promise!vars
    <2>1. lastTx + 1 \in TxIds /\ txs[lastTx + 1].status = "none"
      BY <1>7 DEF Insert, Inv, TypeOK, TxIds, RowOK
    <2>2. PICK n : n = lastTx + 1
      OBVIOUS
    <2>3. txs' = [txs EXCEPT ![n] = r] /\ n \in TxIds /\ txs[n].status = "none"
      BY <1>7, <2>1, <2>2 DEF Insert
    <2> QED
      BY <1>1, <1>2, <1>7, <2>3, HiddenRow
  <1>8. CASE CreateTx(w)
    BY <1>7, <1>8 DEF CreateTx
  <1>9. CASE CreateUnexpected(w)
    BY <1>3, <1>7, <1>9 DEF CreateUnexpected
  <1> QED
    BY <1>3, <1>5, <1>6, <1>8, <1>9

LEMMA RefWorker ==
    ASSUME OneAtATime, Inv, SInv, NEW w \in Workers, Step(w)
    PROVE  Promise!Next \/ UNCHANGED Promise!vars
  <1>1. ~Abort(w)
    BY DEF Abort, OneAtATime
  <1>2. CASE UNCHANGED <<pay, txs, ledger, chain>>
    BY <1>2, HiddenMove
  <1>3. ASSUME NEW h \in Hashes, StartWebhook(w, h) PROVE UNCHANGED <<pay, txs, ledger, chain>>
    BY <1>3 DEF StartWebhook
  <1>4. ASSUME NEW t \in TxIds, StartDiscover(w, t) \/ StartCheck(w, t)
        PROVE  UNCHANGED <<pay, txs, ledger, chain>>
    BY <1>4 DEF StartDiscover, StartCheck
  <1>5. ASSUME NEW k \in Tickers, StartMethod(w, k) PROVE UNCHANGED <<pay, txs, ledger, chain>>
    BY <1>5 DEF StartMethod
  <1>6. ASSUME \/ Unexpected(w) \/ Candidate(w) \/ Reload(w) \/ Receipt(w) \/ ConfirmRead(w)
               \/ StartExpire(w) \/ Latest(w) \/ Observe(w) \/ StartLock(w) \/ Method(w)
        PROVE  UNCHANGED <<pay, txs, ledger, chain>>
    BY <1>6 DEF Unexpected, Candidate, Reload, Receipt, ConfirmRead, StartExpire, Latest,
       Observe, StartLock, Method
  <1>7. ASSUME \/ ReleaseLock(w) \/ AcquireLock(w) \/ Current(w) \/ FreshWallet(w) \/ Refused(w)
        PROVE  UNCHANGED <<pay, txs, ledger, chain>>
    BY <1>7 DEF ReleaseLock, AcquireLock, Current, FreshWallet, Refused
  <1>8. CASE Receive(w) \/ CancelTx(w) \/ CreateTx(w) \/ CreateUnexpected(w)
    BY <1>8, RefHidden
  <1>9. CASE ConfirmWrite(w)
    BY <1>9, RefBook DEF Promise!Next
  <1>10. CASE \/ LockWrite(w) \/ MarkInProgress(w) \/ MarkConfirmed(w) \/ FailPayment(w)
    BY <1>10, RefLock, RefNotice, RefSettle DEF Promise!Next
  <1> QED
    BY <1>1, <1>2, <1>3, <1>4, <1>5, <1>6, <1>7, <1>8, <1>9, <1>10 DEF Step

LEMMA RefWorld ==
    ASSUME Inv, \/ AssignCustomer
                \/ \E t \in TxIds : ShowAddress(t)
                \/ \E h \in Hashes :
                     \/ \E wt \in Wallets, k \in Tickers, a \in DepositAmounts :
                           Deposit(h, wt, k, a)
                     \/ \E r \in {"success", "reverted"} : Finalize(h, r)
    PROVE  Promise!Next \/ UNCHANGED Promise!vars
  <1>1. CASE AssignCustomer \/ \E t \in TxIds : ShowAddress(t)
    BY <1>1, HiddenMove DEF AssignCustomer, ShowAddress
  <1>2. ASSUME NEW h \in Hashes,
               \/ \E wt \in Wallets, k \in Tickers, a \in DepositAmounts : Deposit(h, wt, k, a)
               \/ \E r \in {"success", "reverted"} : Finalize(h, r)
        PROVE  Promise!Next
    <2>1. UNCHANGED <<pay, txs, ledger>>
      BY <1>2 DEF Deposit, Finalize
    <2>2. \A g \in Hashes : chain[g].state = "success" => chain'[g] = chain[g]
      BY <1>2 DEF Deposit, Finalize, Inv, TypeOK
    <2> QED
      BY <2>1, <2>2, RefChain DEF Promise!Next
  <1> QED
    BY <1>1, <1>2

\* One job after the other, IncomingPayment implements PaymentPromise: every confirmed
\* deposit is booked once, at most one pays the merchant, with the books and while the
\* payment is in progress, and the payment is settled once, as a success exactly if
\* the merchant was paid.
THEOREM PromiseIsKept == OneAtATime => (Spec => KeepsPromise)
  <1> SUFFICES ASSUME OneAtATime PROVE Spec => KeepsPromise
    OBVIOUS
  <1>1. Init => Promise!Init
    BY DEF Init, Promise!Init, PaymentTxs, Confirmed, NoRow, NoDeposit
  <1>2. Inv /\ SInv /\ [Next]_vars => [Promise!Next]_(Promise!vars)
    <2> SUFFICES ASSUME Inv, SInv, [Next]_vars PROVE Promise!Next \/ UNCHANGED Promise!vars
      OBVIOUS
    <2>1. CASE UNCHANGED vars
      BY <2>1, HiddenMove DEF vars, ledger
    <2>2. CASE Next
      BY <2>2, RefWorker, RefWorld DEF Next
    <2> QED
      BY <2>1, <2>2
  <1> QED
    BY <1>1, <1>2, SerialInvariant, PTL DEF Spec, KeepsPromise, Promise!Spec

=============================================================================
