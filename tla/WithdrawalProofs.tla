-------------------------- MODULE WithdrawalProofs --------------------------
(***************************************************************************)
(* What Withdrawal guarantees for any number of workers, overlaps, errors  *)
(* and crashes, proved from one inductive invariant.  It says which row    *)
(* and which verdict of the chain a worker may rely on at each step: a row *)
(* never changes its withdrawal, the chain never takes a verdict back, and *)
(* a transaction is sent by the one worker that signed it.                 *)
(*                                                                         *)
(* The books, with one job at a time: each transaction has moved or not    *)
(* moved its amount and its fee, by its status and by where its worker is, *)
(* and the sum of that over all transactions is what the balances lack.    *)
(***************************************************************************)
EXTENDS Withdrawal, TableTheorems, TLAPS

Executing == {"confirmNonce", "confirmRead", "confirmWrite", "markSuccess"}
Reverting == {"cancelNonce", "chargeFee", "cancelTx", "restore"}
Sending == {"decrement", "broadcast"}
WithTx == {"setHash", "markInProgress", "undoTx", "undoBalances", "receipt"}
              \cup Executing \cup Reverting \cup Sending
BeforeTx == {"merchant", "nonce", "createTx"}

\* Row t exists and belongs to withdrawal p.
Belongs(t, p) == t \in TxIds /\ t <= lastTx /\ txs[t].pay = p

LocalOK(l) ==
    /\ l.pc # "idle" => l.pay \in Withdrawals
    /\ l.pc \in BeforeTx => l.tx = 0
    /\ l.pc \in WithTx => Belongs(l.tx, l.pay)
    /\ l.pc = "undoNonce" => l.tx = 0 \/ Belongs(l.tx, l.pay)
    /\ l.pc \in Executing => chain[l.tx].state = "success"
    /\ l.pc \in Reverting => chain[l.tx].state = "reverted"
    /\ l.pc \in Sending => chain[l.tx].state = "unsent"

RowOK(t) ==
    /\ t <= lastTx => txs[t].pay \in Withdrawals
    /\ t > lastTx => txs[t].status = "none" /\ chain[t].state = "unsent"

\* Two workers never send the same transaction.
OneSender ==
    \A v, w \in Workers :
        v # w /\ work[v].pc \in Sending /\ work[w].pc \in Sending => work[v].tx # work[w].tx

Inv ==
    /\ TypeOK
    /\ \A t \in TxIds : RowOK(t)
    /\ \A w \in Workers : LocalOK(work[w])
    /\ OneSender
    /\ RecordedAsExecuted
    /\ SuccessIsTransferred

USE ConstantsAssumption

-----------------------------------------------------------------------------
\* Rows keep their withdrawal and the chain its verdicts.
Grow ==
    /\ lastTx <= lastTx'
    /\ \A t \in TxIds :
         /\ t <= lastTx => txs'[t].pay = txs[t].pay
         /\ chain[t].state \in {"success", "reverted"} => chain'[t].state = chain[t].state

\* The transactions that workers are about to send are still unsent.
Unspoiled(l) == l.pc \in Sending => chain'[l.tx].state = "unsent"

\* What a worker knows outlives the steps of the others.
LEMMA LocalStable ==
    ASSUME NEW l, LocalOK(l), Grow, Unspoiled(l), TypeOK, TypeOK'
    PROVE  LocalOK(l)'
  <1>1. ASSUME Belongs(l.tx, l.pay) PROVE Belongs(l.tx, l.pay)'
    BY <1>1 DEF Belongs, Grow, TypeOK, TxIds
  <1>2. l.pc \in Executing \cup Reverting => l.tx \in TxIds
    BY DEF LocalOK, Belongs, WithTx
  <1> QED
    BY <1>1, <1>2 DEF LocalOK, Grow, Unspoiled

\* What is left to show of a step.
LEMMA Preserve ==
    ASSUME Inv, TypeOK', (\A t \in TxIds : RowOK(t))', Grow,
           \A v \in Workers : (work'[v] = work[v] /\ Unspoiled(work[v])) \/ LocalOK(work[v])',
           OneSender', RecordedAsExecuted',
           \A p \in Withdrawals : pay'[p] = "success" => pay[p] = "success" \/ Transferred(p) # {}
    PROVE  Inv'
  <1>1. ASSUME NEW v \in Workers PROVE LocalOK(work[v])'
    <2>1. CASE work'[v] = work[v] /\ Unspoiled(work[v])
      <3>1. LocalOK(work'[v])
        BY <2>1 DEF Inv
      <3> QED
        BY <2>1, <3>1, LocalStable DEF Inv
    <2> QED
      BY <2>1
  <1>2. SuccessIsTransferred'
    <2> SUFFICES ASSUME NEW p \in Withdrawals, pay'[p] = "success"
                 PROVE  \E t \in TxIds : txs'[t].pay = p /\ chain'[t].state = "success"
      BY DEF SuccessIsTransferred, Transferred, TxsOf
    <2>1. PICK t \in TxIds : txs[t].pay = p /\ chain[t].state = "success"
      BY DEF Inv, SuccessIsTransferred, Transferred, TxsOf
    <2>2. t <= lastTx
      BY <2>1, SMTT(30) DEF Inv, RowOK, TypeOK, TxIds
    <2> QED
      BY <2>1, <2>2 DEF Grow
  <1> QED
    BY <1>1, <1>2 DEF Inv

core == <<txs, lastTx, chain>>

\* A step that leaves rows and chain alone and moves one worker.
LEMMA MoveStep ==
    ASSUME Inv, TypeOK', UNCHANGED core, NEW w \in Workers,
           \A v \in Workers : v # w => work'[v] = work[v],
           LocalOK(work'[w]),
           work'[w].pc \in Sending => work[w].pc \in Sending /\ work'[w].tx = work[w].tx,
           \A p \in Withdrawals : pay'[p] = "success" => pay[p] = "success" \/ Transferred(p) # {}
    PROVE  Inv'
  <1>1. Grow
    BY DEF Grow, core, Inv, TypeOK
  <1>2. \A t \in TxIds : RowOK(t)'
    BY DEF Inv, RowOK, core
  <1>3. ASSUME NEW v \in Workers
        PROVE  (work'[v] = work[v] /\ Unspoiled(work[v])) \/ LocalOK(work[v])'
    <2>1. CASE v = w
      BY <2>1 DEF LocalOK, core, Belongs
    <2>2. CASE v # w
      BY <2>2 DEF Unspoiled, core, Inv, LocalOK
    <2> QED
      BY <2>1, <2>2
  <1>4. OneSender'
    BY DEF Inv, OneSender
  <1>5. RecordedAsExecuted'
    BY DEF Inv, RecordedAsExecuted, core
  <1> QED
    BY <1>1, <1>2, <1>3, <1>4, <1>5, Preserve

\* ... of which most only move the program counter, or end.
LEMMA PlainStep ==
    ASSUME Inv, NEW w \in Workers, UNCHANGED core, TypeOK',
           \A p \in Withdrawals : pay'[p] = "success" => pay[p] = "success" \/ Transferred(p) # {},
           \/ End(w)
           \/ \E q \in (CreateSteps \cup CheckSteps) \ Sending :
                /\ Goto(w, q)
                /\ LocalOK([work[w] EXCEPT !.pc = q])
    PROVE  Inv'
  <1>1. CASE End(w)
    <2>1. work'[w] = Idle /\ \A v \in Workers : v # w => work'[v] = work[v]
      BY <1>1 DEF End, Inv, TypeOK
    <2>2. LocalOK(Idle) /\ Idle.pc \notin Sending
      BY DEF LocalOK, Idle, BeforeTx, WithTx, Executing, Reverting, Sending
    <2> QED
      BY <2>1, <2>2, MoveStep
  <1>2. ASSUME NEW q \in (CreateSteps \cup CheckSteps) \ Sending, Goto(w, q),
               LocalOK([work[w] EXCEPT !.pc = q])
        PROVE  Inv'
    <2>1. work'[w] = [work[w] EXCEPT !.pc = q] /\ \A v \in Workers : v # w => work'[v] = work[v]
      BY <1>2 DEF Goto, Inv, TypeOK
    <2>2. work'[w].pc = q
      BY <2>1 DEF Inv, TypeOK, Local
    <2> QED
      BY <1>2, <2>1, <2>2, MoveStep
  <1> QED
    BY <1>1, <1>2

LEMMA StillStep ==
    ASSUME Inv, TypeOK', UNCHANGED <<core, work>>,
           \A p \in Withdrawals : pay'[p] = "success" => pay[p] = "success" \/ Transferred(p) # {}
    PROVE  Inv'
  <1>1. Grow
    BY DEF Grow, core, Inv, TypeOK
  <1>2. \A t \in TxIds : RowOK(t)'
    BY DEF Inv, RowOK, core
  <1>3. \A v \in Workers : work'[v] = work[v] /\ Unspoiled(work[v])
    BY DEF Unspoiled, core, Inv, LocalOK
  <1>4. OneSender' /\ RecordedAsExecuted'
    BY DEF Inv, OneSender, RecordedAsExecuted, core
  <1> QED
    BY <1>1, <1>2, <1>3, <1>4, Preserve

LEMMA IdleType == Idle \in Local /\ Idle.tx = 0
  BY DEF Idle, Local

\* Types of a worker's variables.
LEMMA MoveType ==
    ASSUME TypeOK, NEW w \in Workers
    PROVE  /\ End(w) => work' \in [Workers -> Local]
           /\ \A q \in CreateSteps \cup CheckSteps : Goto(w, q) => work' \in [Workers -> Local]
  <1>1. Idle \in Local
    BY DEF Idle, Local
  <1>2. \A q \in CreateSteps \cup CheckSteps : [work[w] EXCEPT !.pc = q] \in Local
    BY DEF TypeOK, Local
  <1>3. work \in [Workers -> Local]
    BY DEF TypeOK
  <1>4. End(w) => work' \in [Workers -> Local]
    BY <1>1, <1>3 DEF End
  <1>5. ASSUME NEW q \in CreateSteps \cup CheckSteps, Goto(w, q)
        PROVE  work' \in [Workers -> Local]
    <2>1. work' = [work EXCEPT ![w] = [work[w] EXCEPT !.pc = q]]
      BY <1>3, <1>5 DEF Goto
    <2>2. [work[w] EXCEPT !.pc = q] \in Local
      BY <1>2
    <2> QED
      BY <1>3, <2>1, <2>2
  <1> QED
    BY <1>4, <1>5

\* Types of the balances.
LEMMA LedgerType ==
    ASSUME TypeOK, NEW p \in Withdrawals
    PROVE  /\ GiveBack(p) => /\ merchantBalance' \in [Tickers -> Nat]
                             /\ walletBalance' \in [Tickers -> Nat]
           /\ Take(p) /\ merchantBalance[TickerOf[p]] >= Cost(p)
                      /\ walletBalance[TickerOf[p]] >= AmountOf[p]
                => /\ merchantBalance' \in [Tickers -> Nat]
                   /\ walletBalance' \in [Tickers -> Nat]
           /\ \A f \in Nat : ChargeFee(f) => walletBalance' \in [Tickers -> Nat]
  <1>1. TickerOf[p] \in Tickers /\ AmountOf[p] \in Nat /\ Cost(p) \in Nat
    BY DEF Cost
  <1> QED
    BY <1>1 DEF TypeOK, GiveBack, Take, ChargeFee, Cost

-----------------------------------------------------------------------------
(* One lemma per action *)

LEMMA AskStep ==
    ASSUME Inv, NEW p \in Withdrawals, Ask(p) \/ CreateWithdrawal(p)
    PROVE  Inv'
  <1>1. TypeOK'
    BY DEF Inv, TypeOK, Ask, CreateWithdrawal, PayStatus, ledger, counters
  <1>2. UNCHANGED <<core, work>>
    BY DEF Ask, CreateWithdrawal, core
  <1>3. \A q \in Withdrawals : pay'[q] = "success" => pay[q] = "success"
    BY DEF Ask, CreateWithdrawal, Inv, TypeOK
  <1> QED
    BY <1>1, <1>2, <1>3, StillStep

LEMMA StartCreateStep ==
    ASSUME Inv, NEW w \in Workers, NEW p \in Withdrawals, StartCreate(w, p)
    PROVE  Inv'
  <1> DEFINE l == [Idle EXCEPT !.pc = "merchant", !.pay = p, !.seen = walletBalance[TickerOf[p]]]
  <1>1. work' = [work EXCEPT ![w] = l]
    BY DEF StartCreate, Begin
  <1>2. l \in Local /\ l.pc = "merchant" /\ l.pay = p /\ l.tx = 0
    <2>1. walletBalance[TickerOf[p]] \in Nat
      BY DEF Inv, TypeOK
    <2> QED
      BY <2>1, IdleType DEF Local, CreateSteps
  <1> HIDE DEF l
  <1>3. TypeOK'
    BY <1>1, <1>2 DEF Inv, TypeOK, StartCreate, ledger, counters
  <1>4. work'[w] = l /\ \A v \in Workers : v # w => work'[v] = work[v]
    BY <1>1 DEF Inv, TypeOK
  <1>5. LocalOK(l) /\ l.pc \notin Sending
    BY <1>2 DEF LocalOK, WithTx, Executing, Reverting, Sending
  <1>6. UNCHANGED <<core, pay>>
    BY DEF StartCreate, core
  <1> QED
    BY <1>3, <1>4, <1>5, <1>6, MoveStep

LEMMA StartCheckStep ==
    ASSUME Inv, NEW w \in Workers, NEW t \in TxIds, StartCheck(w, t)
    PROVE  Inv'
  <1> DEFINE l == [Idle EXCEPT !.pc = "receipt", !.pay = txs[t].pay, !.tx = t]
  <1>1. work' = [work EXCEPT ![w] = l]
    BY DEF StartCheck, Begin
  <1>2. t <= lastTx /\ txs[t].pay \in Withdrawals
    BY DEF Inv, RowOK, StartCheck, TypeOK, TxIds
  <1>3. l \in Local /\ l.pc = "receipt" /\ l.pay = txs[t].pay /\ l.tx = t
    <2>1. t \in 0..MaxTx
      BY DEF TxIds
    <2> QED
      BY <1>2, <2>1, IdleType DEF Local, CheckSteps
  <1> HIDE DEF l
  <1>4. TypeOK'
    BY <1>1, <1>3 DEF Inv, TypeOK, StartCheck, ledger, counters
  <1>5. work'[w] = l /\ \A v \in Workers : v # w => work'[v] = work[v]
    BY <1>1 DEF Inv, TypeOK
  <1>6. LocalOK(l) /\ l.pc \notin Sending
    BY <1>2, <1>3 DEF LocalOK, BeforeTx, WithTx, Executing, Reverting, Sending, Belongs
  <1>7. UNCHANGED <<core, pay>>
    BY DEF StartCheck, core
  <1> QED
    BY <1>4, <1>5, <1>6, <1>7, MoveStep

LEMMA CheckBalancesStep ==
    ASSUME Inv, NEW w \in Workers, CheckBalances(w)
    PROVE  Inv'
  <1>1. End(w) \/ Goto(w, "failPayment") \/ Goto(w, "nonce")
    BY DEF CheckBalances
  <1>2. TypeOK'
    BY <1>1, MoveType DEF Inv, TypeOK, CheckBalances, ledger, counters, CreateSteps
  <1>3. LocalOK([work[w] EXCEPT !.pc = "failPayment"]) /\ LocalOK([work[w] EXCEPT !.pc = "nonce"])
    BY DEF Inv, TypeOK, Local, CheckBalances, At, LocalOK, BeforeTx, WithTx, Executing, Reverting, Sending
  <1>4. UNCHANGED <<core, pay>>
    BY DEF CheckBalances, core
  <1> QED
    BY <1>1, <1>2, <1>3, <1>4, PlainStep DEF CreateSteps, Sending

LEMMA TakeNonceStep ==
    ASSUME Inv, NEW w \in Workers, TakeNonce(w)
    PROVE  Inv'
  <1> DEFINE l == [work[w] EXCEPT !.pc = "createTx", !.nonce = confirmed + pending]
  <1>1. work' = [work EXCEPT ![w] = l]
    BY DEF TakeNonce, Inv, TypeOK
  <1>2. l \in Local /\ l.pc = "createTx" /\ l.pay = work[w].pay /\ l.tx = work[w].tx
    <2>1. work[w] \in Local /\ confirmed + pending \in Nat
      BY DEF Inv, TypeOK
    <2> QED
      BY <2>1 DEF Local, CreateSteps
  <1> HIDE DEF l
  <1>3. TypeOK'
    <2>1. work' \in [Workers -> Local]
      BY <1>1, <1>2 DEF Inv, TypeOK
    <2> QED
      BY <2>1 DEF Inv, TypeOK, TakeNonce, ledger
  <1>4. work'[w] = l /\ \A v \in Workers : v # w => work'[v] = work[v]
    BY <1>1 DEF Inv, TypeOK
  <1>5. LocalOK(l) /\ l.pc \notin Sending
    BY <1>2 DEF Inv, TakeNonce, At, LocalOK, BeforeTx, WithTx, Executing, Reverting, Sending
  <1>6. UNCHANGED <<core, pay>>
    BY DEF TakeNonce, core
  <1> QED
    BY <1>3, <1>4, <1>5, <1>6, MoveStep

LEMMA CreateTxStep ==
    ASSUME Inv, NEW w \in Workers, CreateTx(w)
    PROVE  Inv'
  <1> DEFINE t == lastTx + 1
             l == [work[w] EXCEPT !.pc = "decrement", !.tx = t]
  <1>1. t \in TxIds /\ t \in 0..MaxTx /\ lastTx \in 0..MaxTx /\ work[w] \in Local
    BY DEF CreateTx, Inv, TypeOK, TxIds
  <1>2. work[w].pay \in Withdrawals /\ work[w].nonce \in Nat
    BY <1>1 DEF CreateTx, At, Inv, LocalOK, Local
  <1>3. /\ work' = [work EXCEPT ![w] = l]
        /\ txs' = [txs EXCEPT ![t] = [status |-> "pending", pay |-> work[w].pay, hash |-> FALSE]]
        /\ chain' = [chain EXCEPT ![t] = [chain[t] EXCEPT !.nonce = work[w].nonce]]
        /\ lastTx' = t
        /\ pay' = pay
    BY <1>1 DEF CreateTx, Inv, TypeOK
  <1>4. l \in Local /\ l.pc = "decrement" /\ l.pay = work[w].pay /\ l.tx = t
    BY <1>1 DEF Local, CreateSteps
  <1>5. chain[t] \in OnChain /\ chain[t].state = "unsent" /\ txs[t].status = "none"
    BY <1>1 DEF Inv, TypeOK, RowOK
  <1>6. /\ [chain[t] EXCEPT !.nonce = work[w].nonce] \in OnChain
        /\ [chain[t] EXCEPT !.nonce = work[w].nonce].state = "unsent"
    BY <1>2, <1>5 DEF OnChain
  <1> DEFINE c == [chain[t] EXCEPT !.nonce = work[w].nonce]
             r == [status |-> "pending", pay |-> work[w].pay, hash |-> FALSE]
  <1>7. r \in Row /\ r.pay = work[w].pay /\ r.status = "pending"
    BY <1>2 DEF Row, TxStatus
  <1>8. /\ work' = [work EXCEPT ![w] = l] /\ txs' = [txs EXCEPT ![t] = r]
        /\ chain' = [chain EXCEPT ![t] = c] /\ c \in OnChain /\ c.state = "unsent"
    BY <1>3, <1>6
  <1> HIDE DEF l, c, r
  <1>9. TypeOK'
    <2>1. txs' \in [TxIds -> Row]
      BY <1>7, <1>8 DEF Inv, TypeOK
    <2>2. chain' \in [TxIds -> OnChain]
      BY <1>8 DEF Inv, TypeOK
    <2>3. work' \in [Workers -> Local]
      BY <1>4, <1>8 DEF Inv, TypeOK
    <2>4. UNCHANGED <<pay, asked, ledger, counters>>
      BY DEF CreateTx
    <2> QED
      BY <1>1, <1>3, <2>1, <2>2, <2>3, <2>4 DEF Inv, TypeOK, ledger, counters
  <1>10. /\ \A u \in TxIds : u # t => txs'[u] = txs[u] /\ chain'[u] = chain[u]
         /\ txs'[t] = r /\ chain'[t] = c
         /\ \A v \in Workers : v # w => work'[v] = work[v]
         /\ work'[w] = l
    BY <1>1, <1>8 DEF Inv, TypeOK
  <1>11. \A u \in TxIds : RowOK(u)'
    BY <1>1, <1>2, <1>3, <1>7, <1>10, SMTT(30) DEF Inv, RowOK, TxIds
  <1>12. Grow
    BY <1>1, <1>3, <1>5, <1>10 DEF Grow, TxIds
  <1>13. LocalOK(work[w])'
    <2> t <= lastTx'
      BY <1>1, <1>3
    <2> HIDE DEF t
    <2>1. /\ work'[w].pc = "decrement" /\ work'[w].pay \in Withdrawals
          /\ work'[w].tx \in TxIds /\ work'[w].tx <= lastTx'
          /\ txs'[work'[w].tx].pay = work'[w].pay /\ chain'[work'[w].tx].state = "unsent"
      BY <1>1, <1>2, <1>3, <1>4, <1>7, <1>8, <1>10
    <2> QED
      BY <2>1 DEF LocalOK, BeforeTx, WithTx, Executing, Reverting, Sending, Belongs
  <1>14. ASSUME NEW v \in Workers, v # w
         PROVE  /\ work'[v] = work[v] /\ Unspoiled(work[v])
                /\ work[v].pc \in Sending => work[v].tx # t
    BY <1>1, <1>8, <1>10, <1>14 DEF Unspoiled, Inv, LocalOK, WithTx, Belongs, TypeOK
  <1>15. OneSender'
    BY <1>4, <1>10, <1>14 DEF Inv, OneSender
  <1>16. RecordedAsExecuted'
    BY <1>7, <1>10 DEF Inv, RecordedAsExecuted
  <1> QED
    BY <1>3, <1>9, <1>11, <1>12, <1>13, <1>14, <1>15, <1>16, Preserve

LEMMA DecrementStep ==
    ASSUME Inv, NEW w \in Workers, Decrement(w)
    PROVE  Inv'
  <1> DEFINE p == work[w].pay
             poor == [work[w] EXCEPT !.pc = "undoNonce", !.mark = TRUE]
             done == [work[w] EXCEPT !.pc = "broadcast", !.moved = TRUE]
  <1>1. work[w] \in Local /\ p \in Withdrawals /\ Belongs(work[w].tx, p)
        /\ chain[work[w].tx].state = "unsent" /\ work[w].pc = "decrement"
    BY DEF Decrement, At, Inv, TypeOK, LocalOK, WithTx, Sending
  <1>2. poor \in Local /\ poor.pc = "undoNonce" /\ poor.pay = p /\ poor.tx = work[w].tx
    BY <1>1 DEF Local, CreateSteps
  <1>3. done \in Local /\ done.pc = "broadcast" /\ done.pay = p /\ done.tx = work[w].tx
    BY <1>1 DEF Local, CreateSteps
  <1>4. LocalOK(poor) /\ LocalOK(done) /\ LocalOK([work[w] EXCEPT !.pc = "undoNonce"])
    <2>1. LocalOK(poor)
      BY <1>1, <1>2 DEF LocalOK, BeforeTx, WithTx, Executing, Reverting, Sending
    <2>2. LocalOK(done)
      BY <1>1, <1>3 DEF LocalOK, BeforeTx, WithTx, Executing, Reverting, Sending
    <2>3. LocalOK([work[w] EXCEPT !.pc = "undoNonce"])
      BY <1>1 DEF LocalOK, BeforeTx, WithTx, Executing, Reverting, Sending, Local
    <2> QED
      BY <2>1, <2>2, <2>3
  <1>5. UNCHANGED <<core, pay>>
    BY DEF Decrement, core
  <1>6. CASE work' = [work EXCEPT ![w].pc = "undoNonce", ![w].mark = TRUE] /\ UNCHANGED ledger
    <2>1. work' = [work EXCEPT ![w] = poor]
      BY <1>6 DEF Inv, TypeOK
    <2> HIDE DEF poor
    <2>2. work'[w] = poor /\ \A v \in Workers : v # w => work'[v] = work[v]
      BY <2>1 DEF Inv, TypeOK
    <2>3. TypeOK'
      BY <1>2, <1>6, <2>1 DEF Inv, TypeOK, Decrement, counters, ledger
    <2> QED
      BY <1>2, <1>4, <1>5, <2>2, <2>3, MoveStep DEF Sending
  <1>7. CASE Goto(w, "undoNonce") /\ UNCHANGED ledger
    <2>1. TypeOK'
      BY <1>7, MoveType DEF Inv, TypeOK, Decrement, ledger, counters, CreateSteps
    <2> QED
      BY <1>4, <1>5, <1>7, <2>1, PlainStep DEF CreateSteps, Sending
  <1>8. CASE /\ merchantBalance[TickerOf[p]] >= Cost(p) /\ walletBalance[TickerOf[p]] >= AmountOf[p]
             /\ Take(p)
             /\ work' = [work EXCEPT ![w].pc = "broadcast", ![w].moved = TRUE]
    <2>1. work' = [work EXCEPT ![w] = done]
      BY <1>8 DEF Inv, TypeOK
    <2> HIDE DEF done
    <2>2. work'[w] = done /\ \A v \in Workers : v # w => work'[v] = work[v]
      BY <2>1 DEF Inv, TypeOK
    <2>3. merchantBalance' \in [Tickers -> Nat] /\ walletBalance' \in [Tickers -> Nat]
      BY <1>1, <1>8, LedgerType DEF Inv
    <2>4. TypeOK'
      BY <1>3, <2>1, <2>3 DEF Inv, TypeOK, Decrement, counters
    <2> QED
      BY <1>1, <1>3, <1>4, <1>5, <2>2, <2>4, MoveStep DEF Sending
  <1> QED
    BY <1>6, <1>7, <1>8 DEF Decrement

\* A transaction taken by the nodes harms none that is unsent, and no verdict.
LEMMA AcceptChain ==
    ASSUME Inv, NEW t \in TxIds, Accept(t), chain[t].state = "unsent"
    PROVE  /\ chain' \in [TxIds -> OnChain]
           /\ \A u \in TxIds : u # t /\ chain[u].state = "unsent" => chain'[u] = chain[u]
           /\ \A u \in TxIds : chain[u].state \in {"success", "reverted"} => chain'[u] = chain[u]
  <1>1. \A u \in TxIds : chain[u] \in OnChain
    BY DEF Inv, TypeOK
  <1>2. \A u \in TxIds : /\ [chain[u] EXCEPT !.state = "pool"] \in OnChain
                         /\ [chain[u] EXCEPT !.state = "dropped"] \in OnChain
    BY <1>1 DEF OnChain
  <1>3. chain' \in [TxIds -> OnChain]
    BY <1>1, <1>2 DEF Accept
  <1>4. \A u \in TxIds : u # t /\ u \notin Rivals(t) => chain'[u] = chain[u]
    BY DEF Accept
  <1>5. \A u \in TxIds : chain[u].state = "unsent" => u \notin Rivals(t)
    BY DEF Rivals
  <1>6. \A u \in TxIds : chain[u].state \in {"success", "reverted"} => u # t /\ u \notin Rivals(t)
    BY DEF Accept
  <1> QED
    BY <1>3, <1>4, <1>5, <1>6

LEMMA BroadcastStep ==
    ASSUME Inv, NEW w \in Workers, Broadcast(w)
    PROVE  Inv'
  <1> DEFINE t == work[w].tx
             p == work[w].pay
  <1>1. work[w] \in Local /\ p \in Withdrawals /\ Belongs(t, p)
        /\ chain[t].state = "unsent" /\ work[w].pc = "broadcast" /\ t \in TxIds /\ t <= lastTx
    BY DEF Broadcast, At, Inv, TypeOK, LocalOK, WithTx, Sending, Belongs
  <1>2. LocalOK([work[w] EXCEPT !.pc = "undoNonce"]) /\ LocalOK([work[w] EXCEPT !.pc = "setHash"])
    BY <1>1 DEF LocalOK, BeforeTx, WithTx, Executing, Reverting, Sending, Local
  <1>3. UNCHANGED <<pay, asked, txs, lastTx, ledger, counters>>
    BY DEF Broadcast
  <1>4. ASSUME Accept(t), NEW q \in {"setHash", "undoNonce"}, Goto(w, q)
        PROVE  Inv'
    <2>1. TypeOK'
      BY <1>1, <1>3, <1>4, AcceptChain, MoveType
      DEF Inv, TypeOK, ledger, counters, CreateSteps
    <2>2. Grow
      BY <1>1, <1>3, <1>4, AcceptChain DEF Grow, Inv, TypeOK
    <2>3. \A u \in TxIds : RowOK(u)'
      <3> SUFFICES ASSUME NEW u \in TxIds PROVE RowOK(u)'
        OBVIOUS
      <3>1. u > lastTx => u # t /\ chain[u].state = "unsent"
        BY <1>1 DEF Inv, RowOK, TypeOK, TxIds
      <3> QED
        BY <1>1, <1>3, <1>4, <3>1, AcceptChain DEF Inv, RowOK
    <2>4. work'[w] = [work[w] EXCEPT !.pc = q] /\ \A v \in Workers : v # w => work'[v] = work[v]
      BY <1>4 DEF Goto, Inv, TypeOK
    <2>5. work'[w].pc = q
      BY <1>1, <2>4 DEF Local
    <2>6. LocalOK(work[w])'
      <3> DEFINE l == [work[w] EXCEPT !.pc = q]
      <3>1. LocalOK(l)
        BY <1>2
      <3>2. l.pc = q
        BY <1>1 DEF Local
      <3>3. Unspoiled(l)
        BY <3>2 DEF Unspoiled, Sending
      <3>4. LocalOK(work'[w])
        BY <2>4, <3>1
      <3>5. Unspoiled(work'[w])
        BY <2>4, <3>3
      <3> QED
        BY <2>1, <2>2, <2>4, <3>4, <3>5, LocalStable DEF Inv
    <2>7. OneSender'
      BY <2>4, <2>5, ZenonT(40) DEF Inv, OneSender, Sending
    <2>8. RecordedAsExecuted'
      BY <1>1, <1>3, <1>4, AcceptChain DEF Inv, RecordedAsExecuted
    <2>9. ASSUME NEW v \in Workers, v # w
          PROVE  work'[v] = work[v] /\ Unspoiled(work[v])
      <3>1. work[v].pc \in Sending => work[v].tx # t /\ work[v].tx \in TxIds
                                       /\ chain[work[v].tx].state = "unsent"
        BY <1>1, <2>9 DEF Inv, OneSender, LocalOK, WithTx, Sending, Belongs
      <3> QED
        BY <1>1, <1>4, <2>4, <2>9, <3>1, AcceptChain DEF Unspoiled
    <2> QED
      BY <1>3, <2>1, <2>2, <2>3, <2>4, <2>6, <2>7, <2>8, <2>9, Preserve
  <1>5. CASE Goto(w, "undoNonce") /\ UNCHANGED chain
    <2>1. TypeOK'
      BY <1>3, <1>5, MoveType DEF Inv, TypeOK, ledger, counters, CreateSteps
    <2> QED
      BY <1>2, <1>3, <1>5, <2>1, PlainStep DEF CreateSteps, Sending, core
  <1>6. CASE work' = [work EXCEPT ![w].pc = "undoNonce", ![w].mark = TRUE] /\ UNCHANGED chain
    <2> DEFINE poor == [work[w] EXCEPT !.pc = "undoNonce", !.mark = TRUE]
    <2>1. poor \in Local /\ poor.pc = "undoNonce" /\ poor.pay = p /\ poor.tx = t
      BY <1>1 DEF Local, CreateSteps
    <2>2. work' = [work EXCEPT ![w] = poor]
      BY <1>6 DEF Inv, TypeOK
    <2> HIDE DEF poor
    <2>3. work'[w] = poor /\ \A v \in Workers : v # w => work'[v] = work[v]
      BY <2>2 DEF Inv, TypeOK
    <2>4. TypeOK'
      BY <1>3, <1>6, <2>1, <2>2, ZenonT(40) DEF Inv, TypeOK, counters, ledger
    <2>5. LocalOK(poor)
      BY <1>1, <2>1 DEF LocalOK, BeforeTx, WithTx, Executing, Reverting, Sending
    <2> QED
      BY <1>3, <1>6, <2>1, <2>3, <2>4, <2>5, MoveStep DEF Sending, core
  <1> QED
    BY <1>4, <1>5, <1>6 DEF Broadcast

\* A step that rewrites the status or the hash of rows and moves one worker.
LEMMA RowStep ==
    ASSUME Inv, NEW w \in Workers, TypeOK', UNCHANGED <<lastTx, chain, pay>>,
           \A t \in TxIds : /\ txs'[t].pay = txs[t].pay
                            /\ t > lastTx => txs'[t].status = txs[t].status,
           RecordedAsExecuted',
           \/ End(w)
           \/ \E q \in (CreateSteps \cup CheckSteps) \ Sending :
                /\ Goto(w, q)
                /\ LocalOK([work[w] EXCEPT !.pc = q])
    PROVE  Inv'
  <1>1. Grow
    BY DEF Grow, Inv, TypeOK
  <1>2. \A t \in TxIds : RowOK(t)'
    BY DEF Inv, RowOK
  <1>3. /\ \A v \in Workers : v # w => work'[v] = work[v]
        /\ LocalOK(work'[w]) /\ work'[w].pc \notin Sending
    <2>1. CASE End(w)
      <3>1. work'[w] = Idle /\ \A v \in Workers : v # w => work'[v] = work[v]
        BY <2>1 DEF End, Inv, TypeOK
      <3> QED
        BY <3>1 DEF LocalOK, Idle, BeforeTx, WithTx, Executing, Reverting, Sending
    <2>2. ASSUME NEW q \in (CreateSteps \cup CheckSteps) \ Sending, Goto(w, q),
                 LocalOK([work[w] EXCEPT !.pc = q])
          PROVE  <1>3!1 /\ <1>3!2
      <3>1. work'[w] = [work[w] EXCEPT !.pc = q] /\ \A v \in Workers : v # w => work'[v] = work[v]
        BY <2>2 DEF Goto, Inv, TypeOK
      <3>2. work'[w].pc = q
        BY <3>1 DEF Inv, TypeOK, Local
      <3> QED
        BY <2>2, <3>1, <3>2
    <2> QED
      BY <2>1, <2>2
  <1>4. Unspoiled(work'[w])
    BY <1>3 DEF Unspoiled
  <1>5. LocalOK(work[w])'
    BY <1>1, <1>3, <1>4, LocalStable DEF Inv
  <1>6. \A v \in Workers : v # w => work'[v] = work[v] /\ Unspoiled(work[v])
    BY <1>3 DEF Unspoiled, Inv, LocalOK
  <1>7. OneSender'
    BY <1>3 DEF Inv, OneSender
  <1> QED
    BY <1>1, <1>2, <1>5, <1>6, <1>7, Preserve

\* A new status, or the hash, of one row.
LEMMA RowType ==
    ASSUME TypeOK, NEW t \in TxIds, NEW s \in TxStatus,
           txs' = [txs EXCEPT ![t].status = s] \/ txs' = [txs EXCEPT ![t].hash = TRUE]
    PROVE  /\ txs' \in [TxIds -> Row]
           /\ \A u \in TxIds : /\ txs'[u].pay = txs[u].pay
                               /\ u # t => txs'[u].status = txs[u].status
           /\ txs' = [txs EXCEPT ![t].status = s] => txs'[t].status = s
           /\ txs' = [txs EXCEPT ![t].hash = TRUE] => txs'[t].status = txs[t].status
  <1>1. txs[t] \in Row /\ txs \in [TxIds -> Row]
    BY DEF TypeOK
  <1>2. [txs[t] EXCEPT !.status = s] \in Row /\ [txs[t] EXCEPT !.hash = TRUE] \in Row
    BY <1>1 DEF Row
  <1>3. \A u \in TxIds : u # t => txs'[u] = txs[u]
    BY <1>1
  <1>4. txs' = [txs EXCEPT ![t].status = s] => txs'[t] = [txs[t] EXCEPT !.status = s]
    BY <1>1
  <1>5. txs' = [txs EXCEPT ![t].hash = TRUE] => txs'[t] = [txs[t] EXCEPT !.hash = TRUE]
    BY <1>1
  <1>6. txs' \in [TxIds -> Row]
    BY <1>1, <1>2
  <1>7. /\ [txs[t] EXCEPT !.status = s].pay = txs[t].pay
        /\ [txs[t] EXCEPT !.status = s].status = s
        /\ [txs[t] EXCEPT !.hash = TRUE].pay = txs[t].pay
        /\ [txs[t] EXCEPT !.hash = TRUE].status = txs[t].status
    BY <1>1 DEF Row
  <1> QED
    BY <1>3, <1>4, <1>5, <1>6, <1>7

\* What a worker with a transaction knows of it.
LEMMA OwnRow ==
    ASSUME Inv, NEW w \in Workers, work[w].pc \in WithTx
    PROVE  /\ work[w] \in Local /\ work[w].pay \in Withdrawals /\ Belongs(work[w].tx, work[w].pay)
           /\ work[w].tx \in TxIds /\ work[w].tx <= lastTx /\ lastTx \in Nat
           /\ chain[work[w].tx].fee \in Nat
  <1>1. work[w] \in Local /\ lastTx \in Nat /\ LocalOK(work[w])
    BY DEF Inv, TypeOK
  <1>2. work[w].pc # "idle"
    BY DEF WithTx, Executing, Reverting, Sending
  <1>3. work[w].pay \in Withdrawals /\ Belongs(work[w].tx, work[w].pay)
    BY <1>1, <1>2 DEF LocalOK
  <1>4. chain[work[w].tx] \in OnChain
    BY <1>3 DEF Belongs, Inv, TypeOK
  <1>5. chain[work[w].tx].fee \in Nat
    <2>1. chain[work[w].tx].fee \in NetworkFees \cup {0}
      BY <1>4 DEF OnChain
    <2>2. NetworkFees \subseteq Nat
      BY DEF ConstantsAssumption
    <2>3. 0 \in Nat
      OBVIOUS
    <2> QED
      BY <2>1, <2>2, <2>3, Zenon
  <1> QED
    BY <1>1, <1>3, <1>5 DEF Belongs

LEMMA SetHashStep ==
    ASSUME Inv, NEW w \in Workers, SetHash(w)
    PROVE  Inv'
  <1>1. work[w].pc = "setHash" /\ work[w].pc \in WithTx
    BY DEF SetHash, At, WithTx
  <1>2. LocalOK([work[w] EXCEPT !.pc = "markInProgress"]) /\ Goto(w, "markInProgress")
    BY <1>1, OwnRow DEF SetHash, LocalOK, BeforeTx, WithTx, Executing, Reverting, Sending, Local
  <1>3. UNCHANGED <<pay, asked, lastTx, ledger, counters, chain>>
    BY DEF SetHash
  <1>4. txs' = txs \/ txs' = [txs EXCEPT ![work[w].tx].hash = TRUE]
    BY DEF SetHash
  <1>5. /\ txs' \in [TxIds -> Row]
        /\ \A u \in TxIds : txs'[u].pay = txs[u].pay /\ txs'[u].status = txs[u].status
    <2>1. CASE txs' = txs
      BY <2>1 DEF Inv, TypeOK
    <2>2. CASE txs' = [txs EXCEPT ![work[w].tx].hash = TRUE]
      <3>1. "pending" \in TxStatus /\ work[w].tx \in TxIds /\ TypeOK
        BY <1>1, OwnRow DEF TxStatus, Inv
      <3> QED
        BY <2>2, <3>1, RowType
    <2> QED
      BY <1>4, <2>1, <2>2
  <1>6. TypeOK'
    BY <1>2, <1>3, <1>5, MoveType DEF Inv, TypeOK, ledger, counters, CreateSteps
  <1>7. RecordedAsExecuted'
    BY <1>3, <1>5 DEF Inv, RecordedAsExecuted
  <1> QED
    BY <1>2, <1>3, <1>5, <1>6, <1>7, RowStep DEF CreateSteps, Sending

\* The worker's row gets a status that the chain justifies.
LEMMA StatusStep ==
    ASSUME Inv, NEW w \in Workers, work[w].pc \in WithTx, NEW s \in {"canceled", "completed", "failed"},
           txs' = [txs EXCEPT ![work[w].tx].status = s],
           s = "completed" => chain[work[w].tx].state = "success",
           s = "failed" => chain[work[w].tx].state = "reverted",
           UNCHANGED <<pay, asked, lastTx, merchantBalance, counters, chain>>,
           walletBalance' \in [Tickers -> Nat],
           \/ End(w)
           \/ \E q \in (CreateSteps \cup CheckSteps) \ Sending :
                /\ Goto(w, q)
                /\ LocalOK([work[w] EXCEPT !.pc = q])
    PROVE  Inv'
  <1>1. s \in TxStatus /\ work[w].tx \in TxIds /\ TypeOK
        /\ work[w].tx <= lastTx /\ lastTx \in Nat
    BY OwnRow DEF TxStatus, Inv
  <1>2. /\ txs' \in [TxIds -> Row]
        /\ \A u \in TxIds : /\ txs'[u].pay = txs[u].pay
                            /\ u # work[w].tx => txs'[u].status = txs[u].status
        /\ txs'[work[w].tx].status = s
    BY <1>1, RowType
  <1>3. work' \in [Workers -> Local]
    BY <1>1, MoveType
  <1>4. TypeOK'
    BY <1>2, <1>3 DEF Inv, TypeOK, counters
  <1>5. RecordedAsExecuted'
    BY <1>2 DEF Inv, RecordedAsExecuted
  <1>6. \A u \in TxIds : u > lastTx => u # work[w].tx
    BY <1>1 DEF TxIds
  <1> QED
    BY <1>2, <1>4, <1>5, <1>6, RowStep

LEMMA MarkInProgressStep ==
    ASSUME Inv, NEW w \in Workers, MarkInProgress(w) \/ FailPayment(w)
    PROVE  Inv'
  <1>1. work[w].pay \in Withdrawals
    BY DEF MarkInProgress, FailPayment, At, Inv, LocalOK
  <1>2. TypeOK'
    BY <1>1, MoveType DEF MarkInProgress, FailPayment, Inv, TypeOK, PayStatus, ledger, counters
  <1>3. UNCHANGED core /\ End(w)
    BY DEF MarkInProgress, FailPayment, core
  <1>4. \A p \in Withdrawals : pay'[p] = "success" => pay[p] = "success"
    BY DEF MarkInProgress, FailPayment, Inv, TypeOK
  <1> QED
    BY <1>2, <1>3, <1>4, PlainStep

LEMMA MarkSuccessStep ==
    ASSUME Inv, NEW w \in Workers, MarkSuccess(w)
    PROVE  Inv'
  <1>1. work[w].pc = "markSuccess" /\ work[w].pc \in WithTx
    BY DEF MarkSuccess, At, WithTx, Executing
  <1>2. work[w].pay \in Withdrawals /\ work[w].tx \in Transferred(work[w].pay)
    BY <1>1, OwnRow DEF Inv, LocalOK, Executing, Belongs, Transferred, TxsOf
  <1>3. TypeOK'
    BY <1>2, MoveType DEF MarkSuccess, Inv, TypeOK, PayStatus, ledger, counters
  <1>4. UNCHANGED core /\ End(w)
    BY DEF MarkSuccess, core
  <1>5. \A p \in Withdrawals : pay'[p] = "success" => pay[p] = "success" \/ Transferred(p) # {}
    BY <1>2 DEF MarkSuccess, Inv, TypeOK
  <1> QED
    BY <1>3, <1>4, <1>5, PlainStep

LEMMA ErrorStep ==
    ASSUME Inv, NEW w \in Workers, Error(w)
    PROVE  Inv'
  <1>1. Goto(w, "undoNonce") /\ work[w].pc \in {"createTx", "decrement", "broadcast", "markInProgress"}
    BY DEF Error
  <1>2. UNCHANGED <<pay, asked, txs, lastTx, ledger, counters, chain>>
    BY DEF Error
  <1>3. LocalOK([work[w] EXCEPT !.pc = "undoNonce"])
    BY <1>1 DEF Inv, TypeOK, Local, LocalOK, BeforeTx, WithTx, Executing, Reverting, Sending
  <1>4. TypeOK'
    BY <1>1, <1>2, MoveType DEF Inv, TypeOK, ledger, counters, CreateSteps
  <1> QED
    BY <1>1, <1>2, <1>3, <1>4, PlainStep DEF CreateSteps, Sending, core

LEMMA UndoNonceStep ==
    ASSUME Inv, NEW w \in Workers, UndoNonce(w)
    PROVE  Inv'
  <1>1. work[w].pc = "undoNonce" /\ UNCHANGED <<pay, asked, txs, lastTx, ledger, confirmed, chain>>
    BY DEF UndoNonce, At
  <1>2. End(w) \/ (work[w].tx # 0 /\ Goto(w, "undoTx"))
    BY DEF UndoNonce
  <1>3. pending' \in Nat
    BY DEF UndoNonce, Inv, TypeOK
  <1>4. TypeOK'
    BY <1>1, <1>2, <1>3, MoveType DEF Inv, TypeOK, ledger, CreateSteps
  <1>5. work[w].tx # 0 => LocalOK([work[w] EXCEPT !.pc = "undoTx"])
    BY <1>1 DEF Inv, TypeOK, Local, LocalOK, BeforeTx, WithTx, Executing, Reverting, Sending
  <1> QED
    BY <1>1, <1>2, <1>4, <1>5, PlainStep DEF CreateSteps, Sending, core

LEMMA UndoTxStep ==
    ASSUME Inv, NEW w \in Workers, UndoTx(w)
    PROVE  Inv'
  <1>1. work[w].pc = "undoTx" /\ work[w].pc \in WithTx
    BY DEF UndoTx, At, WithTx
  <1>2. LocalOK([work[w] EXCEPT !.pc = "undoBalances"]) /\ LocalOK([work[w] EXCEPT !.pc = "failPayment"])
    BY <1>1, OwnRow DEF LocalOK, BeforeTx, WithTx, Executing, Reverting, Sending, Local
  <1>3. End(w) \/ Goto(w, "undoBalances") \/ Goto(w, "failPayment")
    <2>1. work[w].moved \in BOOLEAN /\ work[w].mark \in BOOLEAN
      BY <1>1, OwnRow DEF Local
    <2> QED
      BY <2>1 DEF UndoTx
  <1>4. /\ UNCHANGED <<pay, asked, lastTx, merchantBalance, counters, chain>>
        /\ walletBalance' \in [Tickers -> Nat]
        /\ txs' = [txs EXCEPT ![work[w].tx].status = "canceled"]
    BY DEF UndoTx, Inv, TypeOK, ledger
  <1> QED
    BY <1>1, <1>2, <1>3, <1>4, StatusStep DEF CreateSteps, Sending

LEMMA UndoBalancesStep ==
    ASSUME Inv, NEW w \in Workers, UndoBalances(w) \/ Restore(w)
    PROVE  Inv'
  <1>1. work[w].pc \in {"undoBalances", "restore"} /\ work[w].pc \in WithTx
    BY DEF UndoBalances, Restore, At, WithTx, Reverting
  <1>2. LocalOK([work[w] EXCEPT !.pc = "failPayment"])
    BY <1>1, OwnRow DEF LocalOK, BeforeTx, WithTx, Executing, Reverting, Sending, Local
  <1>3. End(w) \/ Goto(w, "failPayment")
    BY DEF UndoBalances, Restore
  <1>4. UNCHANGED <<pay, asked, txs, lastTx, counters, chain>> /\ GiveBack(work[w].pay)
    BY DEF UndoBalances, Restore
  <1>5. merchantBalance' \in [Tickers -> Nat] /\ walletBalance' \in [Tickers -> Nat]
    BY <1>1, <1>4, OwnRow, LedgerType DEF Inv
  <1>6. TypeOK'
    BY <1>3, <1>4, <1>5, MoveType DEF Inv, TypeOK, counters, CreateSteps
  <1> QED
    BY <1>2, <1>3, <1>4, <1>6, PlainStep DEF CreateSteps, Sending, core

LEMMA ReceiptStep ==
    ASSUME Inv, NEW w \in Workers, Receipt(w)
    PROVE  Inv'
  <1>1. work[w].pc = "receipt" /\ work[w].pc \in WithTx
    BY DEF Receipt, At, WithTx
  <1>2. UNCHANGED <<pay, asked, txs, lastTx, ledger, counters, chain>>
    BY DEF Receipt
  <1>3. \/ End(w)
        \/ chain[work[w].tx].state = "success" /\ Goto(w, "confirmNonce")
        \/ chain[work[w].tx].state = "reverted" /\ Goto(w, "cancelNonce")
    BY DEF Receipt
  <1>4. /\ chain[work[w].tx].state = "success" => LocalOK([work[w] EXCEPT !.pc = "confirmNonce"])
        /\ chain[work[w].tx].state = "reverted" => LocalOK([work[w] EXCEPT !.pc = "cancelNonce"])
    BY <1>1, OwnRow DEF LocalOK, BeforeTx, WithTx, Executing, Reverting, Sending, Local
  <1>5. TypeOK'
    BY <1>2, <1>3, MoveType DEF Inv, TypeOK, ledger, counters, CheckSteps
  <1> QED
    BY <1>2, <1>3, <1>4, <1>5, PlainStep DEF CheckSteps, Sending, core

LEMMA SettleNonceStep ==
    ASSUME Inv, NEW w \in Workers, SettleNonce(w)
    PROVE  Inv'
  <1>1. work[w].pc \in {"confirmNonce", "cancelNonce"} /\ work[w].pc \in WithTx
    BY DEF SettleNonce, At, WithTx, Executing, Reverting
  <1>2. UNCHANGED <<pay, asked, txs, lastTx, ledger, chain>>
    BY DEF SettleNonce
  <1>3. confirmed' \in Nat /\ pending' \in Nat
    BY DEF SettleNonce, Inv, TypeOK, counters
  <1>4. \/ End(w)
        \/ work[w].pc = "confirmNonce" /\ Goto(w, "confirmRead")
        \/ work[w].pc = "cancelNonce" /\ Goto(w, "chargeFee")
    BY DEF SettleNonce, At
  <1>5. /\ work[w].pc = "confirmNonce" => LocalOK([work[w] EXCEPT !.pc = "confirmRead"])
        /\ work[w].pc = "cancelNonce" => LocalOK([work[w] EXCEPT !.pc = "chargeFee"])
    BY <1>1, OwnRow DEF Inv, LocalOK, BeforeTx, WithTx, Executing, Reverting, Sending, Local
  <1>6. TypeOK'
    BY <1>2, <1>3, <1>4, MoveType DEF Inv, TypeOK, ledger, CheckSteps
  <1> QED
    BY <1>2, <1>4, <1>5, <1>6, PlainStep DEF CheckSteps, Sending, core

LEMMA ConfirmReadStep ==
    ASSUME Inv, NEW w \in Workers, ConfirmRead(w)
    PROVE  Inv'
  <1>1. work[w].pc = "confirmRead" /\ work[w].pc \in WithTx
    BY DEF ConfirmRead, At, WithTx, Executing
  <1>2. UNCHANGED <<pay, asked, txs, lastTx, ledger, counters, chain>>
    BY DEF ConfirmRead
  <1>3. End(w) \/ Goto(w, "confirmWrite")
    BY DEF ConfirmRead
  <1>4. LocalOK([work[w] EXCEPT !.pc = "confirmWrite"])
    BY <1>1, OwnRow DEF Inv, LocalOK, BeforeTx, WithTx, Executing, Reverting, Sending, Local
  <1>5. TypeOK'
    BY <1>2, <1>3, MoveType DEF Inv, TypeOK, ledger, counters, CheckSteps
  <1> QED
    BY <1>2, <1>3, <1>4, <1>5, PlainStep DEF CheckSteps, Sending, core

LEMMA ConfirmWriteStep ==
    ASSUME Inv, NEW w \in Workers, ConfirmWrite(w)
    PROVE  Inv'
  <1>1. work[w].pc = "confirmWrite" /\ work[w].pc \in WithTx /\ work[w].pc \in Executing
    BY DEF ConfirmWrite, At, WithTx, Executing
  <1>2. UNCHANGED <<pay, asked, lastTx, merchantBalance, counters, chain>>
    BY DEF ConfirmWrite
  <1>3. chain[work[w].tx].state = "success"
    BY <1>1 DEF Inv, LocalOK
  <1>4. CASE /\ ChargeFee(chain[work[w].tx].fee)
             /\ txs' = [txs EXCEPT ![work[w].tx].status = "completed"]
             /\ Goto(w, "markSuccess")
    <2>1. LocalOK([work[w] EXCEPT !.pc = "markSuccess"])
      BY <1>1, <1>3, OwnRow DEF LocalOK, BeforeTx, WithTx, Executing, Reverting, Sending, Local
    <2>2. walletBalance' \in [Tickers -> Nat]
      BY <1>1, <1>4, OwnRow, LedgerType DEF Inv
    <2> QED
      BY <1>1, <1>2, <1>3, <1>4, <2>1, <2>2, StatusStep DEF CheckSteps, Sending
  <1>5. CASE End(w) /\ UNCHANGED <<walletBalance, txs>>
    <2>1. TypeOK'
      BY <1>2, <1>5, MoveType DEF Inv, TypeOK, counters
    <2> QED
      BY <1>2, <1>5, <2>1, PlainStep DEF core
  <1> QED
    BY <1>4, <1>5 DEF ConfirmWrite

LEMMA CancelFeeStep ==
    ASSUME Inv, NEW w \in Workers, CancelFee(w)
    PROVE  Inv'
  <1>1. work[w].pc = "chargeFee" /\ work[w].pc \in WithTx
    BY DEF CancelFee, At, WithTx, Reverting
  <1>2. UNCHANGED <<pay, asked, txs, lastTx, merchantBalance, counters, chain>>
    BY DEF CancelFee
  <1>3. walletBalance' \in [Tickers -> Nat]
    BY <1>1, OwnRow, LedgerType DEF CancelFee, Inv, TypeOK
  <1>4. End(w) \/ Goto(w, "cancelTx")
    BY DEF CancelFee
  <1>5. LocalOK([work[w] EXCEPT !.pc = "cancelTx"])
    BY <1>1, OwnRow DEF Inv, LocalOK, BeforeTx, WithTx, Executing, Reverting, Sending, Local
  <1>6. TypeOK'
    BY <1>2, <1>3, <1>4, MoveType DEF Inv, TypeOK, counters, CheckSteps
  <1> QED
    BY <1>2, <1>4, <1>5, <1>6, PlainStep DEF CheckSteps, Sending, core

LEMMA CancelTxStep ==
    ASSUME Inv, NEW w \in Workers, CancelTx(w)
    PROVE  Inv'
  <1>1. work[w].pc = "cancelTx" /\ work[w].pc \in WithTx /\ work[w].pc \in Reverting
    BY DEF CancelTx, At, WithTx, Reverting
  <1>2. /\ UNCHANGED <<pay, asked, lastTx, merchantBalance, counters, chain>>
        /\ walletBalance' \in [Tickers -> Nat]
        /\ txs' = [txs EXCEPT ![work[w].tx].status = "failed"]
        /\ Goto(w, "restore")
    BY DEF CancelTx, Inv, TypeOK, ledger
  <1>3. chain[work[w].tx].state = "reverted"
    BY <1>1 DEF Inv, LocalOK
  <1>4. LocalOK([work[w] EXCEPT !.pc = "restore"])
    BY <1>1, <1>3, OwnRow DEF LocalOK, BeforeTx, WithTx, Executing, Reverting, Sending, Local
  <1> QED
    BY <1>1, <1>2, <1>3, <1>4, StatusStep DEF CheckSteps, Sending

LEMMA AbortStep ==
    ASSUME Inv, NEW w \in Workers, Abort(w)
    PROVE  Inv'
  <1>1. End(w) /\ UNCHANGED <<pay, asked, txs, lastTx, ledger, counters, chain>>
    BY DEF Abort
  <1>2. TypeOK'
    BY <1>1, MoveType DEF Inv, TypeOK, ledger, counters
  <1> QED
    BY <1>1, <1>2, PlainStep DEF core

\* A verdict is given once, on a transaction that was sent.
LEMMA MineStep ==
    ASSUME Inv, NEW t \in TxIds, NEW r \in {"success", "reverted"}, NEW f \in NetworkFees, Mine(t, r, f)
    PROVE  Inv'
  <1> DEFINE c == [chain[t] EXCEPT !.state = r, !.fee = f]
  <1>1. chain[t] \in OnChain /\ chain[t].state = "pool"
    BY DEF Mine, Inv, TypeOK
  <1>2. c \in OnChain
    BY <1>1 DEF OnChain
  <1>3. chain' = [chain EXCEPT ![t] = c]
    BY DEF Mine, Inv, TypeOK
  <1> HIDE DEF c
  <1>4. chain' \in [TxIds -> OnChain] /\ \A u \in TxIds : u # t => chain'[u] = chain[u]
    BY <1>2, <1>3 DEF Inv, TypeOK
  <1>5. UNCHANGED <<pay, asked, txs, lastTx, ledger, counters, work>>
    BY DEF Mine
  <1>6. TypeOK'
    BY <1>4, <1>5 DEF Inv, TypeOK, ledger, counters
  <1>7. Grow
    BY <1>1, <1>4, <1>5 DEF Grow, Inv, TypeOK
  <1>8. \A u \in TxIds : RowOK(u)'
    BY <1>1, <1>4, <1>5 DEF Inv, RowOK
  <1>9. \A v \in Workers : work'[v] = work[v] /\ Unspoiled(work[v])
    BY <1>1, <1>4, <1>5 DEF Unspoiled, Inv, LocalOK, WithTx, Belongs
  <1>10. OneSender' /\ RecordedAsExecuted'
    BY <1>1, <1>4, <1>5 DEF Inv, OneSender, RecordedAsExecuted
  <1> QED
    BY <1>5, <1>6, <1>7, <1>8, <1>9, <1>10, Preserve

-----------------------------------------------------------------------------
LEMMA InitInv == Init => Inv
  <1> SUFFICES ASSUME Init PROVE Inv
    OBVIOUS
  <1>1. NoRow \in Row /\ Unsent \in OnChain
    BY DEF NoRow, Row, TxStatus, Unsent, OnChain
  <1>2. TypeOK
    BY <1>1, IdleType DEF Init, TypeOK, PayStatus
  <1>3. \A t \in TxIds : RowOK(t)
    BY DEF Init, RowOK, NoRow, Unsent, TxIds
  <1>4. \A w \in Workers : work[w].pc = "idle"
    BY DEF Init, Idle
  <1>5. \A w \in Workers : LocalOK(work[w])
    BY <1>4 DEF LocalOK, BeforeTx, WithTx, Executing, Reverting, Sending
  <1>6. OneSender
    BY <1>4 DEF OneSender, Sending
  <1>7. RecordedAsExecuted /\ SuccessIsTransferred
    BY DEF Init, RecordedAsExecuted, SuccessIsTransferred, NoRow
  <1> QED
    BY <1>2, <1>3, <1>5, <1>6, <1>7 DEF Inv

LEMMA NextInv == Inv /\ [Next]_vars => Inv'
  <1> SUFFICES ASSUME Inv, [Next]_vars PROVE Inv'
    OBVIOUS
  <1>1. ASSUME NEW w \in Workers, Step(w) PROVE Inv'
    BY <1>1, CheckBalancesStep, TakeNonceStep, CreateTxStep, DecrementStep, BroadcastStep,
       SetHashStep, MarkInProgressStep, ErrorStep, UndoNonceStep, UndoTxStep, UndoBalancesStep,
       ReceiptStep, SettleNonceStep, ConfirmReadStep, ConfirmWriteStep, MarkSuccessStep,
       CancelFeeStep, CancelTxStep, AbortStep DEF Step
  <1>2. CASE UNCHANGED vars
    <2>1. UNCHANGED <<core, work>> /\ UNCHANGED pay
      BY <1>2 DEF vars, core
    <2>2. TypeOK'
      BY <1>2 DEF Inv, TypeOK, vars
    <2> QED
      BY <2>1, <2>2, StillStep
  <1> QED
    BY <1>1, <1>2, AskStep, StartCreateStep, StartCheckStep, MineStep DEF Next

\* What Inv says, above all that a worker's row is its own and its transaction has
\* the verdict it read, is true of every state of BatchCreateWithdrawals and
\* BatchCheckWithdrawals.
THEOREM InductiveInvariant == Spec => []Inv
  BY InitInv, NextInv, PTL DEF Spec

\* The balances never go below zero, no counter and no local variable leaves its type.
THEOREM TypeCorrectness == Spec => []TypeOK
  <1>1. Inv => TypeOK
    BY DEF Inv
  <1> QED
    BY <1>1, InductiveInvariant, PTL

\* confirmWithdrawal reports a success only of a withdrawal the chain paid out,
\* however many batches overlap, fail or crash.
THEOREM SuccessNeedsTransfer == Spec => []SuccessIsTransferred
  <1>1. Inv => SuccessIsTransferred
    BY DEF Inv
  <1> QED
    BY <1>1, InductiveInvariant, PTL

\* checkWithdrawalTransaction completes or fails exactly the rows whose transactions
\* the chain executed or reverted.
THEOREM RecordsAreExecutions == Spec => []RecordedAsExecuted
  <1>1. Inv => RecordedAsExecuted
    BY DEF Inv
  <1> QED
    BY <1>1, InductiveInvariant, PTL
-----------------------------------------------------------------------------
(* One job after the other, without faults.  A worker that has a nonce is  *)
(* the only one that can move the counters, so that the rollback gives     *)
(* back that very nonce; the next attempt signs with it, and the chain     *)
(* takes one of the two transactions.  Where jobs overlap this fails: the  *)
(* counter that a rollback finds is not the one it left.                   *)

\* One goroutine, and no step of it fails or crashes halfway.
OneAtATime == Faults = {} /\ \E w \in Workers : Workers = {w}

Live(t) == chain[t].state \in {"pool", "success", "reverted"}

\* From the moment a nonce is taken until it is used or given back.
Holding == {"createTx", "decrement", "broadcast", "undoNonce"}
Free(l) == confirmed + pending - (IF l.pc \in Holding THEN 1 ELSE 0)

Creating == {"merchant", "nonce", "createTx", "decrement", "broadcast", "setHash", "markInProgress",
             "undoNonce", "undoTx", "undoBalances"}
Bare(l) == l.pc \in {"merchant", "nonce", "createTx", "undoBalances", "failPayment", "restore"}
           \/ (l.pc = "undoNonce" /\ l.tx = 0)
Made(l) == l.pc \in {"decrement", "broadcast", "setHash", "markInProgress", "undoTx"}
           \/ (l.pc = "undoNonce" /\ l.tx # 0)
Checking == {"receipt", "confirmNonce", "confirmRead", "confirmWrite", "cancelNonce", "chargeFee", "cancelTx"}

Open(t, p) == txs[t].pay = p /\ txs[t].status \in {"pending", "completed"}

\* A withdrawal and its rows as they are between jobs.
Agree(p) ==
    /\ \A t, u \in TxIds : Open(t, p) /\ Open(u, p) => t = u
    /\ pay[p] = "inProgress" <=> \E t \in TxIds : Open(t, p) /\ txs[t].status = "pending"
    /\ pay[p] = "success" <=> \E t \in TxIds : Open(t, p) /\ txs[t].status = "completed"

\* Withdrawals nobody works on agree with their rows; of the other one, the step says
\* how far its row and its status have come.
BooksOK(l) ==
    /\ \A p \in Withdrawals : p # l.pay \/ l.pc \in Checking => Agree(p)
    /\ l.pc \in Creating => pay[l.pay] = "pending"
    /\ Bare(l) => \A t \in TxIds : ~Open(t, l.pay)
    /\ Made(l) => \A t \in TxIds : Open(t, l.pay) => t = l.tx
    /\ Made(l) \/ l.pc \in Checking => txs[l.tx].status = "pending"
    /\ l.pc = "markSuccess" =>
         txs[l.tx].status = "completed" /\ \A t \in TxIds : Open(t, l.pay) => t = l.tx

\* The nonce a worker holds is the last one given out.
NonceOK(l) ==
    l.pc \in Holding => /\ pending >= 1 /\ l.nonce = Free(l)
                        /\ l.tx # 0 => chain[l.tx].nonce = l.nonce

\* The transaction of the withdrawal p was accepted and its status not yet written.
Accepted(l, p) == l.pc \in {"setHash", "markInProgress"} /\ l.pay = p

\* The chain takes one transaction of each nonce, and what it may have taken of a
\* withdrawal that will be tried again has the nonce of the next attempt.
LivesOK(l) ==
    /\ \A t \in TxIds : Live(t) => chain[t].nonce <= Free(l)
    /\ \A t, u \in TxIds : Live(t) /\ Live(u) /\ chain[t].nonce = chain[u].nonce => t = u
    /\ \A t \in TxIds : Live(t) /\ pay[txs[t].pay] \in {"none", "pending"} /\ ~Accepted(l, txs[t].pay)
                          => chain[t].nonce = Free(l)
    /\ \A t, u \in TxIds : Live(t) /\ Live(u) /\ txs[t].pay = txs[u].pay => t = u

\* No answer to a broadcast is lost: the nonces up to the free one are those of the
\* transactions the chain has, mined ones first.
GaplessOK(l) ==
    /\ \A t \in TxIds : Live(t) => chain[t].nonce < Free(l)
    /\ \A n \in 0..(Free(l) - 1) : \E t \in TxIds : Live(t) /\ chain[t].nonce = n
    /\ \A t \in TxIds : /\ chain[t].state # "dropped"
                        /\ t \in Mined => chain[t].nonce < Cardinality(Mined)
                        /\ chain[t].state = "pool" => /\ chain[t].nonce >= Cardinality(Mined)
                                                      /\ txs[t].status = "pending"
    /\ Cardinality(Mined) <= Free(l)
    /\ l.pc \in {"undoNonce", "undoTx"} /\ l.tx # 0 => chain[l.tx].state = "unsent"

Lossless == Nonced /\ "lost" \notin Outcomes

SerialOK(l) == BooksOK(l) /\ NonceOK(l) /\ (Nonced => LivesOK(l)) /\ (Lossless => GaplessOK(l))

SInv == \A w \in Workers : SerialOK(work[w])

-----------------------------------------------------------------------------
(* Parts of it that outlive a step *)

LEMMA SerialFinish ==
    ASSUME NEW w, Workers = {w}, NEW k, k = work'[w], SerialOK(k)'
    PROVE  SInv'
  BY DEF SInv, SerialOK, BooksOK, NonceOK, LivesOK, GaplessOK, Free, Made, Bare, Accepted

LEMMA AgreeStays ==
    ASSUME NEW p, Agree(p), pay'[p] = pay[p],
           \A t \in TxIds : (Open(t, p)' <=> Open(t, p)) /\ (Open(t, p) => txs'[t].status = txs[t].status)
    PROVE  Agree(p)'
  BY DEF Agree

LEMMA LiveIsMade ==
    ASSUME Inv, NEW t \in TxIds, Live(t)
    PROVE  t <= lastTx /\ txs[t].pay \in Withdrawals
  BY DEF Inv, RowOK, Live, TypeOK, TxIds

\* A step of the tables alone.
SameChain ==
    \A t \in TxIds : /\ chain'[t].state = chain[t].state
                     /\ Live(t) => chain'[t].nonce = chain[t].nonce

LEMMA LivesStay ==
    ASSUME Inv, NEW l, NEW k, LivesOK(l), SameChain, Free(k)' = Free(l),
           \A t \in TxIds : t <= lastTx => txs'[t].pay = txs[t].pay,
           \A p \in Withdrawals : /\ pay'[p] \in {"none", "pending"} => pay[p] \in {"none", "pending"}
                                  /\ Accepted(l, p) /\ pay'[p] \in {"none", "pending"} => Accepted(k, p)
    PROVE  LivesOK(k)'
  <1>1. ASSUME NEW t \in TxIds, Live(t)'
        PROVE  /\ Live(t) /\ txs'[t].pay = txs[t].pay /\ txs[t].pay \in Withdrawals
               /\ chain'[t].nonce = chain[t].nonce
    BY <1>1, LiveIsMade DEF Live, SameChain
  <1>2. ASSUME NEW t \in TxIds, Live(t)' PROVE chain'[t].nonce <= Free(k)'
    BY <1>1, <1>2 DEF LivesOK
  <1>3. ASSUME NEW t \in TxIds, NEW u \in TxIds, Live(t)', Live(u)', chain'[t].nonce = chain'[u].nonce
        PROVE  t = u
    BY <1>1, <1>3 DEF LivesOK
  <1>4. ASSUME NEW t \in TxIds, Live(t)', pay'[txs'[t].pay] \in {"none", "pending"}, ~Accepted(k, txs'[t].pay)
        PROVE  chain'[t].nonce = Free(k)'
    <2>1. pay[txs[t].pay] \in {"none", "pending"} /\ ~Accepted(l, txs[t].pay)
      BY <1>1, <1>4
    <2> QED
      BY <1>1, <1>4, <2>1 DEF LivesOK
  <1>5. ASSUME NEW t \in TxIds, NEW u \in TxIds, Live(t)', Live(u)', txs'[t].pay = txs'[u].pay
        PROVE  t = u
    BY <1>1, <1>5 DEF LivesOK
  <1> QED
    BY <1>2, <1>3, <1>4, <1>5 DEF LivesOK, Accepted

LEMMA GaplessStays ==
    ASSUME Inv, NEW l, NEW k, GaplessOK(l), SameChain, Free(k)' = Free(l),
           \A t \in TxIds : chain[t].state = "pool" => txs'[t].status = txs[t].status,
           k.pc \in {"undoNonce", "undoTx"} /\ k.tx # 0 => chain'[k.tx].state = "unsent"
    PROVE  GaplessOK(k)'
  <1>1. Mined' = Mined /\ \A t \in Mined : Live(t)
    BY DEF Mined, SameChain, Live
  <1>2. \A t \in TxIds : Live(t)' <=> Live(t)
    BY DEF Live, SameChain
  <1>3. \A t \in TxIds : Live(t) => chain'[t].nonce = chain[t].nonce
    BY DEF SameChain
  <1>4. \A n \in 0..(Free(k)' - 1) : \E t \in TxIds : Live(t)' /\ chain'[t].nonce = n
    BY <1>2, <1>3 DEF GaplessOK
  <1>5. ASSUME NEW t \in TxIds
        PROVE  /\ chain'[t].state # "dropped"
               /\ t \in Mined' => chain'[t].nonce < Cardinality(Mined')
               /\ chain'[t].state = "pool" => /\ chain'[t].nonce >= Cardinality(Mined')
                                              /\ txs'[t].status = "pending"
    BY <1>1, <1>3 DEF GaplessOK, SameChain, Live
  <1> QED
    BY <1>1, <1>2, <1>3, <1>4, <1>5 DEF GaplessOK

\* A step that moves the worker, and of the tables at most balances and counters.
LEMMA QuietMove ==
    ASSUME Inv, SInv, NEW w, Workers = {w}, UNCHANGED <<pay, txs, chain>>,
           NEW k, k = work'[w], Free(k)' = Free(work[w]), BooksOK(k), NonceOK(k)',
           work[w].pc \notin {"setHash", "markInProgress"},
           Lossless /\ k.pc \in {"undoNonce", "undoTx"} /\ k.tx # 0 => chain[k.tx].state = "unsent"
    PROVE  SInv'
  <1>1. PICK l : l = work[w]
    OBVIOUS
  <1>2. SerialOK(l) /\ Free(k)' = Free(l) /\ l.pc \notin {"setHash", "markInProgress"}
    BY <1>1 DEF SInv
  <1>3. BooksOK(k)'
    BY DEF BooksOK, Agree, Open
  <1>4. SameChain
    BY DEF SameChain
  <1>5. ASSUME Nonced PROVE LivesOK(k)'
    <2>1. \A p : ~Accepted(l, p)
      BY <1>2 DEF Accepted
    <2> QED
      BY <1>2, <1>4, <1>5, <2>1, LivesStay DEF SerialOK
  <1>6. ASSUME Lossless PROVE GaplessOK(k)'
    BY <1>2, <1>4, <1>6, GaplessStays DEF SerialOK
  <1> QED
    BY <1>3, <1>5, <1>6, SerialFinish DEF SerialOK

LEMMA PendingIsBare ==
    ASSUME NEW p, Agree(p), pay[p] \notin {"inProgress", "success"}
    PROVE  \A t \in TxIds : ~Open(t, p)
  BY DEF Agree, Open

LEMMA BareAgrees ==
    ASSUME NEW p, \A t \in TxIds : ~Open(t, p), pay[p] \notin {"inProgress", "success"}
    PROVE  Agree(p)
  BY DEF Agree

LEMMA IdleBooks ==
    ASSUME \A p \in Withdrawals : Agree(p)
    PROVE  BooksOK(Idle)
  BY DEF BooksOK, Idle, Bare, Made, Checking, Creating

\* The worker has nothing to do: every withdrawal agrees with its rows.
LEMMA IdleAgrees ==
    ASSUME SInv, NEW w \in Workers, work[w] = Idle
    PROVE  \A p \in Withdrawals : Agree(p)
  BY DEF SInv, SerialOK, BooksOK, Idle

\* The worker ends, and the withdrawal it worked on is as it should be between jobs.
LEMMA EndMove ==
    ASSUME Inv, SInv, NEW w, Workers = {w}, UNCHANGED <<pay, txs, chain>>, End(w),
           Free(Idle)' = Free(work[w]), Agree(work[w].pay),
           work[w].pc \notin {"setHash", "markInProgress"}
    PROVE  SInv'
  <1>1. work'[w] = Idle
    BY DEF End, Inv, TypeOK
  <1>2. \A p \in Withdrawals : Agree(p)
    BY DEF SInv, SerialOK, BooksOK
  <1>3. PICK k : k = Idle
    OBVIOUS
  <1>4. k.pc = "idle" /\ Free(k)' = Free(work[w]) /\ BooksOK(k) /\ k = work'[w]
    <2>1. Free(k)' = Free(Idle)'
      BY <1>3 DEF Free
    <2> QED
      BY <1>1, <1>2, <1>3, <2>1, IdleBooks DEF Idle
  <1>5. NonceOK(k)'
    BY <1>4 DEF NonceOK, Holding
  <1> QED
    BY <1>4, <1>5, QuietMove

\* Where a step of the program takes its worker.
LEMMA GotoFacts ==
    ASSUME Inv, NEW w \in Workers, NEW q, Goto(w, q)
    PROVE  /\ work'[w].pc = q /\ work'[w].pay = work[w].pay /\ work'[w].tx = work[w].tx
           /\ work'[w].nonce = work[w].nonce
  BY DEF Goto, Inv, TypeOK, Local

LEMMA BareMeans ==
    ASSUME NEW l, BooksOK(l), Bare(l), l.pc \in Creating
    PROVE  Agree(l.pay)
  BY BareAgrees DEF BooksOK

-----------------------------------------------------------------------------
(* Its steps *)

LEMMA SAskStep == ASSUME Inv, SInv, OneAtATime, NEW p \in Withdrawals, Ask(p) PROVE SInv'
  <1>1. PICK w : Workers = {w}
    BY DEF OneAtATime
  <1>2. PICK k : k = work'[w]
    OBVIOUS
  <1>3. k = work[w] /\ UNCHANGED <<pay, txs, chain, confirmed, pending>>
    BY <1>2 DEF Ask, counters
  <1>4. SerialOK(k)
    BY <1>1, <1>3 DEF SInv
  <1>5. SerialOK(k)'
    BY <1>3, <1>4 DEF SerialOK, BooksOK, NonceOK, LivesOK, GaplessOK, Free, Accepted, Agree, Open, Live, Mined
  <1> QED
    BY <1>1, <1>2, <1>5, SerialFinish

LEMMA SStartCreate ==
    ASSUME Inv, SInv, OneAtATime, NEW w \in Workers, NEW p \in Withdrawals, StartCreate(w, p)
    PROVE  SInv'
  <1>1. Workers = {w}
    BY DEF OneAtATime
  <1>2. PICK k : k = work'[w]
    OBVIOUS
  <1>3. /\ work[w] = Idle /\ pay[p] = "pending" /\ UNCHANGED <<pay, txs, chain, confirmed, pending>>
        /\ k.pc = "merchant" /\ k.pay = p /\ k.tx = 0
    BY <1>2 DEF StartCreate, Begin, Idle, counters, Inv, TypeOK
  <1>4. \A q \in Withdrawals : Agree(q)
    BY <1>3, IdleAgrees
  <1>5. \A t \in TxIds : ~Open(t, p)
    BY <1>3, <1>4, PendingIsBare
  <1>6. BooksOK(k)
    BY <1>3, <1>4, <1>5 DEF BooksOK, Bare, Made, Checking
  <1>7. NonceOK(k)' /\ Free(k)' = Free(work[w])
    BY <1>3 DEF NonceOK, Holding, Free, Idle
  <1> QED
    BY <1>1, <1>2, <1>3, <1>6, <1>7, QuietMove DEF Idle

LEMMA SStartCheck ==
    ASSUME Inv, SInv, OneAtATime, NEW w \in Workers, NEW t \in TxIds, StartCheck(w, t)
    PROVE  SInv'
  <1>1. Workers = {w}
    BY DEF OneAtATime
  <1>2. PICK k : k = work'[w]
    OBVIOUS
  <1>3. /\ work[w] = Idle /\ txs[t].status = "pending" /\ UNCHANGED <<pay, txs, chain, confirmed, pending>>
        /\ k.pc = "receipt" /\ k.pay = txs[t].pay /\ k.tx = t
    BY <1>2 DEF StartCheck, Begin, Idle, counters, Inv, TypeOK
  <1>4. \A q \in Withdrawals : Agree(q)
    BY <1>3, IdleAgrees
  <1>5. BooksOK(k)
    BY <1>3, <1>4 DEF BooksOK, Bare, Made, Checking, Creating
  <1>6. NonceOK(k)' /\ Free(k)' = Free(work[w])
    BY <1>3 DEF NonceOK, Holding, Free, Idle
  <1> QED
    BY <1>1, <1>2, <1>3, <1>5, <1>6, QuietMove DEF Idle

LEMMA SCheckBalances ==
    ASSUME Inv, SInv, OneAtATime, NEW w \in Workers, CheckBalances(w) PROVE SInv'
  <1>1. Workers = {w}
    BY DEF OneAtATime
  <1>2. /\ work[w].pc = "merchant" /\ UNCHANGED <<pay, txs, chain, confirmed, pending>>
        /\ End(w) \/ Goto(w, "failPayment") \/ Goto(w, "nonce")
    BY DEF CheckBalances, At, counters
  <1>3. BooksOK(work[w]) /\ Bare(work[w])
    BY <1>2 DEF SInv, SerialOK, Bare
  <1>4. CASE End(w)
    <2>1. Agree(work[w].pay)
      BY <1>2, <1>3, BareMeans DEF Creating
    <2>2. Free(Idle)' = Free(work[w])
      BY <1>2 DEF Free, Holding, Idle
    <2> QED
      BY <1>1, <1>2, <1>4, <2>1, <2>2, EndMove
  <1>5. ASSUME NEW q \in {"failPayment", "nonce"}, Goto(w, q) PROVE SInv'
    <2>1. PICK k : k = work'[w]
      OBVIOUS
    <2>2. k.pc = q /\ k.pay = work[w].pay /\ k.tx = work[w].tx
      BY <1>5, <2>1, GotoFacts
    <2>3. BooksOK(k)
      BY <1>2, <1>3, <2>2 DEF BooksOK, Bare, Made, Checking, Creating
    <2>4. NonceOK(k)' /\ Free(k)' = Free(work[w])
      BY <1>2, <2>2 DEF NonceOK, Holding, Free
    <2> QED
      BY <1>1, <1>2, <2>1, <2>2, <2>3, <2>4, QuietMove
  <1> QED
    BY <1>2, <1>4, <1>5

LEMMA STakeNonce ==
    ASSUME Inv, SInv, OneAtATime, NEW w \in Workers, TakeNonce(w) PROVE SInv'
  <1>1. Workers = {w}
    BY DEF OneAtATime
  <1>2. PICK k : k = work'[w]
    OBVIOUS
  <1>3. /\ work[w].pc = "nonce" /\ UNCHANGED <<pay, txs, chain, confirmed>> /\ pending' = pending + 1
        /\ k.pc = "createTx" /\ k.pay = work[w].pay /\ k.nonce = confirmed + pending /\ k.tx = 0
    BY <1>2 DEF TakeNonce, At, Inv, TypeOK, Local, LocalOK, BeforeTx
  <1>4. confirmed \in Nat /\ pending \in Nat
    BY DEF Inv, TypeOK
  <1>5. BooksOK(k)
    BY <1>3 DEF SInv, SerialOK, BooksOK, Bare, Made, Checking, Creating
  <1>6. NonceOK(k)' /\ Free(k)' = Free(work[w])
    BY <1>3, <1>4 DEF NonceOK, Holding, Free
  <1> QED
    BY <1>1, <1>2, <1>3, <1>5, <1>6, QuietMove

\* A step that moves the program counter, between steps that hold a nonce or between
\* steps that do not.
LEMMA PcMove ==
    ASSUME Inv, SInv, NEW w, Workers = {w}, UNCHANGED <<pay, txs, chain, confirmed, pending>>,
           NEW k, k = work'[w], k.pay = work[w].pay, k.tx = work[w].tx, k.nonce = work[w].nonce,
           k.pc \in Holding <=> work[w].pc \in Holding, BooksOK(k),
           work[w].pc \notin {"setHash", "markInProgress"},
           Lossless /\ k.pc \in {"undoNonce", "undoTx"} /\ k.tx # 0 => chain[k.tx].state = "unsent"
    PROVE  SInv'
  <1>1. Free(k)' = Free(work[w])
    BY DEF Free
  <1>2. NonceOK(work[w])
    BY DEF SInv, SerialOK
  <1>3. NonceOK(k)'
    BY <1>1, <1>2 DEF NonceOK, Free
  <1> QED
    BY <1>1, <1>3, QuietMove

\* To the rollback, with the row if there is one.
LEMMA ToRollback ==
    ASSUME Inv, SInv, NEW w, Workers = {w}, UNCHANGED <<pay, txs, chain, confirmed, pending>>,
           work[w].pc \in {"createTx", "decrement", "broadcast"},
           work'[w].pc = "undoNonce", work'[w].pay = work[w].pay, work'[w].tx = work[w].tx,
           work'[w].nonce = work[w].nonce
    PROVE  SInv'
  <1>1. PICK k : k = work'[w]
    OBVIOUS
  <1>2. BooksOK(work[w]) /\ LocalOK(work[w])
    BY DEF SInv, SerialOK, Inv
  <1>3. CASE work[w].pc = "createTx"
    <2>1. k.tx = 0
      BY <1>1, <1>2, <1>3 DEF LocalOK, BeforeTx
    <2>2. BooksOK(k)
      BY <1>1, <1>2, <1>3, <2>1 DEF BooksOK, Bare, Made, Checking, Creating
    <2> QED
      BY <1>1, <1>3, <2>1, <2>2, PcMove DEF Holding
  <1>4. CASE work[w].pc \in Sending
    <2>1. k.tx \in TxIds /\ k.tx # 0 /\ chain[k.tx].state = "unsent"
      BY <1>1, <1>2, <1>4 DEF LocalOK, WithTx, Belongs, TxIds, Inv, TypeOK
    <2>2. BooksOK(k)
      BY <1>1, <1>2, <1>4, <2>1 DEF BooksOK, Bare, Made, Checking, Creating, Sending
    <2> QED
      BY <1>1, <1>4, <2>1, <2>2, PcMove DEF Holding, Sending
  <1> QED
    BY <1>3, <1>4 DEF Sending

LEMMA SDecrement ==
    ASSUME Inv, SInv, OneAtATime, NEW w \in Workers, Decrement(w) PROVE SInv'
  <1>1. Workers = {w}
    BY DEF OneAtATime
  <1>2. /\ work[w].pc = "decrement" /\ UNCHANGED <<pay, txs, chain, confirmed, pending>>
        /\ work'[w].pc \in {"undoNonce", "broadcast"} /\ work'[w].pay = work[w].pay
        /\ work'[w].tx = work[w].tx /\ work'[w].nonce = work[w].nonce
    BY DEF Decrement, At, Goto, counters, Inv, TypeOK, Local
  <1>3. CASE work'[w].pc = "broadcast"
    <2>1. PICK k : k = work'[w]
      OBVIOUS
    <2>2. BooksOK(k)
      BY <1>2, <1>3, <2>1 DEF SInv, SerialOK, BooksOK, Bare, Made, Checking, Creating
    <2> QED
      BY <1>1, <1>2, <1>3, <2>1, <2>2, PcMove DEF Holding
  <1> QED
    BY <1>1, <1>2, <1>3, ToRollback

LEMMA SError ==
    ASSUME Inv, SInv, OneAtATime, NEW w \in Workers, Error(w) PROVE SInv'
  <1>1. Workers = {w}
    BY DEF OneAtATime
  <1>2. work[w].pc = "createTx" /\ UNCHANGED <<pay, txs, chain, confirmed, pending>> /\ Goto(w, "undoNonce")
    BY DEF Error, OneAtATime, At, counters
  <1> QED
    BY <1>1, <1>2, GotoFacts, ToRollback

LEMMA SUndoNonce ==
    ASSUME Inv, SInv, OneAtATime, NEW w \in Workers, UndoNonce(w) PROVE SInv'
  <1>1. Workers = {w}
    BY DEF OneAtATime
  <1>2. work[w].pc = "undoNonce" /\ UNCHANGED <<pay, txs, chain, confirmed>>
    BY DEF UndoNonce, At
  <1>3. SerialOK(work[w]) /\ LocalOK(work[w]) /\ pending \in Nat /\ confirmed \in Nat
    BY DEF SInv, Inv, TypeOK
  <1>4. pending >= 1
    BY <1>2, <1>3 DEF SerialOK, NonceOK, Holding
  <1>5. pending' = pending - 1 /\ (IF work[w].tx = 0 THEN End(w) ELSE Goto(w, "undoTx"))
    BY <1>3, <1>4 DEF UndoNonce
  <1>6. CASE work[w].tx = 0
    <2>1. Agree(work[w].pay)
      BY <1>2, <1>3, <1>6, BareMeans DEF SerialOK, Bare, Creating
    <2>2. Free(Idle)' = Free(work[w])
      BY <1>2, <1>3, <1>5 DEF Free, Holding, Idle
    <2> QED
      BY <1>1, <1>2, <1>5, <1>6, <2>1, <2>2, EndMove
  <1>7. CASE work[w].tx # 0
    <2>1. PICK k : k = work'[w]
      OBVIOUS
    <2>2. k.pc = "undoTx" /\ k.pay = work[w].pay /\ k.tx = work[w].tx
      BY <1>5, <1>7, <2>1, GotoFacts
    <2>3. BooksOK(k)
      BY <1>2, <1>3, <1>7, <2>2 DEF SerialOK, BooksOK, Bare, Made, Checking, Creating
    <2>4. NonceOK(k)' /\ Free(k)' = Free(work[w])
      BY <1>2, <1>3, <1>5, <2>2 DEF NonceOK, Holding, Free
    <2>5. Lossless => chain[k.tx].state = "unsent"
      BY <1>2, <1>3, <1>7, <2>2 DEF SerialOK, GaplessOK
    <2> QED
      BY <1>1, <1>2, <2>1, <2>2, <2>3, <2>4, <2>5, QuietMove
  <1> QED
    BY <1>6, <1>7

LEMMA SUndoBalances ==
    ASSUME Inv, SInv, OneAtATime, NEW w \in Workers, UndoBalances(w) PROVE SInv'
  <1>1. Workers = {w}
    BY DEF OneAtATime
  <1>2. /\ work[w].pc = "undoBalances" /\ UNCHANGED <<pay, txs, chain, confirmed, pending>>
        /\ End(w) \/ Goto(w, "failPayment")
    BY DEF UndoBalances, At, counters
  <1>3. BooksOK(work[w]) /\ Bare(work[w])
    BY <1>2 DEF SInv, SerialOK, Bare
  <1>4. CASE End(w)
    <2>1. Agree(work[w].pay)
      BY <1>2, <1>3, BareMeans DEF Creating
    <2>2. Free(Idle)' = Free(work[w])
      BY <1>2 DEF Free, Holding, Idle
    <2> QED
      BY <1>1, <1>2, <1>4, <2>1, <2>2, EndMove
  <1>5. CASE Goto(w, "failPayment")
    <2>1. PICK k : k = work'[w]
      OBVIOUS
    <2>2. k.pc = "failPayment" /\ k.pay = work[w].pay /\ k.tx = work[w].tx /\ k.nonce = work[w].nonce
      BY <1>5, <2>1, GotoFacts
    <2>3. BooksOK(k)
      BY <1>2, <1>3, <2>2 DEF BooksOK, Bare, Made, Checking, Creating
    <2> QED
      BY <1>1, <1>2, <2>1, <2>2, <2>3, PcMove DEF Holding
  <1> QED
    BY <1>2, <1>4, <1>5

LEMMA SRestore ==
    ASSUME Inv, SInv, OneAtATime, NEW w \in Workers, Restore(w) PROVE SInv'
  <1>1. Workers = {w}
    BY DEF OneAtATime
  <1>2. /\ work[w].pc = "restore" /\ UNCHANGED <<pay, txs, chain, confirmed, pending>>
        /\ Goto(w, "failPayment")
    BY DEF Restore, At, counters
  <1>3. BooksOK(work[w])
    BY DEF SInv, SerialOK
  <1>4. PICK k : k = work'[w]
    OBVIOUS
  <1>5. k.pc = "failPayment" /\ k.pay = work[w].pay /\ k.tx = work[w].tx /\ k.nonce = work[w].nonce
    BY <1>2, <1>4, GotoFacts
  <1>6. BooksOK(k)
    BY <1>2, <1>3, <1>5 DEF BooksOK, Bare, Made, Checking, Creating
  <1> QED
    BY <1>1, <1>2, <1>4, <1>5, <1>6, PcMove DEF Holding

\* The check of a transaction ends, or goes on, with the withdrawal as it was.
LEMMA CheckMove ==
    ASSUME Inv, SInv, NEW w, Workers = {w}, work[w].pc \in Checking,
           UNCHANGED <<pay, txs, chain>>, confirmed' + pending' = confirmed + pending,
           confirmed' \in Nat, pending' \in Nat,
           End(w) \/ \E q \in Checking : Goto(w, q)
    PROVE  SInv'
  <1>1. /\ BooksOK(work[w]) /\ work[w].pay \in Withdrawals
        /\ confirmed \in Nat /\ pending \in Nat
    BY DEF SInv, SerialOK, Inv, LocalOK, Checking, TypeOK
  <1>2. CASE End(w)
    <2>1. Agree(work[w].pay)
      BY <1>1 DEF BooksOK
    <2>2. Free(Idle)' = Free(work[w])
      BY <1>1 DEF Free, Holding, Idle, Checking
    <2> QED
      BY <1>2, <2>1, <2>2, EndMove DEF Checking
  <1>3. ASSUME NEW q \in Checking, Goto(w, q) PROVE SInv'
    <2>1. PICK k : k = work'[w]
      OBVIOUS
    <2>2. k.pc = q /\ k.pay = work[w].pay /\ k.tx = work[w].tx
      BY <1>3, <2>1, GotoFacts
    <2>3. BooksOK(k)
      BY <1>1, <1>3, <2>2 DEF BooksOK, Bare, Made, Checking, Creating
    <2>4. NonceOK(k)' /\ Free(k)' = Free(work[w])
      BY <1>1, <1>3, <2>2 DEF NonceOK, Holding, Free, Checking
    <2> QED
      BY <1>3, <2>1, <2>2, <2>3, <2>4, QuietMove DEF Checking
  <1> QED
    BY <1>2, <1>3

LEMMA SCheckSteps ==
    ASSUME Inv, SInv, OneAtATime, NEW w \in Workers,
           Receipt(w) \/ SettleNonce(w) \/ ConfirmRead(w) \/ CancelFee(w)
    PROVE  SInv'
  <1>1. Workers = {w}
    BY DEF OneAtATime
  <1>2. confirmed \in Nat /\ pending \in Nat
    BY DEF Inv, TypeOK
  <1>3. CASE Receipt(w)
    BY <1>1, <1>2, <1>3, CheckMove DEF Receipt, At, counters, Checking
  <1>4. CASE SettleNonce(w)
    BY <1>1, <1>2, <1>4, CheckMove DEF SettleNonce, At, counters, Checking
  <1>5. CASE ConfirmRead(w)
    BY <1>1, <1>2, <1>5, CheckMove DEF ConfirmRead, At, counters, Checking
  <1>6. CASE CancelFee(w)
    BY <1>1, <1>2, <1>6, CheckMove DEF CancelFee, At, counters, Checking
  <1> QED
    BY <1>3, <1>4, <1>5, <1>6

-----------------------------------------------------------------------------
(* Steps that write a row or the status of a withdrawal *)

\* What is left to show of one that leaves the chain's and the counters' part alone.
LEMMA WriteMove ==
    ASSUME Inv, SInv, NEW w, Workers = {w}, SameChain, UNCHANGED <<confirmed, pending>>,
           NEW k, k = work'[w], BooksOK(k)', NonceOK(k)',
           k.pc \in Holding <=> work[w].pc \in Holding,
           \A t \in TxIds : t <= lastTx => txs'[t].pay = txs[t].pay,
           \A p \in Withdrawals :
               /\ pay'[p] \in {"none", "pending"} => pay[p] \in {"none", "pending"}
               /\ Accepted(work[w], p) /\ pay'[p] \in {"none", "pending"} => Accepted(k, p),
           Lossless => \A t \in TxIds : chain[t].state = "pool" => txs'[t].status = txs[t].status,
           Lossless /\ k.pc \in {"undoNonce", "undoTx"} /\ k.tx # 0 => chain'[k.tx].state = "unsent"
    PROVE  SInv'
  <1>1. PICK l : l = work[w]
    OBVIOUS
  <1>2. SerialOK(l)
    BY <1>1 DEF SInv
  <1>3. Free(k)' = Free(l)
    BY <1>1 DEF Free
  <1>4. ASSUME Nonced PROVE LivesOK(k)'
    BY <1>1, <1>2, <1>3, <1>4, LivesStay DEF SerialOK
  <1>5. ASSUME Lossless PROVE GaplessOK(k)'
    BY <1>2, <1>3, <1>5, GaplessStays DEF SerialOK
  <1> QED
    BY <1>4, <1>5, SerialFinish DEF SerialOK

\* The rows of a withdrawal do not say anything of another.
LEMMA OtherAgrees ==
    ASSUME NEW p, Agree(p), pay'[p] = pay[p], NEW t,
           \A u \in TxIds : u # t => txs'[u].pay = txs[u].pay /\ txs'[u].status = txs[u].status,
           ~Open(t, p), ~Open(t, p)'
    PROVE  Agree(p)'
  <1>1. \A u \in TxIds : (Open(u, p)' <=> Open(u, p)) /\ (Open(u, p) => txs'[u].status = txs[u].status)
    BY DEF Open
  <1> QED
    BY <1>1, AgreeStays

LEMMA SCreateTx ==
    ASSUME Inv, SInv, OneAtATime, NEW w \in Workers, CreateTx(w) PROVE SInv'
  <1>1. Workers = {w}
    BY DEF OneAtATime
  <1>2. PICK t : t = lastTx + 1
    OBVIOUS
  <1>3. t \in TxIds /\ lastTx \in Nat /\ t > lastTx /\ txs[t].status = "none" /\ chain[t].state = "unsent"
    BY <1>2, SMTT(30) DEF CreateTx, Inv, TypeOK, TxIds, RowOK
  <1>4. PICK k : k = work'[w]
    OBVIOUS
  <1>5. /\ work[w].pc = "createTx" /\ UNCHANGED <<pay, confirmed, pending>>
        /\ k.pc = "decrement" /\ k.pay = work[w].pay /\ k.tx = t /\ k.nonce = work[w].nonce
    BY <1>2, <1>4 DEF CreateTx, At, counters, Inv, TypeOK, Local
  <1>6. /\ txs'[t] = [status |-> "pending", pay |-> work[w].pay, hash |-> FALSE]
        /\ chain'[t].nonce = work[w].nonce /\ chain'[t].state = "unsent"
        /\ \A u \in TxIds : u # t => txs'[u] = txs[u] /\ chain'[u] = chain[u]
    <2>1. /\ txs' = [txs EXCEPT ![t] = [status |-> "pending", pay |-> work[w].pay, hash |-> FALSE]]
          /\ chain' = [chain EXCEPT ![t].nonce = work[w].nonce]
      BY <1>2 DEF CreateTx
    <2>2. txs \in [TxIds -> Row] /\ chain \in [TxIds -> OnChain] /\ chain[t] \in OnChain
      BY <1>3 DEF Inv, TypeOK
    <2>3. chain'[t] = [chain[t] EXCEPT !.nonce = work[w].nonce]
      BY <1>3, <2>1, <2>2
    <2>4. chain'[t].nonce = work[w].nonce /\ chain'[t].state = "unsent"
      BY <1>3, <2>2, <2>3 DEF OnChain
    <2> QED
      BY <1>3, <2>1, <2>2, <2>4
  <1>7. SameChain
    BY <1>3, <1>6 DEF SameChain, Live
  <1>8. BooksOK(work[w]) /\ NonceOK(work[w])
    BY DEF SInv, SerialOK
  <1>9. BooksOK(k)'
    <2>1. ASSUME NEW p \in Withdrawals, p # k.pay PROVE Agree(p)'
      <3>1. ~Open(t, p) /\ ~Open(t, p)'
        BY <1>3, <1>5, <1>6, <2>1 DEF Open
      <3>2. Agree(p)
        BY <1>5, <1>8, <2>1 DEF BooksOK
      <3>3. pay'[p] = pay[p]
        BY <1>5
      <3>4. \A u \in TxIds : u # t => txs'[u].pay = txs[u].pay /\ txs'[u].status = txs[u].status
        BY <1>6
      <3> QED
        BY <3>1, <3>2, <3>3, <3>4, OtherAgrees
    <2>2. \A u \in TxIds : Open(u, k.pay)' => u = k.tx
      <3>1. \A u \in TxIds : ~Open(u, work[w].pay)
        BY <1>5, <1>8 DEF BooksOK, Bare
      <3> QED
        BY <1>5, <1>6, <3>1 DEF Open
    <2>3. pay'[k.pay] = "pending" /\ txs'[k.tx].status = "pending"
      BY <1>5, <1>6, <1>8 DEF BooksOK, Creating
    <2>4. k.pc = "decrement"
      BY <1>5
    <2> QED
      BY <2>1, <2>2, <2>3, <2>4 DEF BooksOK, Bare, Made, Checking, Creating
  <1>10. NonceOK(k)'
    <2>1. pending >= 1 /\ work[w].nonce = confirmed + pending - 1
      BY <1>5, <1>8 DEF NonceOK, Free, Holding
    <2> QED
      BY <1>5, <1>6, <2>1 DEF NonceOK, Free, Holding
  <1>11. \A u \in TxIds : u <= lastTx => txs'[u].pay = txs[u].pay
    BY <1>3, <1>6 DEF TxIds
  <1>12. \A u \in TxIds : chain[u].state = "pool" => txs'[u].status = txs[u].status
    BY <1>3, <1>6
  <1>13. /\ k.pc \in Holding <=> work[w].pc \in Holding
         /\ k.pc \notin {"undoNonce", "undoTx"} /\ \A p \in Withdrawals : ~Accepted(work[w], p)
    BY <1>5 DEF Holding, Accepted
  <1> QED
    BY <1>1, <1>4, <1>5, <1>7, <1>9, <1>10, <1>11, <1>12, <1>13, WriteMove

LEMMA SSetHash ==
    ASSUME Inv, SInv, OneAtATime, NEW w \in Workers, SetHash(w) PROVE SInv'
  <1>1. Workers = {w}
    BY DEF OneAtATime
  <1>2. PICK k : k = work'[w]
    OBVIOUS
  <1>3. /\ work[w].pc = "setHash" /\ UNCHANGED <<pay, confirmed, pending, chain>>
        /\ txs' = [txs EXCEPT ![work[w].tx].hash = TRUE] /\ Goto(w, "markInProgress")
    BY DEF SetHash, At, counters, OneAtATime
  <1>4. k.pc = "markInProgress" /\ k.pay = work[w].pay /\ k.tx = work[w].tx
    BY <1>2, <1>3, GotoFacts
  <1>5. \A u \in TxIds : txs'[u].pay = txs[u].pay /\ txs'[u].status = txs[u].status
    <2>1. txs \in [TxIds -> Row]
      BY DEF Inv, TypeOK
    <2> QED
      BY <1>3, <2>1 DEF Row
  <1>6. \A p \in Withdrawals : Agree(p) => Agree(p)'
    <2>1. \A p, u : u \in TxIds => (Open(u, p)' <=> Open(u, p))
      BY <1>5 DEF Open
    <2> QED
      BY <1>3, <1>5, <2>1, AgreeStays
  <1>7. BooksOK(work[w]) /\ work[w].tx \in TxIds
    BY <1>3 DEF SInv, SerialOK, Inv, LocalOK, WithTx, Belongs
  <1>8. BooksOK(k)'
    <2>1. \A p \in Withdrawals : p # k.pay => Agree(p)'
      BY <1>4, <1>6, <1>7 DEF BooksOK
    <2>2. \A u \in TxIds : Open(u, k.pay)' => u = k.tx
      BY <1>3, <1>4, <1>5, <1>7 DEF BooksOK, Made, Open
    <2>3. pay'[k.pay] = "pending" /\ txs'[k.tx].status = "pending"
      BY <1>3, <1>4, <1>5, <1>7 DEF BooksOK, Creating, Made
    <2> QED
      BY <1>4, <2>1, <2>2, <2>3 DEF BooksOK, Bare, Made, Checking, Creating
  <1>9. SameChain
    BY <1>3 DEF SameChain
  <1>10. NonceOK(k)' /\ (k.pc \in Holding <=> work[w].pc \in Holding)
         /\ \A p \in Withdrawals : Accepted(work[w], p) => Accepted(k, p)
    BY <1>3, <1>4 DEF NonceOK, Holding, Accepted
  <1> QED
    BY <1>1, <1>2, <1>3, <1>4, <1>5, <1>8, <1>9, <1>10, WriteMove

\* The worker writes the last status of its withdrawal and ends.
LEMMA SettleMove ==
    ASSUME Inv, SInv, NEW w, Workers = {w}, NEW s \in {"inProgress", "success", "failed"},
           pay' = [pay EXCEPT ![work[w].pay] = s], End(w), UNCHANGED <<txs, chain, confirmed, pending>>,
           work[w].pc \in {"markInProgress", "markSuccess", "failPayment"},
           \A t, u \in TxIds : Open(t, work[w].pay) /\ Open(u, work[w].pay) => t = u,
           s = "inProgress" <=> \E t \in TxIds : Open(t, work[w].pay) /\ txs[t].status = "pending",
           s = "success" <=> \E t \in TxIds : Open(t, work[w].pay) /\ txs[t].status = "completed"
    PROVE  SInv'
  <1>1. PICK k, q : k = Idle /\ q = work[w].pay
    OBVIOUS
  <1>2. work'[w] = k /\ k.pc = "idle" /\ q \in Withdrawals
    BY <1>1 DEF End, Inv, TypeOK, Idle, LocalOK
  <1>3. pay'[q] = s /\ \A p \in Withdrawals : p # q => pay'[p] = pay[p]
    BY <1>1, <1>2 DEF Inv, TypeOK
  <1>4. \A p : \A t \in TxIds : Open(t, p)' <=> Open(t, p)
    BY DEF Open
  <1>5. Agree(q)'
    BY <1>1, <1>3, <1>4 DEF Agree
  <1>6. ASSUME NEW p \in Withdrawals, p # q PROVE Agree(p)'
    <2>1. Agree(p)
      BY <1>1, <1>6 DEF SInv, SerialOK, BooksOK
    <2> QED
      BY <1>3, <1>4, <1>6, <2>1, AgreeStays
  <1>7. BooksOK(k)' /\ NonceOK(k)'
    BY <1>2, <1>5, <1>6 DEF BooksOK, NonceOK, Holding, Bare, Made, Checking, Creating
  <1>8. SameChain
    BY DEF SameChain
  <1>9. \A p \in Withdrawals : /\ pay'[p] \in {"none", "pending"} => pay[p] \in {"none", "pending"}
                               /\ Accepted(work[w], p) => pay'[p] \notin {"none", "pending"}
    BY <1>1, <1>3 DEF Accepted
  <1> QED
    BY <1>2, <1>7, <1>8, <1>9, WriteMove DEF Holding

LEMMA SSettle ==
    ASSUME Inv, SInv, OneAtATime, NEW w \in Workers,
           MarkInProgress(w) \/ MarkSuccess(w) \/ FailPayment(w)
    PROVE  SInv'
  <1>1. Workers = {w}
    BY DEF OneAtATime
  <1>2. BooksOK(work[w]) /\ LocalOK(work[w])
    BY DEF SInv, SerialOK, Inv
  <1>3. CASE MarkInProgress(w)
    <2>1. work[w].pc = "markInProgress" /\ UNCHANGED <<txs, chain, confirmed, pending>>
      BY <1>3 DEF MarkInProgress, At, counters
    <2>2. Open(work[w].tx, work[w].pay) /\ txs[work[w].tx].status = "pending" /\ work[w].tx \in TxIds
      BY <1>2, <2>1 DEF LocalOK, WithTx, Belongs, BooksOK, Made, Open
    <2>3. \A t \in TxIds : Open(t, work[w].pay) => t = work[w].tx
      BY <1>2, <2>1 DEF BooksOK, Made
    <2> QED
      BY <1>1, <1>3, <2>1, <2>2, <2>3, SettleMove DEF MarkInProgress
  <1>4. CASE MarkSuccess(w)
    <2>1. work[w].pc = "markSuccess" /\ UNCHANGED <<txs, chain, confirmed, pending>>
      BY <1>4 DEF MarkSuccess, At, counters
    <2>2. Open(work[w].tx, work[w].pay) /\ txs[work[w].tx].status = "completed" /\ work[w].tx \in TxIds
      BY <1>2, <2>1 DEF LocalOK, WithTx, Executing, Belongs, BooksOK, Open
    <2>3. \A t \in TxIds : Open(t, work[w].pay) => t = work[w].tx
      BY <1>2, <2>1 DEF BooksOK
    <2> QED
      BY <1>1, <1>4, <2>1, <2>2, <2>3, SettleMove DEF MarkSuccess
  <1>5. CASE FailPayment(w)
    <2>1. work[w].pc = "failPayment" /\ UNCHANGED <<txs, chain, confirmed, pending>>
      BY <1>5 DEF FailPayment, At, counters
    <2>2. \A t \in TxIds : ~Open(t, work[w].pay)
      BY <1>2, <2>1 DEF BooksOK, Bare
    <2> QED
      BY <1>1, <1>5, <2>1, <2>2, SettleMove DEF FailPayment
  <1> QED
    BY <1>3, <1>4, <1>5

\* The worker writes the status of its row, which is not waiting on the chain.
LEMMA StatusMove ==
    ASSUME Inv, SInv, NEW w, Workers = {w}, NEW s \in TxStatus,
           txs' = [txs EXCEPT ![work[w].tx].status = s], UNCHANGED <<pay, chain, confirmed, pending>>,
           work[w].pc \in {"undoTx", "confirmWrite", "cancelTx"},
           NEW k, k = work'[w], k.pc \notin {"undoTx"} \cup Holding \cup Checking, ~Made(k),
           NEW q, q = work[w].pay, k.pay # q => Agree(q)',
           k.pc \in Creating => pay'[k.pay] = "pending",
           Bare(k) => \A u \in TxIds : ~Open(u, k.pay)',
           k.pc = "markSuccess" =>
               txs'[k.tx].status = "completed" /\ \A u \in TxIds : Open(u, k.pay)' => u = k.tx
    PROVE  SInv'
  <1>1. PICK t : t = work[w].tx
    OBVIOUS
  <1>2. t \in TxIds /\ txs[t].pay = q /\ LocalOK(work[w]) /\ BooksOK(work[w])
    BY <1>1 DEF Inv, LocalOK, WithTx, Executing, Reverting, Belongs, SInv, SerialOK
  <1>3. \A u \in TxIds : /\ txs'[u].pay = txs[u].pay
                         /\ u # t => txs'[u].status = txs[u].status
    <2>1. txs \in [TxIds -> Row]
      BY DEF Inv, TypeOK
    <2> QED
      BY <1>1, <1>2, <2>1 DEF Row
  <1>4. ASSUME NEW p \in Withdrawals, p # q PROVE Agree(p)'
    <2>1. Agree(p) /\ pay'[p] = pay[p]
      BY <1>1, <1>2, <1>4 DEF BooksOK
    <2>2. ~Open(t, p) /\ ~Open(t, p)'
      BY <1>2, <1>3, <1>4 DEF Open
    <2> QED
      BY <1>3, <2>1, <2>2, OtherAgrees
  <1>5. BooksOK(k)' /\ NonceOK(k)'
    <2>1. \A p \in Withdrawals : p # k.pay \/ k.pc \in Checking => Agree(p)'
      BY <1>4
    <2> QED
      BY <2>1 DEF BooksOK, NonceOK
  <1>6. SameChain
    BY DEF SameChain
  <1>7. ASSUME Lossless, NEW u \in TxIds, chain[u].state = "pool" PROVE txs'[u].status = txs[u].status
    <2>1. chain[t].state # "pool"
      <3>1. CASE work[w].pc = "undoTx"
        <4>1. GaplessOK(work[w]) /\ t # 0
          BY <1>2, <1>7 DEF SInv, SerialOK, TxIds
        <4> QED
          BY <1>1, <3>1, <4>1 DEF GaplessOK
      <3>2. CASE work[w].pc \in {"confirmWrite", "cancelTx"}
        BY <1>1, <1>2, <3>2 DEF LocalOK, Executing, Reverting
      <3> QED
        BY <3>1, <3>2
    <2> QED
      BY <1>3, <1>7, <2>1
  <1>8. \A p \in Withdrawals : ~Accepted(work[w], p)
    BY DEF Accepted
  <1> QED
    BY <1>3, <1>5, <1>6, <1>7, <1>8, WriteMove DEF Holding

\* After such a write the rows of the worker's withdrawal are no more open.
LEMMA ClosesRow ==
    ASSUME Inv, NEW w \in Workers, NEW s \in {"canceled", "failed"}, BooksOK(work[w]),
           txs' = [txs EXCEPT ![work[w].tx].status = s], work[w].pc \in {"undoTx", "cancelTx"},
           NEW q, q = work[w].pay
    PROVE  \A t \in TxIds : ~Open(t, q)'
  <1>1. work[w].tx \in TxIds /\ txs[work[w].tx].pay = q /\ q \in Withdrawals
    BY DEF Inv, LocalOK, WithTx, Reverting, Belongs
  <1>2. \A u \in TxIds : /\ txs'[u].pay = txs[u].pay
                         /\ u # work[w].tx => txs'[u].status = txs[u].status
                         /\ u = work[w].tx => txs'[u].status = s
    <2>1. txs \in [TxIds -> Row]
      BY DEF Inv, TypeOK
    <2> QED
      BY <1>1, <2>1 DEF Row
  <1>3. \A t \in TxIds : Open(t, q) => t = work[w].tx
    <2>1. CASE work[w].pc = "undoTx"
      BY <2>1 DEF BooksOK, Made
    <2>2. CASE work[w].pc = "cancelTx"
      <3>1. Agree(q) /\ Open(work[w].tx, q)
        BY <1>1, <2>2 DEF BooksOK, Checking, Open
      <3> QED
        BY <1>1, <3>1 DEF Agree
    <2> QED
      BY <2>1, <2>2
  <1> QED
    BY <1>2, <1>3 DEF Open

LEMMA SUndoTx ==
    ASSUME Inv, SInv, OneAtATime, NEW w \in Workers, UndoTx(w) PROVE SInv'
  <1>1. Workers = {w}
    BY DEF OneAtATime
  <1>2. /\ work[w].pc = "undoTx" /\ UNCHANGED <<pay, chain, confirmed, pending>>
        /\ txs' = [txs EXCEPT ![work[w].tx].status = "canceled"]
        /\ End(w) \/ Goto(w, "undoBalances") \/ Goto(w, "failPayment")
    BY DEF UndoTx, At, counters
  <1>3. BooksOK(work[w])
    BY DEF SInv, SerialOK
  <1>4. PICK k, q : k = work'[w] /\ q = work[w].pay
    OBVIOUS
  <1>5. pay[q] = "pending" /\ pay'[q] = "pending"
    BY <1>2, <1>3, <1>4 DEF BooksOK, Creating
  <1>6. \A t \in TxIds : ~Open(t, q)'
    BY <1>2, <1>3, <1>4, ClosesRow
  <1>7. Agree(q)'
    BY <1>5, <1>6 DEF Agree
  <1>8. CASE End(w)
    <2>1. k.pc = "idle"
      BY <1>4, <1>8 DEF End, Idle, Inv, TypeOK
    <2> QED
      BY <1>1, <1>2, <1>4, <1>7, <2>1, StatusMove DEF TxStatus, Holding, Creating, Bare, Made, Checking
  <1>9. ASSUME NEW x \in {"undoBalances", "failPayment"}, Goto(w, x) PROVE SInv'
    <2>1. k.pc = x /\ k.pay = q
      BY <1>4, <1>9, GotoFacts
    <2> QED
      BY <1>1, <1>2, <1>4, <1>5, <1>6, <1>7, <2>1, StatusMove DEF TxStatus, Holding, Creating, Bare, Made, Checking
  <1> QED
    BY <1>2, <1>8, <1>9

LEMMA SCancelTx ==
    ASSUME Inv, SInv, OneAtATime, NEW w \in Workers, CancelTx(w) PROVE SInv'
  <1>1. Workers = {w}
    BY DEF OneAtATime
  <1>2. /\ work[w].pc = "cancelTx" /\ UNCHANGED <<pay, chain, confirmed, pending>>
        /\ txs' = [txs EXCEPT ![work[w].tx].status = "failed"] /\ Goto(w, "restore")
    BY DEF CancelTx, At, counters
  <1>3. BooksOK(work[w])
    BY DEF SInv, SerialOK
  <1>4. PICK k, q : k = work'[w] /\ q = work[w].pay
    OBVIOUS
  <1>5. \A t \in TxIds : ~Open(t, q)'
    BY <1>2, <1>3, <1>4, ClosesRow
  <1>6. k.pc = "restore" /\ k.pay = q
    BY <1>2, <1>4, GotoFacts
  <1>7. /\ k.pc \notin {"undoTx"} \cup Holding \cup Checking /\ ~Made(k)
        /\ k.pc \notin Creating /\ k.pc # "markSuccess"
        /\ work[w].pc \in {"undoTx", "confirmWrite", "cancelTx"} /\ "failed" \in TxStatus
    BY <1>2, <1>6 DEF Holding, Checking, Made, Creating, TxStatus
  <1>8. \A t \in TxIds : ~Open(t, k.pay)'
    BY <1>5, <1>6 DEF Open
  <1> QED
    BY <1>1, <1>2, <1>4, <1>6, <1>7, <1>8, StatusMove

LEMMA SConfirmWrite ==
    ASSUME Inv, SInv, OneAtATime, NEW w \in Workers, ConfirmWrite(w) PROVE SInv'
  <1>1. Workers = {w}
    BY DEF OneAtATime
  <1>2. work[w].pc = "confirmWrite" /\ UNCHANGED <<pay, chain, confirmed, pending>>
    BY DEF ConfirmWrite, At, counters
  <1>3. CASE End(w) /\ UNCHANGED txs
    BY <1>1, <1>2, <1>3, CheckMove DEF Checking, Inv, TypeOK
  <1>4. CASE txs' = [txs EXCEPT ![work[w].tx].status = "completed"] /\ Goto(w, "markSuccess")
    <2>1. PICK k, q, t : k = work'[w] /\ q = work[w].pay /\ t = work[w].tx
      OBVIOUS
    <2>2. k.pc = "markSuccess" /\ k.pay = q /\ k.tx = t
      BY <1>4, <2>1, GotoFacts
    <2>3. t \in TxIds /\ txs[t].pay = q /\ q \in Withdrawals
      BY <1>2, <2>1 DEF Inv, LocalOK, WithTx, Executing, Belongs
    <2>4. \A u \in TxIds : /\ txs'[u].pay = txs[u].pay
                           /\ u # t => txs'[u].status = txs[u].status
                           /\ u = t => txs'[u].status = "completed"
      <3>1. txs \in [TxIds -> Row]
        BY DEF Inv, TypeOK
      <3> QED
        BY <1>4, <2>1, <2>3, <3>1 DEF Row
    <2>5. Agree(q) /\ Open(t, q)
      BY <1>2, <2>1, <2>3 DEF SInv, SerialOK, BooksOK, Checking, Open
    <2>6. \A u \in TxIds : Open(u, q)' => u = t
      BY <2>3, <2>4, <2>5 DEF Agree, Open
    <2>7. txs'[t].status = "completed"
      BY <2>3, <2>4
    <2>8. /\ k.pc \notin {"undoTx"} \cup Holding \cup Checking /\ ~Made(k) /\ ~Bare(k)
          /\ k.pc \notin Creating
          /\ work[w].pc \in {"undoTx", "confirmWrite", "cancelTx"} /\ "completed" \in TxStatus
      BY <1>2, <2>2 DEF Holding, Checking, Made, Bare, Creating, TxStatus
    <2>9. txs'[k.tx].status = "completed" /\ \A u \in TxIds : Open(u, k.pay)' => u = k.tx
      BY <2>2, <2>6, <2>7 DEF Open
    <2> QED
      BY <1>1, <1>2, <1>4, <2>1, <2>2, <2>8, <2>9, StatusMove
  <1> QED
    BY <1>3, <1>4 DEF ConfirmWrite

LEMMA SCreateWithdrawal ==
    ASSUME Inv, SInv, OneAtATime, NEW q \in Withdrawals, CreateWithdrawal(q) PROVE SInv'
  <1>1. PICK w : Workers = {w}
    BY DEF OneAtATime
  <1>2. PICK k : k = work'[w]
    OBVIOUS
  <1>3. /\ k = work[w] /\ UNCHANGED <<txs, chain, confirmed, pending>> /\ pay[q] = "none"
        /\ pay'[q] = "pending" /\ \A p \in Withdrawals : p # q => pay'[p] = pay[p]
    BY <1>2 DEF CreateWithdrawal, counters, Inv, TypeOK
  <1>4. BooksOK(k) /\ NonceOK(k) /\ LocalOK(k)
    BY <1>1, <1>3 DEF SInv, SerialOK, Inv
  <1>5. \A p : \A t \in TxIds : Open(t, p)' <=> Open(t, p)
    BY <1>3 DEF Open
  <1>6. ASSUME NEW p \in Withdrawals, Agree(p) PROVE Agree(p)'
    <2>1. CASE p = q
      BY <1>3, <1>5, <1>6, <2>1 DEF Agree
    <2>2. CASE p # q
      BY <1>3, <1>5, <1>6, <2>2, AgreeStays
    <2> QED
      BY <2>1, <2>2
  <1>7. BooksOK(k)'
    <2>1. \A p \in Withdrawals : p # k.pay \/ k.pc \in Checking => Agree(p)'
      BY <1>4, <1>6 DEF BooksOK
    <2>2. k.pc \in Creating => pay'[k.pay] = "pending"
      <3>1. k.pc \in Creating => k.pay \in Withdrawals
        BY <1>4 DEF LocalOK, Creating
      <3> QED
        BY <1>3, <1>4, <3>1 DEF BooksOK
    <2> QED
      BY <1>3, <1>4, <1>5, <2>1, <2>2 DEF BooksOK
  <1>8. NonceOK(k)' /\ SameChain
    BY <1>3, <1>4 DEF NonceOK, Free, SameChain
  <1>9. Lossless /\ k.pc \in {"undoNonce", "undoTx"} /\ k.tx # 0 => chain'[k.tx].state = "unsent"
    BY <1>1, <1>3 DEF SInv, SerialOK, GaplessOK
  <1>10. \A p \in Withdrawals :
            /\ pay'[p] \in {"none", "pending"} => pay[p] \in {"none", "pending"}
            /\ Accepted(work[w], p) /\ pay'[p] \in {"none", "pending"} => Accepted(k, p)
    BY <1>3
  <1> QED
    BY <1>1, <1>2, <1>3, <1>7, <1>8, <1>9, <1>10, WriteMove

-----------------------------------------------------------------------------
(* The chain *)

LEMMA RowsAreFinite == IsFiniteSet(TxIds)
  <1>1. 1 \in Int /\ MaxTx \in Int
    BY DEF ConstantsAssumption
  <1> QED
    BY <1>1, FS_Interval DEF TxIds

LEMMA MinedIsFinite == IsFiniteSet(Mined)
  <1>1. Mined \subseteq TxIds
    BY DEF Mined
  <1> QED
    BY <1>1, RowsAreFinite, FS_Subset

\* What the nodes make of a transaction they take.
LEMMA AcceptFacts ==
    ASSUME Inv, NEW t \in TxIds, Accept(t), chain[t].state = "unsent"
    PROVE  \A u \in TxIds :
               /\ chain'[u].nonce = chain[u].nonce
               /\ u = t => chain'[u].state = "pool"
               /\ u # t /\ u \in Rivals(t) => chain[u].state = "pool" /\ chain'[u].state = "dropped"
               /\ u # t /\ u \notin Rivals(t) => chain'[u] = chain[u]
  <1> SUFFICES ASSUME NEW u \in TxIds
               PROVE  /\ chain'[u].nonce = chain[u].nonce
                      /\ u = t => chain'[u].state = "pool"
                      /\ u # t /\ u \in Rivals(t) => chain[u].state = "pool" /\ chain'[u].state = "dropped"
                      /\ u # t /\ u \notin Rivals(t) => chain'[u] = chain[u]
    OBVIOUS
  <1>1. chain[u] \in OnChain
    BY DEF Inv, TypeOK
  <1>2. CASE u = t
    <2>1. chain'[u] = [chain[u] EXCEPT !.state = "pool"]
      BY <1>2 DEF Accept
    <2> QED
      BY <1>1, <1>2, <2>1 DEF OnChain
  <1>3. CASE u # t /\ u \in Rivals(t)
    <2>1. chain'[u] = [chain[u] EXCEPT !.state = "dropped"] /\ chain[u].state = "pool"
      BY <1>3 DEF Accept
    <2> QED
      BY <1>1, <1>3, <2>1 DEF OnChain
  <1>4. CASE u # t /\ u \notin Rivals(t)
    BY <1>4 DEF Accept
  <1> QED
    BY <1>2, <1>3, <1>4

\* The nodes take the worker's transaction, whether or not it is told.
LEMMA AcceptMove ==
    ASSUME Inv, SInv, NEW w \in Workers, Workers = {w}, work[w].pc = "broadcast", Accept(work[w].tx),
           UNCHANGED <<pay, txs, confirmed, pending>>,
           NEW q \in {"setHash", "undoNonce"}, Goto(w, q), q = "setHash" \/ ~Lossless
    PROVE  SInv'
  <1>1. PICK t, l, k : t = work[w].tx /\ l = work[w] /\ k = work'[w]
    OBVIOUS
  <1>2. /\ l.pc = "broadcast" /\ l.tx = t /\ k.pc = q /\ k.pay = l.pay /\ k.tx = t /\ k.nonce = l.nonce
        /\ SerialOK(l) /\ LocalOK(l) /\ confirmed \in Nat /\ pending \in Nat
    BY <1>1, GotoFacts DEF SInv, Inv, TypeOK
  <1>3. t \in TxIds /\ txs[t].pay = l.pay /\ l.pay \in Withdrawals /\ chain[t].state = "unsent" /\ t # 0
    BY <1>2 DEF LocalOK, WithTx, Sending, Belongs, TxIds
  <1>4. \A u \in TxIds :
               /\ chain'[u].nonce = chain[u].nonce
               /\ u = t => chain'[u].state = "pool"
               /\ u # t /\ u \in Rivals(t) => chain[u].state = "pool" /\ chain'[u].state = "dropped"
               /\ u # t /\ u \notin Rivals(t) => chain'[u] = chain[u]
    BY <1>1, <1>3, AcceptFacts
  <1>5. /\ BooksOK(l) /\ NonceOK(l) /\ pending >= 1
        /\ chain[t].nonce = Free(l) /\ Free(l) = confirmed + pending - 1 /\ Free(l) \in Nat
        /\ Free(k)' = IF q = "setHash" THEN Free(l) + 1 ELSE Free(l)
    BY <1>2, <1>3 DEF SerialOK, NonceOK, Holding, Free
  <1>6. BooksOK(k)'
    <2>1. \A p \in Withdrawals : Agree(p) => Agree(p)'
      BY DEF Agree, Open
    <2>2. \A p \in Withdrawals : p # k.pay => Agree(p)'
      BY <1>2, <1>5, <2>1 DEF BooksOK
    <2>3. \A u \in TxIds : Open(u, k.pay)' => u = k.tx
      BY <1>2, <1>5 DEF BooksOK, Made, Open
    <2>4. pay'[k.pay] = "pending" /\ txs'[k.tx].status = "pending"
      BY <1>2, <1>5 DEF BooksOK, Creating, Made
    <2> QED
      BY <1>2, <1>3, <2>2, <2>3, <2>4 DEF BooksOK, Bare, Made, Checking, Creating
  <1>7. NonceOK(k)'
    <2>1. l.nonce = Free(l)
      BY <1>2, <1>5 DEF NonceOK, Holding
    <2> QED
      BY <1>2, <1>3, <1>4, <1>5, <2>1 DEF NonceOK, Holding
  <1>8. ASSUME Nonced PROVE LivesOK(k)'
    <2>1. LivesOK(l) /\ pay[l.pay] = "pending" /\ \A p : ~Accepted(l, p)
      BY <1>2, <1>5, <1>8 DEF SerialOK, BooksOK, Creating, Accepted
    <2>2. ASSUME NEW u \in TxIds, Live(u)', u # t
          PROVE  Live(u) /\ chain[u].nonce # Free(l) /\ chain[u].nonce <= Free(l)
                 /\ chain[u].nonce \in Nat /\ txs[u].pay # l.pay /\ pay[txs[u].pay] \notin {"none", "pending"}
      <3>1. Live(u) /\ u \notin Rivals(t)
        BY <1>4, <2>2 DEF Live
      <3>2. chain[u].nonce # Free(l)
        BY <1>5, <1>8, <2>2, <3>1 DEF Rivals, Live
      <3> QED
        BY <2>1, <3>1, <3>2 DEF LivesOK, Inv, TypeOK, OnChain
    <2>3. \A u \in TxIds : Live(u)' => chain'[u].nonce <= Free(k)'
      BY <1>3, <1>4, <1>5, <2>2
    <2>4. ASSUME NEW u \in TxIds, NEW v \in TxIds, Live(u)', Live(v)', chain'[u].nonce = chain'[v].nonce
          PROVE  u = v
      BY <1>3, <1>4, <1>5, <2>1, <2>2, <2>4 DEF LivesOK
    <2>5. ASSUME NEW u \in TxIds, Live(u)', pay'[txs'[u].pay] \in {"none", "pending"}, ~Accepted(k, txs'[u].pay)
          PROVE  chain'[u].nonce = Free(k)'
      <3>1. u = t
        BY <2>2, <2>5
      <3>2. q # "setHash"
        BY <1>2, <1>3, <2>5, <3>1 DEF Accepted
      <3> QED
        BY <1>3, <1>4, <1>5, <3>1, <3>2
    <2>6. ASSUME NEW u \in TxIds, NEW v \in TxIds, Live(u)', Live(v)', txs'[u].pay = txs'[v].pay
          PROVE  u = v
      BY <1>3, <2>1, <2>2, <2>6 DEF LivesOK
    <2> QED
      BY <2>3, <2>4, <2>5, <2>6 DEF LivesOK, Accepted
  <1>9. ASSUME Lossless PROVE GaplessOK(k)'
    <2>1. GaplessOK(l) /\ q = "setHash" /\ Free(k)' = Free(l) + 1
      BY <1>2, <1>5, <1>9 DEF SerialOK
    <2>2. Rivals(t) = {}
      BY <1>3, <1>5, <2>1 DEF Rivals, GaplessOK, Live, Inv, TypeOK, OnChain
    <2>3. \A u \in TxIds : u # t => chain'[u] = chain[u]
      BY <1>4, <2>2
    <2>4. /\ Live(t)' /\ chain'[t].nonce = Free(l) /\ chain'[t].state = "pool" /\ t \notin Mined
          /\ Mined' = Mined
      BY <1>3, <1>4, <1>5, <2>3 DEF Live, Mined
    <2>5. \A u \in TxIds : u # t => (Live(u)' <=> Live(u))
      BY <2>3 DEF Live
    <2>6. \A u \in TxIds : Live(u) => u # t
      BY <1>3 DEF Live
    <2>7. \A u \in TxIds : Live(u)' => chain'[u].nonce < Free(k)'
      BY <1>5, <2>1, <2>3, <2>4, <2>5 DEF GaplessOK, Inv, TypeOK, OnChain
    <2>8. ASSUME NEW n \in 0..(Free(k)' - 1) PROVE \E u \in TxIds : Live(u)' /\ chain'[u].nonce = n
      <3>1. CASE n = Free(l)
        BY <1>3, <2>4, <3>1
      <3>2. CASE n # Free(l)
        <4>1. n \in 0..(Free(l) - 1)
          BY <1>5, <2>1, <3>2
        <4>2. PICK u \in TxIds : Live(u) /\ chain[u].nonce = n
          BY <2>1, <4>1 DEF GaplessOK
        <4> QED
          BY <2>3, <2>5, <2>6, <4>2
      <3> QED
        BY <3>1, <3>2
    <2>9. ASSUME NEW u \in TxIds
          PROVE  /\ chain'[u].state # "dropped"
                 /\ u \in Mined' => chain'[u].nonce < Cardinality(Mined')
                 /\ chain'[u].state = "pool" => /\ chain'[u].nonce >= Cardinality(Mined')
                                                /\ txs'[u].status = "pending"
      <3>1. CASE u = t
        <4>1. txs[t].status = "pending"
          BY <1>2, <1>5 DEF BooksOK, Made
        <4>2. Cardinality(Mined) <= Free(l)
          BY <2>1 DEF GaplessOK
        <4> QED
          BY <2>4, <3>1, <4>1, <4>2
      <3>2. CASE u # t
        BY <2>1, <2>3, <2>4, <3>2 DEF GaplessOK
      <3> QED
        BY <3>1, <3>2
    <2>10. Cardinality(Mined)' <= Free(k)'
      <3>2. Cardinality(Mined) \in Nat
        BY MinedIsFinite, FS_CardinalityType
      <3>3. Cardinality(Mined) <= Free(l)
        BY <2>1 DEF GaplessOK
      <3> QED
        BY <1>5, <2>1, <2>4, <3>2, <3>3
    <2> QED
      BY <1>2, <2>1, <2>7, <2>8, <2>9, <2>10 DEF GaplessOK
  <1> QED
    BY <1>1, <1>6, <1>7, <1>8, <1>9, SerialFinish DEF SerialOK

LEMMA SBroadcast ==
    ASSUME Inv, SInv, OneAtATime, NEW w \in Workers, Broadcast(w) PROVE SInv'
  <1>1. Workers = {w}
    BY DEF OneAtATime
  <1>2. work[w].pc = "broadcast" /\ UNCHANGED <<pay, txs, confirmed, pending>>
    BY DEF Broadcast, At, counters
  <1>3. CASE "accepted" \in Outcomes /\ Accept(work[w].tx) /\ Goto(w, "setHash")
    BY <1>1, <1>2, <1>3, AcceptMove
  <1>4. CASE "lost" \in Outcomes /\ Accept(work[w].tx) /\ Goto(w, "undoNonce")
    BY <1>1, <1>2, <1>4, AcceptMove DEF Lossless
  <1>5. CASE UNCHANGED chain /\ Goto(w, "undoNonce")
    BY <1>1, <1>2, <1>5, GotoFacts, ToRollback
  <1>6. CASE UNCHANGED chain /\ work' = [work EXCEPT ![w].pc = "undoNonce", ![w].mark = TRUE]
    <2>1. /\ work'[w].pc = "undoNonce" /\ work'[w].pay = work[w].pay /\ work'[w].tx = work[w].tx
          /\ work'[w].nonce = work[w].nonce
      BY <1>6 DEF Inv, TypeOK, Local
    <2> QED
      BY <1>1, <1>2, <1>6, <2>1, ToRollback
  <1> QED
    BY <1>3, <1>4, <1>5, <1>6 DEF Broadcast

LEMMA SMine ==
    ASSUME Inv, SInv, OneAtATime, NEW t \in TxIds, NEW r \in {"success", "reverted"},
           NEW f \in NetworkFees, Mine(t, r, f)
    PROVE  SInv'
  <1>1. PICK w : Workers = {w}
    BY DEF OneAtATime
  <1>2. PICK k : k = work'[w]
    OBVIOUS
  <1>3. /\ k = work[w] /\ UNCHANGED <<pay, txs, confirmed, pending>> /\ chain[t].state = "pool"
        /\ chain' = [chain EXCEPT ![t].state = r, ![t].fee = f]
        /\ Nonced => chain[t].nonce = Cardinality(Mined)
    BY <1>2 DEF Mine, counters
  <1>4. SerialOK(k) /\ Free(k)' = Free(k)
    BY <1>1, <1>3 DEF SInv, Free
  <1>5. /\ \A u \in TxIds : chain'[u].nonce = chain[u].nonce
        /\ \A u \in TxIds : u # t => chain'[u] = chain[u]
        /\ chain'[t].state = r
    BY <1>3 DEF Inv, TypeOK, OnChain
  <1>6. \A u \in TxIds : Live(u)' <=> Live(u)
    BY <1>3, <1>5 DEF Live
  <1>7. BooksOK(k)'
    BY <1>3, <1>4 DEF SerialOK, BooksOK, Agree, Open
  <1>8. NonceOK(k)'
    <2>1. k.pc \in Holding /\ k.tx # 0 => k.tx \in TxIds
      <3>1. k \in Local
        BY <1>1, <1>3 DEF Inv, TypeOK
      <3> QED
        BY <3>1 DEF Local, TxIds
    <2> QED
      BY <1>3, <1>4, <1>5, <2>1 DEF SerialOK, NonceOK, Free
  <1>9. ASSUME Nonced PROVE LivesOK(k)'
    <2>1. LivesOK(k)
      BY <1>4, <1>9 DEF SerialOK
    <2>2. \A u \in TxIds : Live(u)' => chain'[u].nonce <= Free(k)'
      BY <1>3, <1>4, <1>5, <1>6, <2>1, ZenonT(40) DEF LivesOK
    <2>3. \A u, v \in TxIds : Live(u)' /\ Live(v)' /\ chain'[u].nonce = chain'[v].nonce => u = v
      BY <1>5, <1>6, <2>1 DEF LivesOK
    <2>4. ASSUME NEW u \in TxIds, Live(u)', pay'[txs'[u].pay] \in {"none", "pending"},
                 ~Accepted(k, txs'[u].pay)
          PROVE  chain'[u].nonce = Free(k)'
      <3>1. pay' = pay /\ txs' = txs
        BY <1>3
      <3>2. Live(u) /\ chain'[u].nonce = chain[u].nonce
        BY <1>5, <1>6, <2>4
      <3>3. pay[txs[u].pay] \in {"none", "pending"} /\ ~Accepted(k, txs[u].pay)
        BY <2>4, <3>1
      <3>4. chain[u].nonce = Free(k)
        BY <2>1, <3>2, <3>3 DEF LivesOK
      <3> QED
        BY <1>4, <3>2, <3>4
    <2>5. \A u, v \in TxIds : Live(u)' /\ Live(v)' /\ txs'[u].pay = txs'[v].pay => u = v
      BY <1>3, <1>6, <2>1 DEF LivesOK
    <2> QED
      BY <2>2, <2>3, <2>4, <2>5 DEF LivesOK, Accepted
  <1>10. ASSUME Lossless PROVE GaplessOK(k)'
    <2>1. GaplessOK(k) /\ LivesOK(k) /\ chain[t].nonce = Cardinality(Mined)
      BY <1>3, <1>4, <1>10 DEF SerialOK, Lossless
    <2>2. Mined' = Mined \cup {t} /\ t \notin Mined
      BY <1>3, <1>5 DEF Mined
    <2>3. IsFiniteSet(Mined)
      BY MinedIsFinite
    <2>4. Cardinality(Mined') = Cardinality(Mined) + 1 /\ Cardinality(Mined) \in Nat
      BY <2>2, <2>3, FS_AddElement, FS_CardinalityType
    <2>5. Live(t)
      BY <1>3 DEF Live
    <2>6. Cardinality(Mined') <= Free(k)'
      <3>1. Cardinality(Mined) < Free(k) /\ Free(k) \in Int
        <4>1. confirmed \in Nat /\ pending \in Nat
          BY DEF Inv, TypeOK
        <4> QED
          BY <2>1, <2>5, <4>1 DEF GaplessOK, Free
      <3> QED
        BY <1>4, <2>4, <3>1
    <2>7. ASSUME NEW u \in TxIds
          PROVE  /\ chain'[u].state # "dropped"
                 /\ u \in Mined' => chain'[u].nonce < Cardinality(Mined')
                 /\ chain'[u].state = "pool" => /\ chain'[u].nonce >= Cardinality(Mined')
                                                /\ txs'[u].status = "pending"
      <3>1. chain[u].nonce \in Nat
        BY DEF Inv, TypeOK, OnChain
      <3>2. CASE u = t
        BY <1>5, <2>1, <2>4, <3>2
      <3>3. CASE u # t
        <4>1. chain[u].state = "pool" => chain[u].nonce # chain[t].nonce
          BY <2>1, <2>5, <3>3 DEF LivesOK, Live
        <4>2. u \in Mined' => u \in Mined
          BY <2>2, <3>3
        <4>3. chain'[u] = chain[u] /\ txs' = txs
          BY <1>3, <1>5, <3>3
        <4>4. /\ chain[u].state # "dropped"
              /\ u \in Mined => chain[u].nonce < Cardinality(Mined)
              /\ chain[u].state = "pool" => chain[u].nonce >= Cardinality(Mined) /\ txs[u].status = "pending"
          BY <2>1 DEF GaplessOK
        <4> QED
          BY <2>1, <2>4, <3>1, <4>1, <4>2, <4>3, <4>4
      <3> QED
        BY <3>2, <3>3
    <2>8. k.pc \in {"undoNonce", "undoTx"} /\ k.tx # 0 => chain'[k.tx].state = "unsent"
      <3>1. k.tx # 0 => k.tx \in TxIds
        <4>1. k \in Local
          BY <1>1, <1>3 DEF Inv, TypeOK
        <4> QED
          BY <4>1 DEF Local, TxIds
      <3> QED
        BY <1>3, <1>5, <2>1, <3>1 DEF GaplessOK
    <2> QED
      BY <1>4, <1>5, <1>6, <2>1, <2>6, <2>7, <2>8 DEF GaplessOK
  <1> QED
    BY <1>1, <1>2, <1>7, <1>8, <1>9, <1>10, SerialFinish DEF SerialOK, Lossless

-----------------------------------------------------------------------------
LEMMA AtMostOne ==
    ASSUME NEW S, \A x, y \in S : x = y PROVE Cardinality(S) <= 1
  <1>1. CASE S = {}
    <2>1. Cardinality({}) = 0
      BY FS_EmptySet
    <2> QED
      BY <1>1, <2>1
  <1>2. CASE S # {}
    <2>1. PICK x \in S : TRUE
      BY <1>2
    <2>2. S = {x}
      BY <2>1
    <2>3. Cardinality({x}) = 1
      BY FS_Singleton
    <2> QED
      BY <2>2, <2>3
  <1> QED
    BY <1>1, <1>2

LEMMA InitSInv == OneAtATime /\ Init => SInv
  <1> SUFFICES ASSUME OneAtATime, Init PROVE SInv
    OBVIOUS
  <1>1. \A t \in TxIds : /\ txs[t].status = "none" /\ chain[t].state = "unsent"
    BY DEF Init, NoRow, Unsent
  <1>2. \A p \in Withdrawals : Agree(p)
    <2>1. \A p \in Withdrawals : pay[p] = "none"
      BY DEF Init
    <2> QED
      BY <1>1, <2>1 DEF Agree, Open
  <1>3. \A w \in Workers : work[w] = Idle
    BY DEF Init
  <1>4. Mined = {} /\ Cardinality(Mined) = 0
    <2>1. Mined = {}
      BY <1>1 DEF Mined
    <2>2. Cardinality({}) = 0
      BY FS_EmptySet
    <2> QED
      BY <2>1, <2>2
  <1>5. Free(Idle) = 0
    <2>1. confirmed = 0 /\ pending = 0
      BY DEF Init
    <2>2. Idle.pc \notin Holding
      BY DEF Idle, Holding
    <2>3. Free(Idle) = confirmed + pending - 0
      BY <2>2 DEF Free
    <2> QED
      BY <2>1, <2>3
  <1>6. BooksOK(Idle) /\ NonceOK(Idle)
    BY <1>2, IdleBooks DEF NonceOK, Idle, Holding
  <1>7. LivesOK(Idle)
    BY <1>1 DEF LivesOK, Live
  <1>8. GaplessOK(Idle)
    BY <1>1, <1>4, <1>5 DEF GaplessOK, Live, Idle
  <1> QED
    BY <1>3, <1>6, <1>7, <1>8 DEF SInv, SerialOK

LEMMA NextSInv == OneAtATime /\ Inv /\ SInv /\ [Next]_vars => SInv'
  <1> SUFFICES ASSUME OneAtATime, Inv, SInv, [Next]_vars PROVE SInv'
    OBVIOUS
  <1>1. CASE UNCHANGED vars
    <2>1. PICK w : Workers = {w}
      BY DEF OneAtATime
    <2>2. PICK k : k = work'[w]
      OBVIOUS
    <2>3. k = work[w] /\ UNCHANGED <<pay, txs, chain, confirmed, pending>>
      BY <1>1, <2>2 DEF vars
    <2>4. SerialOK(k)
      BY <2>1, <2>3 DEF SInv
    <2>5. SerialOK(k)'
      BY <2>3, <2>4 DEF SerialOK, BooksOK, NonceOK, LivesOK, GaplessOK, Free, Accepted, Agree, Open, Live, Mined
    <2> QED
      BY <2>1, <2>2, <2>5, SerialFinish
  <1>2. ASSUME NEW p \in Withdrawals, Ask(p) \/ CreateWithdrawal(p) PROVE SInv'
    BY <1>2, SAskStep, SCreateWithdrawal
  <1>3. ASSUME NEW w \in Workers, NEW p \in Withdrawals, StartCreate(w, p) PROVE SInv'
    BY <1>3, SStartCreate
  <1>4. ASSUME NEW w \in Workers, NEW t \in TxIds, StartCheck(w, t) PROVE SInv'
    BY <1>4, SStartCheck
  <1>5. ASSUME NEW w \in Workers, Step(w) PROVE SInv'
    <2>1. ~Abort(w)
      BY DEF Abort, OneAtATime
    <2> QED
      BY <1>5, <2>1, SCheckBalances, STakeNonce, SCreateTx, SDecrement, SBroadcast, SSetHash, SSettle, SError,
         SUndoNonce, SUndoTx, SUndoBalances, SCheckSteps, SConfirmWrite, SCancelTx, SRestore DEF Step
  <1>6. ASSUME NEW t \in TxIds, NEW r \in {"success", "reverted"}, NEW f \in NetworkFees, Mine(t, r, f)
        PROVE  SInv'
    BY <1>6, SMine
  <1> QED
    BY <1>1, <1>2, <1>3, <1>4, <1>5, <1>6 DEF Next

\* One job after the other, a withdrawal, its rows, the counters of the nonces and the
\* chain stay in step.
THEOREM SerialInvariant == OneAtATime => (Spec => [](Inv /\ SInv))
  <1> SUFFICES ASSUME OneAtATime PROVE Spec => [](Inv /\ SInv)
    OBVIOUS
  <1>1. Init => Inv /\ SInv
    BY InitInv, InitSInv
  <1>2. Inv /\ SInv /\ [Next]_vars => (Inv /\ SInv)'
    BY NextInv, NextSInv
  <1> QED
    BY <1>1, <1>2, PTL DEF Spec

\* One job after the other, a withdrawal is never paid out twice on a chain with nonces,
\* even if the answer to a broadcast is lost and the withdrawal is tried again.
THEOREM PaidOutOnce == OneAtATime /\ Nonced => (Spec => []AtMostOneTransfer)
  <1> SUFFICES ASSUME OneAtATime, Nonced PROVE Spec => []AtMostOneTransfer
    OBVIOUS
  <1>1. Inv /\ SInv => AtMostOneTransfer
    <2> SUFFICES ASSUME Inv, SInv, NEW p \in Withdrawals PROVE Cardinality(Transferred(p)) <= 1
      BY DEF AtMostOneTransfer
    <2>1. PICK w : Workers = {w}
      BY DEF OneAtATime
    <2>2. LivesOK(work[w])
      BY <2>1 DEF SInv, SerialOK
    <2>3. \A t, u \in Transferred(p) : t = u
      BY <2>2 DEF Transferred, TxsOf, LivesOK, Live
    <2> QED
      BY <2>3, AtMostOne
  <1> QED
    BY <1>1, SerialInvariant, PTL

\* One job after the other, between jobs a withdrawal is in progress exactly while its
\* transaction is pending and succeeded exactly if it completed, whatever the
\* broadcasts, the balances and the fees came to.
THEOREM WithdrawalsFollow == OneAtATime => (Spec => []PaymentFollowsTxs)
  <1> SUFFICES ASSUME OneAtATime PROVE Spec => []PaymentFollowsTxs
    OBVIOUS
  <1>1. Inv /\ SInv => PaymentFollowsTxs
    <2> SUFFICES ASSUME Inv, SInv, Quiet, NEW p \in Withdrawals
                 PROVE  LET open == {t \in TxsOf(p) : txs[t].status \in {"pending", "completed"}} IN
                        /\ Cardinality(open) <= 1
                        /\ (pay[p] = "inProgress") = (\E t \in open : txs[t].status = "pending")
                        /\ (pay[p] = "success") = (\E t \in open : txs[t].status = "completed")
      BY DEF PaymentFollowsTxs
    <2> DEFINE open == {t \in TxsOf(p) : txs[t].status \in {"pending", "completed"}}
    <2>1. Agree(p)
      BY IdleAgrees DEF OneAtATime, Quiet
    <2>2. \A t : t \in open <=> t \in TxIds /\ Open(t, p)
      BY DEF TxsOf, Open
    <2> HIDE DEF open
    <2>3. Cardinality(open) <= 1
      <3>1. \A t, u \in open : t = u
        BY <2>1, <2>2 DEF Agree
      <3> QED
        BY <3>1, AtMostOne
    <2>4. (pay[p] = "inProgress") <=> (\E t \in open : txs[t].status = "pending")
      BY <2>1, <2>2 DEF Agree
    <2>5. (pay[p] = "success") <=> (\E t \in open : txs[t].status = "completed")
      BY <2>1, <2>2 DEF Agree
    <2> QED
      BY <2>3, <2>4, <2>5 DEF open
  <1> QED
    BY <1>1, SerialInvariant, PTL

\* One job after the other and no answer lost, the nonces of the transactions that wait
\* are the next ones the chain takes, without a gap or a pair.
THEOREM NoncesFollow == OneAtATime /\ Lossless => (Spec => []NoncesFollowChain)
  <1> SUFFICES ASSUME OneAtATime, Lossless PROVE Spec => []NoncesFollowChain
    OBVIOUS
  <1>1. Inv /\ SInv => NoncesFollowChain
    <2> DEFINE waiting == {t \in TxIds : txs[t].status = "pending" /\ chain[t].state \in {"pool", "dropped"}}
               M == Cardinality(Mined)
    <2> SUFFICES ASSUME Inv, SInv, Quiet
                 PROVE  {chain[t].nonce : t \in waiting} = M..(M + Cardinality(waiting) - 1)
      BY DEF NoncesFollowChain
    <2>1. PICK w : Workers = {w}
      BY DEF OneAtATime
    <2>2. LivesOK(Idle) /\ GaplessOK(Idle)
      BY <2>1 DEF SInv, SerialOK, Quiet, Lossless
    <2>3. PICK F : F = Free(Idle)
      OBVIOUS
    <2>4. F \in Nat /\ M \in Nat /\ M <= F
      <3>1. confirmed \in Nat /\ pending \in Nat
        BY DEF Inv, TypeOK
      <3> QED
        BY <2>2, <2>3, <3>1, MinedIsFinite, FS_CardinalityType DEF Free, Idle, Holding, GaplessOK
    <2>5. \A t \in waiting : t \in TxIds /\ Live(t) /\ chain[t].nonce \in M..(F - 1)
      <3> SUFFICES ASSUME NEW t \in waiting PROVE t \in TxIds /\ Live(t) /\ chain[t].nonce \in M..(F - 1)
        OBVIOUS
      <3>1. chain[t].state = "pool" /\ chain[t].nonce \in Nat /\ Live(t)
        BY <2>2 DEF GaplessOK, Live, Inv, TypeOK, OnChain
      <3> QED
        BY <2>2, <2>3, <2>4, <3>1 DEF GaplessOK
    <2>6. ASSUME NEW n \in M..(F - 1) PROVE \E t \in waiting : chain[t].nonce = n
      <3>1. PICK t \in TxIds : Live(t) /\ chain[t].nonce = n
        BY <2>2, <2>3, <2>4 DEF GaplessOK
      <3>2. t \notin Mined
        BY <2>2, <2>4, <3>1 DEF GaplessOK
      <3>3. chain[t].state = "pool"
        BY <3>1, <3>2 DEF Live, Mined
      <3> QED
        BY <2>2, <3>1, <3>3 DEF GaplessOK
    <2>7. \A t, u \in waiting : chain[t].nonce = chain[u].nonce => t = u
      BY <2>2, <2>5 DEF LivesOK
    <2> HIDE DEF waiting, M
    <2>8. Cardinality(waiting) = F - M
      <3> DEFINE g == [t \in waiting |-> chain[t].nonce]
      <3>1. g \in Bijection(waiting, M..(F - 1))
        BY <2>5, <2>6, <2>7 DEF Bijection, Injection, Surjection, IsInjective
      <3>2. IsFiniteSet(M..(F - 1)) /\ Cardinality(M..(F - 1)) = F - M
        <4>1. M \in Int /\ F - 1 \in Int
          BY <2>4
        <4>2. IsFiniteSet(M..(F - 1)) /\ Cardinality(M..(F - 1)) = IF M > F - 1 THEN 0 ELSE F - 1 - M + 1
          BY <4>1, FS_Interval
        <4> QED
          BY <2>4, <4>2
      <3>3. IsFiniteSet(waiting)
        BY RowsAreFinite, FS_Subset, <2>5
      <3> QED
        BY <3>1, <3>2, <3>3, FS_Bijection DEF ExistsBijection
    <2>9. {chain[t].nonce : t \in waiting} = M..(F - 1)
      BY <2>5, <2>6
    <2> QED
      BY <2>4, <2>8, <2>9
  <1> QED
    BY <1>1, SerialInvariant, PTL

\* One job after the other, the batch signs a transaction for a pending withdrawal only:
\* what overlapping batches break.
THEOREM CreatedForPending == OneAtATime => (Spec => OnlyPendingAreCreated)
  <1> SUFFICES ASSUME OneAtATime PROVE Spec => OnlyPendingAreCreated
    OBVIOUS
  <1> DEFINE A == \A t \in TxIds : txs[t].status = "none" /\ txs'[t].status = "pending" =>
                                     pay[txs'[t].pay] = "pending"
  <1>1. Inv /\ SInv /\ [Next]_vars => [A]_vars
    <2> SUFFICES ASSUME Inv, SInv, Next, NEW t \in TxIds, txs[t].status = "none", txs'[t].status = "pending"
                 PROVE  pay[txs'[t].pay] = "pending"
      OBVIOUS
    <2>1. PICK w \in Workers : Step(w)
      BY DEF Next, Ask, CreateWithdrawal, StartCreate, StartCheck, Mine
    <2>2. CreateTx(w)
      <3>1. CASE UNCHANGED txs
        BY <3>1
      <3>2. ASSUME txs' = [txs EXCEPT ![work[w].tx].hash = TRUE] PROVE FALSE
        BY <3>2 DEF Inv, TypeOK, Row
      <3>3. ASSUME NEW s \in {"canceled", "failed", "completed"}, txs' = [txs EXCEPT ![work[w].tx].status = s]
            PROVE  FALSE
        BY <3>3 DEF Inv, TypeOK, Row
      <3> QED
        BY <2>1, <3>1, <3>2, <3>3
           DEF Step, CheckBalances, TakeNonce, Decrement, Broadcast, SetHash, MarkInProgress, Error, UndoNonce,
               UndoTx, UndoBalances, FailPayment, Receipt, SettleNonce, ConfirmRead, ConfirmWrite, MarkSuccess,
               CancelFee, CancelTx, Restore, Abort
    <2>3. txs'[t].pay = work[w].pay /\ work[w].pc = "createTx"
      BY <2>2 DEF CreateTx, At, Inv, TypeOK
    <2>4. pay[work[w].pay] = "pending"
      BY <2>3 DEF SInv, SerialOK, BooksOK, Creating
    <2> QED
      BY <2>3, <2>4
  <1> HIDE DEF A
  <1>2. Spec => [][A]_vars
    BY <1>1, SerialInvariant, PTL DEF Spec
  <1> QED
    BY <1>2 DEF OnlyPendingAreCreated, A

-----------------------------------------------------------------------------
(* The balances, one job after the other.  Between jobs they are what the  *)
(* rows say; within one, the worker may owe the balances what its row no   *)
(* longer says was taken, or its row may say so before it is.              *)

Owed(l) == l.pc \in {"undoBalances", "restore"}
Untaken(l) == l.pc = "decrement" \/ (l.pc \in {"undoNonce", "undoTx"} /\ l.tx # 0 /\ ~l.moved)

\* What is to be given back of a balance of currency k.
Due(l, k, amount) ==
    IF TickerOf[l.pay] # k THEN 0 ELSE IF Owed(l) THEN amount ELSE IF Untaken(l) THEN -amount ELSE 0

\* cancelWithdrawal takes the fee before it fails the row.
FeeAhead(l, k) == IF k = Coin /\ l.pc = "cancelTx" THEN chain[l.tx].fee ELSE 0

Balanced(l, k) ==
    /\ merchantBalance[k] + Total(Taken(k)) + Due(l, k, Cost(l.pay)) = MerchantFunds[k]
    /\ walletBalance[k] + Total(Given(k)) + Total(Charged(k)) + Due(l, k, AmountOf[l.pay])
         + FeeAhead(l, k) = WalletFunds[k]

\* The flag BalanceDecremented, on which the rollback goes by.
FlagOK(l) ==
    /\ l.pc \in BeforeTx \cup {"decrement"} \/ (l.pc = "undoNonce" /\ l.tx = 0) => ~l.moved
    /\ l.pc \in {"broadcast", "setHash", "markInProgress", "undoBalances"} => l.moved

LedgerOK(l) == FlagOK(l) /\ \A k \in Tickers : Balanced(l, k)
LInv == \A w \in Workers : LedgerOK(work[w])

LEMMA LedgerFinish ==
    ASSUME NEW w, Workers = {w}, NEW l, l = work'[w], FlagOK(l), \A k \in Tickers : Balanced(l, k)'
    PROVE  LInv'
  <1>1. FlagOK(work'[w]) /\ \A k \in Tickers : Balanced(work[w], k)'
    BY DEF Balanced, FeeAhead
  <1>2. FlagOK(work[w])'
    BY <1>1 DEF FlagOK
  <1> QED
    BY <1>1, <1>2 DEF LInv, LedgerOK

\* What the rows say are numbers.
LEMMA ColumnsType ==
    ASSUME Inv, NEW k
    PROVE  /\ Taken(k) \in [TxIds -> Int] /\ Given(k) \in [TxIds -> Int] /\ Charged(k) \in [TxIds -> Int]
           /\ Total(Taken(k)) \in Int /\ Total(Given(k)) \in Int /\ Total(Charged(k)) \in Int
  <1>1. \A t \in TxIds : Spent(t, k) => txs[t].pay \in Withdrawals
    <2> SUFFICES ASSUME NEW t \in TxIds, Spent(t, k) PROVE txs[t].pay \in Withdrawals
      OBVIOUS
    <2>1. RowOK(t) /\ txs[t].status # "none" /\ t \in Int /\ lastTx \in Int
      BY DEF Inv, Spent, TypeOK, TxIds
    <2> QED
      BY <2>1 DEF RowOK
  <1>2. \A t \in TxIds : Spent(t, k) => Cost(txs[t].pay) \in Int /\ AmountOf[txs[t].pay] \in Int
    BY <1>1 DEF Cost
  <1>3. \A t \in TxIds : chain[t].fee \in Int
    <2>1. \A t \in TxIds : chain[t].fee \in NetworkFees \cup {0}
      BY DEF Inv, TypeOK, OnChain
    <2>2. NetworkFees \cup {0} \subseteq Int
      OBVIOUS
    <2> QED
      BY <2>1, <2>2
  <1>4. /\ Taken(k) \in [TxIds -> Int] /\ Given(k) \in [TxIds -> Int] /\ Charged(k) \in [TxIds -> Int]
    BY <1>2, <1>3 DEF Taken, Given, Charged
  <1> QED
    BY <1>4, RowsAreFinite, TotalType

\* Row t's share of the columns.
LEMMA RowShare ==
    ASSUME NEW t \in TxIds, NEW k
    PROVE  /\ Taken(k)[t] = IF Spent(t, k) THEN Cost(txs[t].pay) ELSE 0
           /\ Given(k)[t] = IF Spent(t, k) THEN AmountOf[txs[t].pay] ELSE 0
           /\ Charged(k)[t] = IF k = Coin /\ txs[t].status \in {"completed", "failed"}
                              THEN chain[t].fee ELSE 0
  BY DEF Taken, Given, Charged

\* A step that changes no status, and no fee of a row that was charged.
SameRow(t) ==
    /\ txs'[t].status = txs[t].status /\ txs'[t].pay = txs[t].pay
    /\ txs[t].status \in {"completed", "failed"} => chain'[t].fee = chain[t].fee

LEMMA SameTotals ==
    ASSUME NEW k, \A t \in TxIds : SameRow(t)
    PROVE  Taken(k)' = Taken(k) /\ Given(k)' = Given(k) /\ Charged(k)' = Charged(k)
  <1>1. \A t \in TxIds : Spent(t, k)' <=> Spent(t, k)
    BY DEF SameRow, Spent
  <1>2. Taken(k)' = Taken(k)
    BY <1>1 DEF SameRow, Taken, Cost
  <1>3. Given(k)' = Given(k)
    BY <1>1 DEF SameRow, Given
  <1>4. Charged(k)' = Charged(k)
    BY DEF SameRow, Charged
  <1> QED
    BY <1>2, <1>3, <1>4

\* A step that changes one row.
LEMMA OneRowTotals ==
    ASSUME Inv, Inv', NEW k, NEW x \in TxIds, \A t \in TxIds : t # x => SameRow(t)
    PROVE  /\ Total(Taken(k))' = Total(Taken(k)) + Taken(k)'[x] - Taken(k)[x]
           /\ Total(Given(k))' = Total(Given(k)) + Given(k)'[x] - Given(k)[x]
           /\ Total(Charged(k))' = Total(Charged(k)) + Charged(k)'[x] - Charged(k)[x]
  <1>1. PICK a, b, c, d, e, f : /\ a = Taken(k) /\ b = Given(k) /\ c = Charged(k)
                                /\ d = Taken(k)' /\ e = Given(k)' /\ f = Charged(k)'
    OBVIOUS
  <1>2. a \in [TxIds -> Int] /\ b \in [TxIds -> Int] /\ c \in [TxIds -> Int]
    BY <1>1, ColumnsType
  <1>3. d \in [TxIds -> Int] /\ e \in [TxIds -> Int] /\ f \in [TxIds -> Int]
    <2>1. (Taken(k) \in [TxIds -> Int] /\ Given(k) \in [TxIds -> Int] /\ Charged(k) \in [TxIds -> Int])'
      BY ColumnsType, PTL
    <2> QED
      BY <1>1, <2>1
  <1>4. \A t \in TxIds : t # x => d[t] = a[t] /\ e[t] = b[t] /\ f[t] = c[t]
    BY <1>1 DEF Taken, Given, Charged, SameRow, Spent, Cost
  <1>5. Total(d) = Total(a) + d[x] - a[x]
    BY <1>2, <1>3, <1>4, RowsAreFinite, TotalChange
  <1>6. Total(e) = Total(b) + e[x] - b[x]
    BY <1>2, <1>3, <1>4, RowsAreFinite, TotalChange
  <1>7. Total(f) = Total(c) + f[x] - c[x]
    BY <1>2, <1>3, <1>4, RowsAreFinite, TotalChange
  <1>8. /\ Total(Taken(k))' = Total(d) /\ Total(Given(k))' = Total(e) /\ Total(Charged(k))' = Total(f)
    BY <1>1
  <1> QED
    BY <1>1, <1>5, <1>6, <1>7, <1>8

\* A worker that owes nothing and is owed nothing.
Clear(l) == ~Owed(l) /\ ~Untaken(l) /\ l.pc # "cancelTx"

LEMMA ClearDue ==
    ASSUME NEW l, Clear(l), NEW k, NEW amount PROVE Due(l, k, amount) = 0 /\ FeeAhead(l, k) = 0
  BY DEF Clear, Due, FeeAhead

\* A step that leaves the balances and what the rows say alone.
LEMMA QuietLedger ==
    ASSUME Inv, LInv, NEW w, Workers = {w}, UNCHANGED ledger, \A t \in TxIds : SameRow(t),
           NEW l, l = work'[w], FlagOK(l),
           \/ Clear(work[w]) /\ Clear(l)
           \/ Untaken(work[w]) /\ Untaken(l) /\ l.pay = work[w].pay
    PROVE  LInv'
  <1>1. PICK m : m = work[w]
    OBVIOUS
  <1>2. ASSUME NEW k \in Tickers PROVE Balanced(l, k)'
    <2>1. Balanced(m, k)
      BY <1>1 DEF LInv, LedgerOK
    <2>2. /\ Taken(k)' = Taken(k) /\ Given(k)' = Given(k) /\ Charged(k)' = Charged(k)
          /\ merchantBalance' = merchantBalance /\ walletBalance' = walletBalance
      BY SameTotals DEF ledger
    <2>3. /\ Due(l, k, Cost(l.pay)) = Due(m, k, Cost(m.pay))
          /\ Due(l, k, AmountOf[l.pay]) = Due(m, k, AmountOf[m.pay])
          /\ FeeAhead(m, k) = 0 /\ FeeAhead(l, k)' = 0
      <3>1. CASE Clear(m) /\ Clear(l)
        BY <3>1 DEF Clear, Due, FeeAhead
      <3>2. CASE Untaken(m) /\ Untaken(l) /\ l.pay = m.pay
        BY <3>2 DEF Untaken, Owed, Due, FeeAhead
      <3> QED
        BY <1>1, <3>1, <3>2
    <2> QED
      BY <2>1, <2>2, <2>3 DEF Balanced
  <1> QED
    BY <1>2, LedgerFinish

-----------------------------------------------------------------------------
(* Its steps: those that leave the balances alone *)

SameRows == \A t \in TxIds : SameRow(t)

LEMMA Unrecorded ==
    ASSUME UNCHANGED <<txs, chain>> PROVE SameRows
  BY DEF SameRows, SameRow

LEMMA IdleClear == Clear(Idle) /\ FlagOK(Idle)
  BY DEF Clear, FlagOK, Idle, Owed, Untaken, BeforeTx

\* The worker ends, or goes on, and neither the rows nor the balances were its business.
LEMMA QuietEnd ==
    ASSUME Inv, LInv, NEW w, Workers = {w}, UNCHANGED ledger, SameRows, Clear(work[w]), End(w)
    PROVE  LInv'
  <1>1. PICK l : l = work'[w]
    OBVIOUS
  <1>2. l = Idle
    BY <1>1 DEF End, Inv, TypeOK
  <1> QED
    BY <1>1, <1>2, IdleClear, QuietLedger DEF SameRows

LEMMA QuietGoto ==
    ASSUME Inv, LInv, NEW w \in Workers, Workers = {w}, UNCHANGED ledger, SameRows, NEW q, Goto(w, q),
           \/ q \in {"failPayment", "markSuccess"} \cup (Checking \ {"cancelTx"})
           \/ q \in BeforeTx \cup {"setHash", "markInProgress"} /\ FlagOK([work[w] EXCEPT !.pc = q]),
           Clear(work[w])
    PROVE  LInv'
  <1>1. PICK l : l = work'[w]
    OBVIOUS
  <1>2. l = [work[w] EXCEPT !.pc = q] /\ l.pc = q
    BY <1>1 DEF Goto, Inv, TypeOK, Local
  <1>3. Clear(l)
    BY <1>2 DEF Clear, Owed, Untaken, Checking, BeforeTx
  <1>4. FlagOK(l)
    BY <1>2 DEF FlagOK, Checking, BeforeTx
  <1> QED
    BY <1>1, <1>3, <1>4, QuietLedger DEF SameRows

LEMMA LStays ==
    ASSUME LInv, OneAtATime, UNCHANGED <<txs, chain, merchantBalance, walletBalance, work>>
    PROVE  LInv'
  <1>1. PICK w : Workers = {w}
    BY DEF OneAtATime
  <1>2. UNCHANGED <<txs, chain, merchantBalance, walletBalance, work>>
    OBVIOUS
  <1>3. PICK l : l = work[w]
    OBVIOUS
  <1>4. LedgerOK(l) /\ l = work'[w]
    BY <1>1, <1>2, <1>3 DEF LInv
  <1>5. ASSUME NEW k \in Tickers PROVE Balanced(l, k)'
    <2>1. Taken(k)' = Taken(k) /\ Given(k)' = Given(k) /\ Charged(k)' = Charged(k)
      BY <1>2, Unrecorded, SameTotals DEF SameRows
    <2>2. FeeAhead(l, k)' = FeeAhead(l, k)
      BY <1>2 DEF FeeAhead
    <2> QED
      BY <1>2, <1>4, <2>1, <2>2 DEF LedgerOK, Balanced
  <1> QED
    BY <1>1, <1>4, <1>5, LedgerFinish DEF LedgerOK

LEMMA LStart ==
    ASSUME Inv, LInv, OneAtATime, NEW w \in Workers,
           \/ \E p \in Withdrawals : StartCreate(w, p)
           \/ \E t \in TxIds : StartCheck(w, t)
    PROVE  LInv'
  <1>1. Workers = {w}
    BY DEF OneAtATime
  <1>2. PICK l : l = work'[w]
    OBVIOUS
  <1>3. UNCHANGED <<ledger, txs, chain>> /\ work[w] = Idle
    BY DEF StartCreate, StartCheck, Begin
  <1>4. l.pc \in {"merchant", "receipt"} /\ l.moved = FALSE
    <2>1. ASSUME NEW p \in Withdrawals, StartCreate(w, p) PROVE l.pc = "merchant" /\ l.moved = FALSE
      BY <1>2, <2>1 DEF StartCreate, Begin, Idle, Inv, TypeOK
    <2>2. ASSUME NEW t \in TxIds, StartCheck(w, t) PROVE l.pc = "receipt" /\ l.moved = FALSE
      BY <1>2, <2>2 DEF StartCheck, Begin, Idle, Inv, TypeOK
    <2> QED
      BY <2>1, <2>2
  <1>5. Clear(l) /\ FlagOK(l)
    BY <1>4 DEF Clear, Owed, Untaken, FlagOK
  <1> QED
    BY <1>1, <1>2, <1>3, <1>5, IdleClear, Unrecorded, QuietLedger DEF SameRows

LEMMA LCheckBalances ==
    ASSUME Inv, LInv, OneAtATime, NEW w \in Workers, CheckBalances(w) PROVE LInv'
  <1>1. Workers = {w}
    BY DEF OneAtATime
  <1>2. /\ UNCHANGED <<ledger, txs, chain>> /\ work[w].pc = "merchant"
        /\ Goto(w, "failPayment") \/ End(w) \/ Goto(w, "nonce")
    BY DEF CheckBalances, At
  <1>3. ~work[w].moved /\ work[w] \in Local
    BY <1>2 DEF LInv, LedgerOK, FlagOK, BeforeTx, Inv, TypeOK
  <1>4. Clear(work[w])
    BY <1>2 DEF Clear, Owed, Untaken
  <1>5. FlagOK([work[w] EXCEPT !.pc = "nonce"])
    <2>1. PICK l : l = [work[w] EXCEPT !.pc = "nonce"]
      OBVIOUS
    <2>2. l.pc = "nonce" /\ l.moved = work[w].moved
      BY <1>3, <2>1 DEF Local
    <2> QED
      BY <1>3, <2>1, <2>2 DEF FlagOK
  <1> QED
    BY <1>1, <1>2, <1>4, <1>5, Unrecorded, QuietEnd, QuietGoto DEF BeforeTx

LEMMA LTakeNonce ==
    ASSUME Inv, LInv, OneAtATime, NEW w \in Workers, TakeNonce(w) PROVE LInv'
  <1>1. Workers = {w}
    BY DEF OneAtATime
  <1>2. PICK l : l = work'[w]
    OBVIOUS
  <1>3. /\ UNCHANGED <<ledger, txs, chain>> /\ work[w].pc = "nonce"
        /\ l.pc = "createTx" /\ l.moved = work[w].moved
    BY <1>2 DEF TakeNonce, At, Inv, TypeOK, Local
  <1>4. ~work[w].moved
    BY <1>3 DEF LInv, LedgerOK, FlagOK, BeforeTx
  <1>5. Clear(work[w]) /\ Clear(l) /\ FlagOK(l)
    BY <1>3, <1>4 DEF Clear, Owed, Untaken, FlagOK
  <1> QED
    BY <1>1, <1>2, <1>3, <1>5, Unrecorded, QuietLedger DEF SameRows

\* To the rollback, from a worker whose flag says what was taken.
LEMMA LRollback ==
    ASSUME Inv, LInv, NEW w \in Workers, Workers = {w}, UNCHANGED ledger, SameRows,
           work[w].pc \in {"createTx", "decrement", "broadcast"},
           NEW l, l = work'[w], l.pc = "undoNonce", l.tx = work[w].tx, l.pay = work[w].pay,
           l.moved = work[w].moved
    PROVE  LInv'
  <1>1. PICK m : m = work[w]
    OBVIOUS
  <1>2. FlagOK(m) /\ LocalOK(m) /\ m.moved \in BOOLEAN
    BY <1>1 DEF LInv, LedgerOK, Inv, TypeOK, Local
  <1>3. CASE m.pc = "createTx"
    <2>1. m.tx = 0 /\ ~m.moved
      BY <1>2, <1>3 DEF LocalOK, BeforeTx, FlagOK
    <2>2. Clear(m) /\ Clear(l) /\ FlagOK(l)
      BY <1>1, <1>3, <2>1 DEF Clear, Owed, Untaken, FlagOK
    <2> QED
      BY <1>1, <2>2, QuietLedger DEF SameRows
  <1>4. CASE m.pc = "decrement"
    <2>1. m.tx # 0 /\ ~m.moved
      BY <1>2, <1>4 DEF LocalOK, WithTx, Sending, Belongs, TxIds, FlagOK
    <2>2. Untaken(m) /\ Untaken(l) /\ FlagOK(l)
      BY <1>1, <1>4, <2>1 DEF Untaken, FlagOK
    <2> QED
      BY <1>1, <2>2, QuietLedger DEF SameRows
  <1>5. CASE m.pc = "broadcast"
    <2>1. m.tx # 0 /\ m.moved
      BY <1>2, <1>5 DEF LocalOK, WithTx, Sending, Belongs, TxIds, FlagOK
    <2>2. Clear(m) /\ Clear(l) /\ FlagOK(l)
      BY <1>1, <1>5, <2>1 DEF Clear, Owed, Untaken, FlagOK, BeforeTx
    <2> QED
      BY <1>1, <2>2, QuietLedger DEF SameRows
  <1> QED
    BY <1>1, <1>3, <1>4, <1>5

LEMMA LError ==
    ASSUME Inv, LInv, OneAtATime, NEW w \in Workers, Error(w) PROVE LInv'
  <1>1. Workers = {w}
    BY DEF OneAtATime
  <1>2. PICK l : l = work'[w]
    OBVIOUS
  <1>3. /\ UNCHANGED <<ledger, txs, chain>> /\ work[w].pc = "createTx"
        /\ l.pc = "undoNonce" /\ l.tx = work[w].tx /\ l.pay = work[w].pay /\ l.moved = work[w].moved
    BY <1>2 DEF Error, Goto, At, OneAtATime, Inv, TypeOK, Local
  <1> QED
    BY <1>1, <1>2, <1>3, Unrecorded, LRollback

\* Fees are the chain's answer, and only to what it executed.
LEMMA AcceptKeepsFees ==
    ASSUME Inv, NEW t \in TxIds, Accept(t), UNCHANGED txs PROVE SameRows
  <1>1. ASSUME NEW u \in TxIds PROVE chain'[u].fee = chain[u].fee
    BY DEF Accept, Inv, TypeOK, OnChain
  <1> QED
    BY <1>1 DEF SameRows, SameRow

LEMMA LBroadcast ==
    ASSUME Inv, LInv, OneAtATime, NEW w \in Workers, Broadcast(w) PROVE LInv'
  <1>1. Workers = {w}
    BY DEF OneAtATime
  <1>2. UNCHANGED <<ledger, txs>> /\ work[w].pc = "broadcast" /\ (Accept(work[w].tx) \/ UNCHANGED chain)
    BY DEF Broadcast, At
  <1>3. work[w].tx \in TxIds /\ work[w].moved /\ work[w] \in Local
    BY <1>2 DEF Inv, TypeOK, LocalOK, WithTx, Sending, Belongs, LInv, LedgerOK, FlagOK
  <1>4. SameRows
    BY <1>2, <1>3, AcceptKeepsFees, Unrecorded
  <1>5. PICK l : l = work'[w]
    OBVIOUS
  <1>6. /\ l.pc \in {"setHash", "undoNonce"} /\ l.tx = work[w].tx /\ l.pay = work[w].pay
        /\ l.moved = work[w].moved
    BY <1>5 DEF Broadcast, Goto, Inv, TypeOK, Local
  <1>7. CASE l.pc = "setHash"
    <2>1. Clear(work[w]) /\ Clear(l) /\ FlagOK(l)
      BY <1>2, <1>3, <1>6, <1>7 DEF Clear, Owed, Untaken, FlagOK, BeforeTx
    <2> QED
      BY <1>1, <1>2, <1>4, <1>5, <2>1, QuietLedger DEF SameRows
  <1>8. CASE l.pc = "undoNonce"
    BY <1>1, <1>2, <1>4, <1>5, <1>6, <1>8, LRollback
  <1> QED
    BY <1>6, <1>7, <1>8

LEMMA LSetHash ==
    ASSUME Inv, LInv, OneAtATime, NEW w \in Workers, SetHash(w) PROVE LInv'
  <1>1. Workers = {w}
    BY DEF OneAtATime
  <1>2. UNCHANGED <<ledger, chain>> /\ work[w].pc = "setHash" /\ Goto(w, "markInProgress")
    BY DEF SetHash, At
  <1>3. work[w].moved /\ work[w] \in Local
    BY <1>2 DEF LInv, LedgerOK, FlagOK, Inv, TypeOK
  <1>4. SameRows
    <2>1. txs \in [TxIds -> Row] /\ (txs' = txs \/ txs' = [txs EXCEPT ![work[w].tx].hash = TRUE])
      BY DEF SetHash, Inv, TypeOK
    <2>2. \A t \in TxIds : txs'[t].status = txs[t].status /\ txs'[t].pay = txs[t].pay
      BY <2>1 DEF Row
    <2> QED
      BY <1>2, <2>2 DEF SameRows, SameRow
  <1>5. PICK l : l = work'[w]
    OBVIOUS
  <1>6. l.pc = "markInProgress" /\ l.moved = work[w].moved
    BY <1>2, <1>5 DEF Goto, Inv, TypeOK, Local
  <1>7. Clear(work[w]) /\ Clear(l) /\ FlagOK(l)
    BY <1>2, <1>3, <1>6 DEF Clear, Owed, Untaken, FlagOK, BeforeTx
  <1> QED
    BY <1>1, <1>2, <1>4, <1>5, <1>7, QuietLedger DEF SameRows

LEMMA LMark ==
    ASSUME Inv, LInv, OneAtATime, NEW w \in Workers,
           MarkInProgress(w) \/ FailPayment(w) \/ MarkSuccess(w)
    PROVE  LInv'
  <1>1. Workers = {w}
    BY DEF OneAtATime
  <1>2. /\ UNCHANGED <<ledger, txs, chain>> /\ End(w)
        /\ work[w].pc \in {"markInProgress", "failPayment", "markSuccess"}
    BY DEF MarkInProgress, FailPayment, MarkSuccess, At
  <1>3. Clear(work[w])
    BY <1>2 DEF Clear, Owed, Untaken
  <1> QED
    BY <1>1, <1>2, <1>3, Unrecorded, QuietEnd

LEMMA LUndoNonce ==
    ASSUME Inv, SInv, LInv, OneAtATime, NEW w \in Workers, UndoNonce(w) PROVE LInv'
  <1>1. Workers = {w}
    BY DEF OneAtATime
  <1>2. PICK m : m = work[w]
    OBVIOUS
  <1>3. UNCHANGED <<ledger, txs, chain>> /\ m.pc = "undoNonce" /\ m \in Local /\ FlagOK(m)
    BY <1>2 DEF UndoNonce, At, Inv, TypeOK, LInv, LedgerOK
  <1>4. pending >= 1 /\ pending \in Nat
    BY <1>2, <1>3 DEF SInv, SerialOK, NonceOK, Holding, Inv, TypeOK
  <1>5. IF m.tx = 0 THEN End(w) ELSE Goto(w, "undoTx")
    BY <1>2, <1>4 DEF UndoNonce
  <1>6. CASE m.tx = 0
    <2>1. Clear(m)
      BY <1>3, <1>6 DEF Clear, Owed, Untaken
    <2> QED
      BY <1>1, <1>2, <1>3, <1>5, <1>6, <2>1, Unrecorded, QuietEnd
  <1>7. CASE m.tx # 0
    <2>1. PICK l : l = work'[w]
      OBVIOUS
    <2>2. l.pc = "undoTx" /\ l.tx = m.tx /\ l.pay = m.pay /\ l.moved = m.moved
      BY <1>2, <1>5, <1>7, <2>1 DEF Goto, Inv, TypeOK, Local
    <2>3. FlagOK(l)
      BY <2>2 DEF FlagOK, BeforeTx
    <2>4. (Clear(m) /\ Clear(l)) \/ (Untaken(m) /\ Untaken(l))
      BY <1>3, <1>7, <2>2 DEF Clear, Owed, Untaken
    <2> QED
      BY <1>1, <1>2, <1>3, <2>1, <2>2, <2>3, <2>4, Unrecorded, QuietLedger DEF SameRows
  <1> QED
    BY <1>6, <1>7

LEMMA LCheckSteps ==
    ASSUME Inv, LInv, OneAtATime, NEW w \in Workers, Receipt(w) \/ SettleNonce(w) \/ ConfirmRead(w)
    PROVE  LInv'
  <1>1. Workers = {w}
    BY DEF OneAtATime
  <1>2. /\ UNCHANGED <<ledger, txs, chain>>
        /\ work[w].pc \in {"receipt", "confirmNonce", "cancelNonce", "confirmRead"}
        /\ \/ End(w)
           \/ \E q \in {"confirmNonce", "cancelNonce", "confirmRead", "chargeFee", "confirmWrite"} : Goto(w, q)
    <2>1. CASE Receipt(w)
      BY <2>1 DEF Receipt, At
    <2>2. CASE SettleNonce(w)
      BY <2>2 DEF SettleNonce, At
    <2>3. CASE ConfirmRead(w)
      BY <2>3 DEF ConfirmRead, At
    <2> QED
      BY <2>1, <2>2, <2>3
  <1>3. Clear(work[w])
    BY <1>2 DEF Clear, Owed, Untaken
  <1>4. CASE End(w)
    BY <1>1, <1>2, <1>3, <1>4, Unrecorded, QuietEnd
  <1>5. ASSUME NEW q \in {"confirmNonce", "cancelNonce", "confirmRead", "chargeFee", "confirmWrite"}, Goto(w, q)
        PROVE  LInv'
    BY <1>1, <1>2, <1>3, <1>5, Unrecorded, QuietGoto DEF Checking
  <1> QED
    BY <1>2, <1>4, <1>5

\* The chain executes what no row says was executed yet.
LEMMA LMine ==
    ASSUME Inv, LInv, OneAtATime, NEW t \in TxIds, NEW r \in {"success", "reverted"}, NEW f \in NetworkFees,
           Mine(t, r, f)
    PROVE  LInv'
  <1>1. PICK w : Workers = {w}
    BY DEF OneAtATime
  <1>2. /\ UNCHANGED <<ledger, txs, work>> /\ chain[t].state = "pool"
        /\ chain' = [chain EXCEPT ![t].state = r, ![t].fee = f]
    BY DEF Mine
  <1>3. \A u \in TxIds : u # t => chain'[u] = chain[u]
    BY <1>2 DEF Inv, TypeOK
  <1>4. SameRows
    <2>1. txs[t].status \notin {"completed", "failed"}
      BY <1>2 DEF Inv, RecordedAsExecuted
    <2> QED
      BY <1>2, <1>3, <2>1 DEF SameRows, SameRow
  <1>5. PICK l : l = work[w]
    OBVIOUS
  <1>6. LedgerOK(l) /\ l = work'[w] /\ LocalOK(l)
    BY <1>1, <1>2, <1>5 DEF LInv, Inv
  <1>7. ASSUME NEW k \in Tickers PROVE Balanced(l, k)'
    <2>1. Taken(k)' = Taken(k) /\ Given(k)' = Given(k) /\ Charged(k)' = Charged(k)
      BY <1>4, SameTotals DEF SameRows
    <2>2. FeeAhead(l, k)' = FeeAhead(l, k)
      <3>1. l.pc = "cancelTx" => l.tx \in TxIds /\ l.tx # t
        BY <1>2, <1>6 DEF LocalOK, Reverting, WithTx, Belongs
      <3> QED
        BY <1>3, <3>1 DEF FeeAhead
    <2> QED
      BY <1>2, <1>6, <2>1, <2>2 DEF LedgerOK, Balanced, ledger
  <1> QED
    BY <1>1, <1>6, <1>7, LedgerFinish DEF LedgerOK

-----------------------------------------------------------------------------
(* Its steps: those that move balances or close rows *)

\* The numbers that are added up.
LEMMA LedgerNumbers ==
    ASSUME Inv, NEW k \in Tickers
    PROVE  /\ merchantBalance[k] \in Int /\ walletBalance[k] \in Int
           /\ Total(Taken(k)) \in Int /\ Total(Given(k)) \in Int /\ Total(Charged(k)) \in Int
  BY ColumnsType DEF Inv, TypeOK

LEMMA CostNumbers ==
    ASSUME NEW p \in Withdrawals PROVE Cost(p) \in Int /\ AmountOf[p] \in Int
  BY DEF Cost

LEMMA FeeNumbers ==
    ASSUME Inv, NEW t \in TxIds PROVE chain[t].fee \in Int
  <1>1. chain[t].fee \in NetworkFees \cup {0}
    BY DEF Inv, TypeOK, OnChain
  <1>2. NetworkFees \cup {0} \subseteq Int
    OBVIOUS
  <1> QED
    BY <1>1, <1>2

\* The balances of the withdrawal's currency move by its cost and its amount, down as
\* the worker takes what its row says, up as it gives back what it owes.
LEMMA LTransfer ==
    ASSUME Inv, LInv, NEW w \in Workers, Workers = {w}, SameRows, NEW m, m = work[w],
           NEW l, l = work'[w], FlagOK(l), Clear(l), m.pay \in Withdrawals, m.pc # "cancelTx",
           \/ Untaken(m) /\ ~Owed(m) /\ Take(m.pay)
           \/ Owed(m) /\ GiveBack(m.pay)
    PROVE  LInv'
  <1>1. PICK q, c, a : q = m.pay /\ c = Cost(q) /\ a = AmountOf[q]
    OBVIOUS
  <1>2. q \in Withdrawals /\ c \in Int /\ a \in Int
    BY <1>1, CostNumbers
  <1>3. ASSUME NEW k \in Tickers PROVE Balanced(l, k)'
    <2>1. Balanced(m, k)
      BY DEF LInv, LedgerOK
    <2>2. Taken(k)' = Taken(k) /\ Given(k)' = Given(k) /\ Charged(k)' = Charged(k)
      BY SameTotals DEF SameRows
    <2>3. Due(l, k, Cost(l.pay)) = 0 /\ Due(l, k, AmountOf[l.pay]) = 0 /\ FeeAhead(l, k)' = 0
      BY DEF Clear, Due, FeeAhead
    <2>4. FeeAhead(m, k) = 0
      BY DEF FeeAhead
    <2>5. /\ merchantBalance'[k] = merchantBalance[k] + Due(m, k, c)
          /\ walletBalance'[k] = walletBalance[k] + Due(m, k, a)
      <3>1. merchantBalance \in [Tickers -> Nat] /\ walletBalance \in [Tickers -> Nat]
        BY DEF Inv, TypeOK
      <3>2. CASE Untaken(m) /\ ~Owed(m) /\ Take(q)
        <4>1. merchantBalance'[k] = merchantBalance[k] - (IF k = TickerOf[q] THEN c ELSE 0)
          BY <1>1, <1>2, <3>1, <3>2 DEF Take
        <4>2. walletBalance'[k] = walletBalance[k] - (IF k = TickerOf[q] THEN a ELSE 0)
          BY <1>1, <1>2, <3>1, <3>2 DEF Take
        <4> QED
          BY <1>1, <1>2, <3>1, <3>2, <4>1, <4>2 DEF Due
      <3>3. CASE Owed(m) /\ GiveBack(q)
        <4>1. merchantBalance'[k] = merchantBalance[k] + (IF k = TickerOf[q] THEN c ELSE 0)
          BY <1>1, <1>2, <3>1, <3>3 DEF GiveBack
        <4>2. walletBalance'[k] = walletBalance[k] + (IF k = TickerOf[q] THEN a ELSE 0)
          BY <1>1, <1>2, <3>1, <3>3 DEF GiveBack
        <4> QED
          BY <1>1, <1>2, <3>1, <3>3, <4>1, <4>2 DEF Due
      <3> QED
        BY <1>1, <3>2, <3>3
    <2>6. /\ merchantBalance[k] + Total(Taken(k)) + Due(m, k, c) = MerchantFunds[k]
          /\ walletBalance[k] + Total(Given(k)) + Total(Charged(k)) + Due(m, k, a) + 0 = WalletFunds[k]
      BY <1>1, <2>1, <2>4 DEF Balanced
    <2>7. Due(m, k, c) \in Int /\ Due(m, k, a) \in Int
      BY <1>2 DEF Due
    <2>8. /\ merchantBalance'[k] + Total(Taken(k)) + 0 = MerchantFunds[k]
          /\ walletBalance'[k] + Total(Given(k)) + Total(Charged(k)) + 0 + 0 = WalletFunds[k]
      BY <2>5, <2>6, <2>7, LedgerNumbers
    <2> QED
      BY <2>2, <2>3, <2>8 DEF Balanced
  <1> QED
    BY <1>3, LedgerFinish

LEMMA LDecrement ==
    ASSUME Inv, LInv, OneAtATime, NEW w \in Workers, Decrement(w) PROVE LInv'
  <1>1. Workers = {w}
    BY DEF OneAtATime
  <1>2. PICK l, m : l = work'[w] /\ m = work[w]
    OBVIOUS
  <1>3. /\ UNCHANGED <<txs, chain>> /\ m.pc = "decrement" /\ m \in Local /\ m.pay \in Withdrawals
    BY <1>2 DEF Decrement, At, Inv, TypeOK, LocalOK
  <1>4. CASE UNCHANGED ledger /\ l.pc = "undoNonce" /\ l.tx = m.tx /\ l.pay = m.pay /\ l.moved = m.moved
    BY <1>1, <1>2, <1>3, <1>4, Unrecorded, LRollback
  <1>5. CASE Take(m.pay) /\ l.pc = "broadcast" /\ l.moved
    <2>1. FlagOK(l) /\ Clear(l)
      BY <1>5 DEF FlagOK, Clear, BeforeTx, Owed, Untaken
    <2>2. Untaken(m) /\ ~Owed(m) /\ m.pc # "cancelTx"
      BY <1>3 DEF Untaken, Owed
    <2> QED
      BY <1>1, <1>2, <1>3, <1>5, <2>1, <2>2, Unrecorded, LTransfer
  <1> QED
    BY <1>2, <1>4, <1>5 DEF Decrement, Goto, Inv, TypeOK, Local

LEMMA LGiveBack ==
    ASSUME Inv, LInv, OneAtATime, NEW w \in Workers, UndoBalances(w) \/ Restore(w) PROVE LInv'
  <1>1. Workers = {w}
    BY DEF OneAtATime
  <1>2. PICK l, m : l = work'[w] /\ m = work[w]
    OBVIOUS
  <1>3. /\ UNCHANGED <<txs, chain>> /\ m.pc \in {"undoBalances", "restore"} /\ GiveBack(m.pay)
        /\ End(w) \/ Goto(w, "failPayment")
    BY <1>2 DEF UndoBalances, Restore, At
  <1>4. l.pc \in {"idle", "failPayment"}
    BY <1>2, <1>3 DEF End, Goto, Idle, Inv, TypeOK, Local
  <1>5. FlagOK(l) /\ Clear(l)
    BY <1>4 DEF FlagOK, Clear, BeforeTx, Owed, Untaken
  <1>6. Owed(m) /\ m.pc # "cancelTx" /\ m.pay \in Withdrawals
    BY <1>2, <1>3 DEF Owed, Inv, LocalOK
  <1> QED
    BY <1>1, <1>2, <1>3, <1>5, <1>6, Unrecorded, LTransfer

\* A new row says what the worker is to take next.
LEMMA LCreateTx ==
    ASSUME Inv, Inv', LInv, OneAtATime, NEW w \in Workers, CreateTx(w) PROVE LInv'
  <1>1. Workers = {w}
    BY DEF OneAtATime
  <1>2. PICK l, m, t, q : l = work'[w] /\ m = work[w] /\ t = lastTx + 1 /\ q = work[w].pay
    OBVIOUS
  <1>3. t \in TxIds /\ txs[t].status = "none" /\ m \in Local /\ q \in Withdrawals /\ m.pc = "createTx"
    <2>1. t \in TxIds /\ t > lastTx /\ m.pc = "createTx"
      BY <1>2 DEF CreateTx, At, Inv, TypeOK, TxIds
    <2>2. m \in Local /\ q \in Withdrawals
      BY <1>2, <2>1 DEF Inv, TypeOK, LocalOK
    <2>3. RowOK(t)
      BY <2>1 DEF Inv
    <2> QED
      BY <2>1, <2>2, <2>3 DEF RowOK
  <1>4. /\ l.pc = "decrement" /\ l.pay = q /\ l.moved = m.moved /\ UNCHANGED ledger
    BY <1>2 DEF CreateTx, Inv, TypeOK, Local
  <1>5. /\ txs'[t].status = "pending" /\ txs'[t].pay = q
        /\ \A u \in TxIds : u # t => txs'[u] = txs[u] /\ chain'[u] = chain[u]
    <2>1. /\ txs' = [txs EXCEPT ![t] = [status |-> "pending", pay |-> q, hash |-> FALSE]]
          /\ chain' = [chain EXCEPT ![t].nonce = work[w].nonce]
          /\ txs \in [TxIds -> Row] /\ chain \in [TxIds -> OnChain]
      BY <1>2 DEF CreateTx, Inv, TypeOK
    <2> QED
      BY <1>3, <2>1
  <1>6. \A u \in TxIds : u # t => SameRow(u)
    BY <1>5 DEF SameRow
  <1>7. FlagOK(l)
    <2>1. ~m.moved
      BY <1>2, <1>3 DEF LInv, LedgerOK, FlagOK, BeforeTx
    <2> QED
      BY <1>4, <2>1 DEF FlagOK
  <1>8. PICK c, a : c = Cost(q) /\ a = AmountOf[q]
    OBVIOUS
  <1>9. c \in Int /\ a \in Int
    BY <1>3, <1>8, CostNumbers
  <1>10. ASSUME NEW k \in Tickers PROVE Balanced(l, k)'
    <2> DEFINE part(x) == IF TickerOf[q] = k THEN x ELSE 0
    <2>1. Taken(k)[t] = 0 /\ Given(k)[t] = 0 /\ Charged(k)[t] = 0
      BY <1>3, RowShare DEF Spent
    <2>2. Taken(k)'[t] = part(c) /\ Given(k)'[t] = part(a) /\ Charged(k)'[t] = 0
      BY <1>3, <1>5, <1>8 DEF Taken, Given, Charged, Spent, Cost
    <2>3. /\ Total(Taken(k))' = Total(Taken(k)) + part(c)
          /\ Total(Given(k))' = Total(Given(k)) + part(a)
          /\ Total(Charged(k))' = Total(Charged(k))
      <3>1. /\ Total(Taken(k))' = Total(Taken(k)) + part(c) - 0
            /\ Total(Given(k))' = Total(Given(k)) + part(a) - 0
            /\ Total(Charged(k))' = Total(Charged(k)) + 0 - 0
        BY <1>3, <1>6, <2>1, <2>2, OneRowTotals
      <3> QED
        BY <1>9, <3>1, LedgerNumbers
    <2>4. Due(l, k, c) = -part(c) /\ Due(l, k, a) = -part(a) /\ FeeAhead(l, k)' = 0
      BY <1>4, <1>9 DEF Due, Owed, Untaken, FeeAhead
    <2>5. /\ merchantBalance[k] + Total(Taken(k)) + 0 = MerchantFunds[k]
          /\ walletBalance[k] + Total(Given(k)) + Total(Charged(k)) + 0 + 0 = WalletFunds[k]
      <3>1. Balanced(m, k) /\ Clear(m)
        BY <1>2, <1>3 DEF LInv, LedgerOK, Clear, Owed, Untaken
      <3> QED
        BY <3>1, ClearDue DEF Balanced
    <2>6. merchantBalance'[k] = merchantBalance[k] /\ walletBalance'[k] = walletBalance[k]
      BY <1>4 DEF ledger
    <2>7. /\ merchantBalance'[k] + Total(Taken(k))' + (-part(c)) = MerchantFunds[k]
          /\ walletBalance'[k] + Total(Given(k))' + Total(Charged(k))' + (-part(a)) + 0 = WalletFunds[k]
      BY <1>9, <2>3, <2>5, <2>6, LedgerNumbers
    <2> QED
      BY <1>4, <1>8, <2>4, <2>7 DEF Balanced
  <1> QED
    BY <1>1, <1>2, <1>7, <1>10, LedgerFinish

\* A status is written, of the worker's own row.
LEMMA StatusFacts ==
    ASSUME Inv, SInv, NEW w \in Workers, work[w].pc \in {"undoTx", "cancelTx", "confirmWrite"},
           NEW s, txs' = [txs EXCEPT ![work[w].tx].status = s]
    PROVE  /\ work[w].tx \in TxIds /\ work[w].pay \in Withdrawals
           /\ txs[work[w].tx].status = "pending" /\ txs[work[w].tx].pay = work[w].pay
           /\ txs'[work[w].tx].status = s /\ txs'[work[w].tx].pay = work[w].pay
           /\ \A u \in TxIds : u # work[w].tx => txs'[u] = txs[u]
  <1>1. PICK t, q : t = work[w].tx /\ q = work[w].pay
    OBVIOUS
  <1>2. t \in TxIds /\ q \in Withdrawals /\ txs[t].pay = q
    BY <1>1 DEF Inv, LocalOK, WithTx, Executing, Reverting, Belongs
  <1>3. txs[t].status = "pending"
    BY <1>1 DEF SInv, SerialOK, BooksOK, Made, Checking
  <1>4. txs \in [TxIds -> Row] /\ txs[t] \in Row
    BY <1>2 DEF Inv, TypeOK
  <1>5. txs'[t] = [txs[t] EXCEPT !.status = s] /\ \A u \in TxIds : u # t => txs'[u] = txs[u]
    BY <1>1, <1>2, <1>4
  <1>6. txs'[t].status = s /\ txs'[t].pay = q
    BY <1>2, <1>4, <1>5 DEF Row
  <1> QED
    BY <1>1, <1>2, <1>3, <1>5, <1>6

\* The worker closes a pending row: what it said was taken, it no longer says.
LEMMA LClose ==
    ASSUME Inv, Inv', SInv, LInv, NEW w \in Workers, Workers = {w}, UNCHANGED <<ledger, chain>>,
           NEW m, m = work[w], NEW l, l = work'[w], FlagOK(l), l.pay = m.pay \/ l = Idle,
           NEW s \in {"canceled", "failed"}, txs' = [txs EXCEPT ![m.tx].status = s],
           \/ m.pc = "undoTx" /\ s = "canceled" /\ Untaken(m) /\ Clear(l)
           \/ m.pc = "undoTx" /\ s = "canceled" /\ Clear(m) /\ Owed(l) /\ l.pay = m.pay
           \/ m.pc = "cancelTx" /\ s = "failed" /\ Owed(l) /\ l.pay = m.pay
    PROVE  LInv'
  <1>1. PICK t, q, c, a, f : /\ t = m.tx /\ q = m.pay /\ c = Cost(m.pay) /\ a = AmountOf[m.pay]
                             /\ f = chain[m.tx].fee
    OBVIOUS
  <1>2. /\ t \in TxIds /\ q \in Withdrawals /\ txs[t].status = "pending" /\ txs[t].pay = q
        /\ txs'[t].status = s /\ txs'[t].pay = q
        /\ \A u \in TxIds : u # t => txs'[u] = txs[u]
    <2>1. /\ work[w].tx \in TxIds /\ work[w].pay \in Withdrawals
          /\ txs[work[w].tx].status = "pending" /\ txs[work[w].tx].pay = work[w].pay
          /\ txs'[work[w].tx].status = s /\ txs'[work[w].tx].pay = work[w].pay
          /\ \A u \in TxIds : u # work[w].tx => txs'[u] = txs[u]
      BY StatusFacts
    <2> QED
      BY <1>1, <2>1
  <1>3. c \in Int /\ a \in Int /\ f \in Int
    BY <1>1, <1>2, CostNumbers, FeeNumbers
  <1>4. \A u \in TxIds : u # t => SameRow(u)
    BY <1>2 DEF SameRow
  <1>5. ASSUME NEW k \in Tickers PROVE Balanced(l, k)'
    <2> DEFINE part(x) == IF TickerOf[q] = k THEN x ELSE 0
               fee == IF k = Coin /\ s = "failed" THEN f ELSE 0
    <2>1. Taken(k)[t] = part(c) /\ Given(k)[t] = part(a) /\ Charged(k)[t] = 0
      BY <1>1, <1>2, RowShare DEF Spent
    <2>2. Taken(k)'[t] = 0 /\ Given(k)'[t] = 0 /\ Charged(k)'[t] = fee
      BY <1>1, <1>2 DEF Taken, Given, Charged, Spent
    <2>3. /\ Total(Taken(k))' = Total(Taken(k)) + 0 - part(c)
          /\ Total(Given(k))' = Total(Given(k)) + 0 - part(a)
          /\ Total(Charged(k))' = Total(Charged(k)) + fee - 0
      BY <1>2, <1>4, <2>1, <2>2, OneRowTotals
    <2>4. Balanced(m, k)
      BY DEF LInv, LedgerOK
    <2>5. merchantBalance'[k] = merchantBalance[k] /\ walletBalance'[k] = walletBalance[k]
      BY DEF ledger
    <2>6. /\ Due(l, k, Cost(l.pay)) - Due(m, k, c) = part(c)
          /\ Due(l, k, AmountOf[l.pay]) - Due(m, k, a) = part(a)
          /\ Due(l, k, Cost(l.pay)) \in Int /\ Due(m, k, c) \in Int
          /\ Due(l, k, AmountOf[l.pay]) \in Int /\ Due(m, k, a) \in Int
      <3>1. CASE Untaken(m) /\ Clear(l) /\ m.pc = "undoTx"
        <4>1. Due(l, k, Cost(l.pay)) = 0 /\ Due(l, k, AmountOf[l.pay]) = 0
          BY <3>1, ClearDue
        <4>2. Due(m, k, c) = -part(c) /\ Due(m, k, a) = -part(a)
          BY <1>1, <1>3, <3>1 DEF Due, Owed
        <4> QED
          BY <1>3, <4>1, <4>2
      <3>2. CASE Owed(l) /\ l.pay = m.pay /\ (Clear(m) \/ m.pc = "cancelTx")
        <4>1. Due(m, k, c) = 0 /\ Due(m, k, a) = 0
          BY <3>2 DEF Clear, Due, Owed, Untaken
        <4>2. Due(l, k, Cost(l.pay)) = part(c) /\ Due(l, k, AmountOf[l.pay]) = part(a)
          BY <1>1, <3>2 DEF Due
        <4> QED
          BY <1>3, <4>1, <4>2
      <3> QED
        BY <3>1, <3>2
    <2>7. FeeAhead(m, k) = fee /\ FeeAhead(l, k)' = 0 /\ fee \in Int
      BY <1>1, <1>3 DEF FeeAhead, Clear, Owed
    <2>8. /\ merchantBalance[k] + Total(Taken(k)) + Due(m, k, c) = MerchantFunds[k]
          /\ walletBalance[k] + Total(Given(k)) + Total(Charged(k)) + Due(m, k, a) + fee = WalletFunds[k]
      BY <1>1, <2>4, <2>7 DEF Balanced
    <2> HIDE DEF fee
    <2>9. /\ merchantBalance'[k] + Total(Taken(k))' + Due(l, k, Cost(l.pay)) = MerchantFunds[k]
          /\ walletBalance'[k] + Total(Given(k))' + Total(Charged(k))' + Due(l, k, AmountOf[l.pay]) + 0
               = WalletFunds[k]
      BY <1>3, <2>3, <2>5, <2>6, <2>7, <2>8, LedgerNumbers
    <2> QED
      BY <2>7, <2>9 DEF Balanced
  <1> QED
    BY <1>5, LedgerFinish

LEMMA LUndoTx ==
    ASSUME Inv, Inv', SInv, LInv, OneAtATime, NEW w \in Workers, UndoTx(w) PROVE LInv'
  <1>1. Workers = {w}
    BY DEF OneAtATime
  <1>2. PICK l, m : l = work'[w] /\ m = work[w]
    OBVIOUS
  <1>3. /\ UNCHANGED <<ledger, chain>> /\ m.pc = "undoTx" /\ txs' = [txs EXCEPT ![m.tx].status = "canceled"]
        /\ m \in Local /\ m.tx # 0
    BY <1>2 DEF UndoTx, At, Inv, TypeOK, LocalOK, WithTx, Belongs, TxIds
  <1>4. CASE m.moved
    <2>a. Goto(w, "undoBalances")
      BY <1>2, <1>4 DEF UndoTx
    <2>1. l.pc = "undoBalances" /\ l.pay = m.pay /\ l.moved = m.moved
      BY <1>2, <2>a DEF Goto, Inv, TypeOK, Local
    <2>2. FlagOK(l) /\ Owed(l) /\ Clear(m)
      BY <1>3, <1>4, <2>1 DEF FlagOK, BeforeTx, Owed, Clear, Untaken
    <2> QED
      BY <1>1, <1>2, <1>3, <2>1, <2>2, LClose
  <1>5. CASE ~m.moved
    <2>a. Goto(w, "failPayment") \/ End(w)
      BY <1>2, <1>5 DEF UndoTx
    <2>1. (l.pc = "failPayment" /\ l.pay = m.pay) \/ l = Idle
      BY <1>2, <2>a DEF Goto, End, Inv, TypeOK, Local
    <2>2. FlagOK(l) /\ Clear(l)
      <3>1. CASE l.pc = "failPayment"
        BY <3>1 DEF FlagOK, BeforeTx, Owed, Clear, Untaken
      <3> QED
        BY <2>1, <3>1, IdleClear
    <2>3. Untaken(m)
      BY <1>3, <1>5 DEF Untaken
    <2> QED
      BY <1>1, <1>2, <1>3, <2>1, <2>2, <2>3, LClose
  <1> QED
    BY <1>4, <1>5

LEMMA LCancelTx ==
    ASSUME Inv, Inv', SInv, LInv, OneAtATime, NEW w \in Workers, CancelTx(w) PROVE LInv'
  <1>1. Workers = {w}
    BY DEF OneAtATime
  <1>2. PICK l, m : l = work'[w] /\ m = work[w]
    OBVIOUS
  <1>3. /\ UNCHANGED <<ledger, chain>> /\ m.pc = "cancelTx" /\ txs' = [txs EXCEPT ![m.tx].status = "failed"]
        /\ l.pc = "restore" /\ l.pay = m.pay
    BY <1>2 DEF CancelTx, At, Goto, Inv, TypeOK, Local
  <1>4. FlagOK(l) /\ Owed(l)
    BY <1>3 DEF FlagOK, BeforeTx, Owed
  <1> QED
    BY <1>1, <1>2, <1>3, <1>4, LClose

\* The fee is taken ahead of the row that says so.
LEMMA LCancelFee ==
    ASSUME Inv, LInv, OneAtATime, NEW w \in Workers, CancelFee(w) PROVE LInv'
  <1>1. Workers = {w}
    BY DEF OneAtATime
  <1>2. PICK l, m, f : l = work'[w] /\ m = work[w] /\ f = chain[work[w].tx].fee
    OBVIOUS
  <1>3. UNCHANGED <<txs, chain, merchantBalance>> /\ m.pc = "chargeFee" /\ Clear(m) /\ m.tx \in TxIds
    BY <1>2 DEF CancelFee, At, Clear, Owed, Untaken, Inv, LocalOK, WithTx, Reverting, Belongs
  <1>4. CASE End(w) /\ UNCHANGED walletBalance
    BY <1>1, <1>2, <1>3, <1>4, Unrecorded, QuietEnd DEF ledger
  <1>5. CASE ChargeFee(f) /\ Goto(w, "cancelTx")
    <2>1. l.pc = "cancelTx" /\ l.pay = m.pay /\ l.tx = m.tx
      BY <1>2, <1>5 DEF Goto, Inv, TypeOK, Local
    <2>2. FlagOK(l) /\ ~Owed(l) /\ ~Untaken(l)
      BY <2>1 DEF FlagOK, BeforeTx, Owed, Untaken
    <2>3. ASSUME NEW k \in Tickers PROVE Balanced(l, k)'
      <3> DEFINE fee == IF k = Coin THEN f ELSE 0
      <3>1. Balanced(m, k)
        BY <1>1, <1>2 DEF LInv, LedgerOK
      <3>2. Taken(k)' = Taken(k) /\ Given(k)' = Given(k) /\ Charged(k)' = Charged(k)
        BY <1>3, Unrecorded, SameTotals DEF SameRows
      <3>3. Due(l, k, Cost(l.pay)) = 0 /\ Due(l, k, AmountOf[l.pay]) = 0 /\ FeeAhead(l, k)' = fee
        BY <1>2, <1>3, <2>1, <2>2 DEF Due, FeeAhead
      <3>4. Due(m, k, Cost(m.pay)) = 0 /\ Due(m, k, AmountOf[m.pay]) = 0 /\ FeeAhead(m, k) = 0
        BY <1>3, ClearDue
      <3>5. f \in Int /\ fee \in Int
        BY <1>2, <1>3, FeeNumbers
      <3>6. walletBalance'[k] = walletBalance[k] - fee
        BY <1>5, <3>5 DEF ChargeFee, Inv, TypeOK
      <3> HIDE DEF fee
      <3>7. /\ merchantBalance[k] + Total(Taken(k)) + 0 = MerchantFunds[k]
            /\ walletBalance[k] + Total(Given(k)) + Total(Charged(k)) + 0 + 0 = WalletFunds[k]
        BY <3>1, <3>4 DEF Balanced
      <3>8. /\ merchantBalance'[k] + Total(Taken(k)) + 0 = MerchantFunds[k]
            /\ walletBalance'[k] + Total(Given(k)) + Total(Charged(k)) + 0 + fee = WalletFunds[k]
        BY <1>3, <3>5, <3>6, <3>7, LedgerNumbers
      <3> QED
        BY <3>2, <3>3, <3>8 DEF Balanced
    <2> QED
      BY <1>1, <1>2, <2>2, <2>3, LedgerFinish
  <1> QED
    BY <1>2, <1>4, <1>5 DEF CancelFee

\* The row is completed and the fee taken in one database transaction.
LEMMA LConfirmWrite ==
    ASSUME Inv, Inv', SInv, LInv, OneAtATime, NEW w \in Workers, ConfirmWrite(w) PROVE LInv'
  <1>1. Workers = {w}
    BY DEF OneAtATime
  <1>2. PICK l, m, t, f : l = work'[w] /\ m = work[w] /\ t = work[w].tx /\ f = chain[work[w].tx].fee
    OBVIOUS
  <1>3. UNCHANGED <<chain, merchantBalance>> /\ m.pc = "confirmWrite" /\ Clear(m)
    BY <1>2 DEF ConfirmWrite, At, Clear, Owed, Untaken
  <1>4. CASE End(w) /\ UNCHANGED <<walletBalance, txs>>
    BY <1>1, <1>2, <1>3, <1>4, Unrecorded, QuietEnd DEF ledger
  <1>5. CASE ChargeFee(f) /\ txs' = [txs EXCEPT ![work[w].tx].status = "completed"] /\ Goto(w, "markSuccess")
    <2>1. l.pc = "markSuccess"
      BY <1>2, <1>5 DEF Goto, Inv, TypeOK, Local
    <2>2. FlagOK(l) /\ Clear(l)
      BY <2>1 DEF FlagOK, BeforeTx, Clear, Owed, Untaken
    <2>3. /\ t \in TxIds /\ txs[t].status = "pending" /\ txs'[t].status = "completed"
          /\ txs'[t].pay = txs[t].pay /\ \A u \in TxIds : u # t => txs'[u] = txs[u]
      <3>1. /\ work[w].tx \in TxIds /\ txs[work[w].tx].status = "pending"
            /\ txs[work[w].tx].pay = work[w].pay /\ txs'[work[w].tx].status = "completed"
            /\ txs'[work[w].tx].pay = work[w].pay
            /\ \A u \in TxIds : u # work[w].tx => txs'[u] = txs[u]
        BY <1>2, <1>3, <1>5, StatusFacts
      <3> QED
        BY <1>2, <3>1
    <2>4. \A u \in TxIds : u # t => SameRow(u)
      BY <1>3, <2>3 DEF SameRow
    <2>5. ASSUME NEW k \in Tickers PROVE Balanced(l, k)'
      <3> DEFINE fee == IF k = Coin THEN f ELSE 0
      <3>1. Balanced(m, k)
        BY <1>1, <1>2 DEF LInv, LedgerOK
      <3>2. Taken(k)'[t] = Taken(k)[t] /\ Given(k)'[t] = Given(k)[t]
        BY <2>3 DEF Taken, Given, Spent, Cost
      <3>3. Charged(k)[t] = 0 /\ Charged(k)'[t] = fee
        BY <1>2, <1>3, <2>3 DEF Charged
      <3>4. f \in Int /\ fee \in Int /\ Taken(k)[t] \in Int /\ Given(k)[t] \in Int
        BY <1>2, <2>3, FeeNumbers, ColumnsType
      <3>5. walletBalance'[k] = walletBalance[k] - fee
        BY <1>5, <3>4 DEF ChargeFee, Inv, TypeOK
      <3> HIDE DEF fee
      <3>6. /\ Total(Taken(k))' = Total(Taken(k)) + Taken(k)[t] - Taken(k)[t]
            /\ Total(Given(k))' = Total(Given(k)) + Given(k)[t] - Given(k)[t]
            /\ Total(Charged(k))' = Total(Charged(k)) + fee - 0
        BY <2>3, <2>4, <3>2, <3>3, OneRowTotals
      <3>7. Due(l, k, Cost(l.pay)) = 0 /\ Due(l, k, AmountOf[l.pay]) = 0 /\ FeeAhead(l, k)' = 0
        BY <2>2 DEF Clear, Due, FeeAhead
      <3>8. /\ merchantBalance[k] + Total(Taken(k)) + 0 = MerchantFunds[k]
            /\ walletBalance[k] + Total(Given(k)) + Total(Charged(k)) + 0 + 0 = WalletFunds[k]
        BY <1>3, <3>1, ClearDue DEF Balanced
      <3>9. /\ merchantBalance'[k] + Total(Taken(k))' + 0 = MerchantFunds[k]
            /\ walletBalance'[k] + Total(Given(k))' + Total(Charged(k))' + 0 + 0 = WalletFunds[k]
        BY <1>3, <3>4, <3>5, <3>6, <3>8, LedgerNumbers
      <3> QED
        BY <3>7, <3>9 DEF Balanced
    <2> QED
      BY <1>1, <1>2, <2>2, <2>5, LedgerFinish
  <1> QED
    BY <1>2, <1>4, <1>5 DEF ConfirmWrite

-----------------------------------------------------------------------------
LEMMA InitLInv == Init => LInv
  <1> SUFFICES ASSUME Init, NEW w \in Workers PROVE LedgerOK(work[w])
    BY DEF LInv
  <1>1. work[w] = Idle /\ FlagOK(Idle) /\ Clear(Idle) /\ Inv
    BY IdleClear, InitInv DEF Init
  <1>2. ASSUME NEW k \in Tickers PROVE Balanced(Idle, k)
    <2>1. \A t \in TxIds : txs[t].status = "none"
      BY DEF Init, NoRow
    <2>2. PICK a, b, c : a = Taken(k) /\ b = Given(k) /\ c = Charged(k)
      OBVIOUS
    <2>3. a \in [TxIds -> {0}] /\ b \in [TxIds -> {0}] /\ c \in [TxIds -> {0}]
      BY <2>1, <2>2 DEF Taken, Given, Charged, Spent
    <2>4. Total(a) = 0 /\ Total(b) = 0 /\ Total(c) = 0
      BY <2>3, RowsAreFinite, TotalZero
    <2>5. Due(Idle, k, Cost(Idle.pay)) = 0 /\ Due(Idle, k, AmountOf[Idle.pay]) = 0 /\ FeeAhead(Idle, k) = 0
      BY <1>1, ClearDue
    <2>6. merchantBalance[k] = MerchantFunds[k] /\ walletBalance[k] = WalletFunds[k]
          /\ MerchantFunds[k] \in Int /\ WalletFunds[k] \in Int
      BY DEF Init
    <2> QED
      BY <2>2, <2>4, <2>5, <2>6 DEF Balanced
  <1> QED
    BY <1>1, <1>2 DEF LedgerOK

LEMMA NextLInv == OneAtATime /\ Inv /\ SInv /\ LInv /\ [Next]_vars => LInv'
  <1> SUFFICES ASSUME OneAtATime, Inv, SInv, LInv, [Next]_vars PROVE LInv'
    OBVIOUS
  <1>1. Inv'
    BY NextInv
  <1>2. CASE UNCHANGED vars
    BY <1>2, LStays DEF vars
  <1>3. ASSUME NEW p \in Withdrawals, Ask(p) \/ CreateWithdrawal(p) PROVE LInv'
    BY <1>3, LStays DEF Ask, CreateWithdrawal, ledger
  <1>4. ASSUME NEW w \in Workers, NEW p \in Withdrawals, StartCreate(w, p) PROVE LInv'
    BY <1>4, LStart
  <1>5. ASSUME NEW w \in Workers, NEW t \in TxIds, StartCheck(w, t) PROVE LInv'
    BY <1>5, LStart
  <1>6. ASSUME NEW w \in Workers, Step(w) PROVE LInv'
    <2>1. ~Abort(w)
      BY DEF Abort, OneAtATime
    <2> QED
      BY <1>1, <1>6, <2>1, LCheckBalances, LTakeNonce, LCreateTx, LDecrement, LBroadcast, LSetHash, LMark,
         LError, LUndoNonce, LUndoTx, LGiveBack, LCheckSteps, LConfirmWrite, LCancelFee, LCancelTx DEF Step
  <1>7. ASSUME NEW t \in TxIds, NEW r \in {"success", "reverted"}, NEW f \in NetworkFees, Mine(t, r, f)
        PROVE  LInv'
    BY <1>7, LMine
  <1> QED
    BY <1>2, <1>3, <1>4, <1>5, <1>6, <1>7 DEF Next

\* One job after the other, the balances of the merchant and of the outbound wallet are
\* between jobs what they were at first less what the rows of the table transactions say,
\* whatever the broadcasts came to and however often a withdrawal was tried again: no
\* rollback loses or repeats a payment.
THEOREM LedgerFollowsTxs == OneAtATime => (Spec => []LedgerMatchesTxs)
  <1> SUFFICES ASSUME OneAtATime PROVE Spec => []LedgerMatchesTxs
    OBVIOUS
  <1>1. Init => Inv /\ SInv /\ LInv
    BY InitInv, InitSInv, InitLInv
  <1>2. Inv /\ SInv /\ LInv /\ [Next]_vars => (Inv /\ SInv /\ LInv)'
    BY NextInv, NextSInv, NextLInv
  <1>3. Inv /\ LInv => LedgerMatchesTxs
    <2> SUFFICES ASSUME Inv, LInv, Quiet, NEW k \in Tickers
                 PROVE  /\ merchantBalance[k] = MerchantFunds[k] - Total(Taken(k))
                        /\ walletBalance[k] = WalletFunds[k] - Total(Given(k)) - Total(Charged(k))
      BY DEF LedgerMatchesTxs
    <2>1. PICK w \in Workers : work[w] = Idle
      BY DEF OneAtATime, Quiet
    <2>2. Balanced(Idle, k) /\ Clear(Idle)
      BY <2>1, IdleClear DEF LInv, LedgerOK
    <2>3. /\ merchantBalance[k] + Total(Taken(k)) + 0 = MerchantFunds[k]
          /\ walletBalance[k] + Total(Given(k)) + Total(Charged(k)) + 0 + 0 = WalletFunds[k]
      BY <2>2, ClearDue DEF Balanced
    <2> QED
      BY <2>3, LedgerNumbers
  <1> QED
    BY <1>1, <1>2, <1>3, PTL DEF Spec

=============================================================================
