-------------------------- MODULE UtxoTransferProofs --------------------------
(***************************************************************************)
(* No output is spent twice, for any number of goroutines and wallets, any *)
(* selection of coins, any failure, crash, expiry and late listing, as     *)
(* long as no answer to a broadcast is lost.  The invariant says who holds *)
(* an output: a row of the table of reservations that bears the id of the  *)
(* transaction that spends it, from before that transaction is sent and    *)
(* for ever after, because an expired row stays in the unique index.       *)
(*                                                                         *)
(* Plans: the cost of a plan grows with its amount, so that the search for *)
(* the limit by halves ends at the last amount there is a plan for.        *)
(*                                                                         *)
(* Books, without crashes: the balance is the value of the outputs on the  *)
(* chain plus what each transaction is late by.                            *)
(***************************************************************************)
EXTENDS UtxoTransfer, TableTheorems, TLAPS

\* Where a goroutine has reservations that bear no transaction's id yet, ...
Reserving == {"sign", "unreserve"}
\* ... where it has no transaction, and where it has one that it has not sent.
Before == {"idle", "source", "check", "plan", "reserve"} \cup Reserving
Unsending == {"createTx", "decrement", "broadcast", "release"}

\* The reservations of what the transaction t spends bear its id.
Backed(t) == \A o \in chain[t].ins : o \in DOMAIN held /\ held[o].tx = t

LocalOK(l) ==
    /\ DOMAIN l = DOMAIN Idle /\ l.kind \in {"pay", "sweep"}
    /\ l.tx \in 0..signed
    /\ l.pc \in Before => l.tx = 0
    /\ l.pc \in Reserving => \A o \in Inputs(l) : o \in DOMAIN held /\ held[o].tx = 0
    /\ l.pc \in Unsending => l.tx # 0 /\ ~Sent(l.tx)
    /\ l.pc \in Unsending \ {"release"} => Backed(l.tx)

\* Two goroutines work on different transactions and reserve different outputs.
Apart(l, m) ==
    /\ l.tx # 0 => l.tx # m.tx
    /\ l.pc \in Reserving /\ m.pc \in Reserving => Inputs(l) \cap Inputs(m) = {}

TablesOK ==
    /\ signed \in 0..MaxTx
    /\ held \in [DOMAIN held -> Reservation]
    /\ chain = [t \in TxIds |-> [state |-> chain[t].state, ins |-> chain[t].ins, outs |-> chain[t].outs]]
    /\ work = [w \in Workers |-> work[w]]
    /\ \A t \in TxIds : t > signed => ~Sent(t)

Inv ==
    /\ TablesOK
    /\ \A t \in TxIds : Sent(t) => Backed(t)
    /\ \A w \in Workers : LocalOK(work[w])
    /\ \A v, w \in Workers : v # w => Apart(work[v], work[w])

USE UtxoAssumption

-----------------------------------------------------------------------------
(* What a step of the goroutine w leaves to the others *)

\* The outputs whose reservations w alone knows of.
Own(l) == IF l.pc \in Reserving THEN Inputs(l) ELSE {}

Keeps(w) ==
    /\ \A v \in Workers : v # w => work'[v] = work[v]
    /\ signed <= signed'
    /\ \A o \in DOMAIN held :
          o \notin Own(work[w]) /\ (held[o].tx = 0 \/ held[o].tx # work[w].tx) =>
             o \in DOMAIN held' /\ held'[o].tx = held[o].tx
    /\ \A t \in 1..signed : chain'[t].ins = chain[t].ins /\ (t # work[w].tx => (Sent(t)' <=> Sent(t)))

\* The transaction is w's own or a new one, the outputs are its own or new ones.
Gains(w) ==
    /\ work'[w].tx \in {0, work[w].tx} \/ (signed < work'[w].tx)
    /\ \A o \in Own(work'[w]) : o \in Own(work[w]) \/ o \notin DOMAIN held

LEMMA Preserve ==
    ASSUME Inv, NEW w \in Workers, Keeps(w), Gains(w), TablesOK', LocalOK(work[w])',
           \A t \in TxIds : (t = work[w].tx \/ t > signed) /\ Sent(t)' => Backed(t)'
    PROVE  Inv'
  <1>0. signed \in Nat /\ signed' \in Nat /\ TxIds = 1..MaxTx /\ signed <= MaxTx /\ signed' <= MaxTx
    BY DEF Inv, TablesOK, TxIds
  <1>1. ASSUME NEW v \in Workers, v # w, NEW o \in DOMAIN held, held[o].tx = 0, o \in Own(work[v])
        PROVE  o \in DOMAIN held' /\ held'[o].tx = held[o].tx
    <2>1. LocalOK(work[w]) /\ Apart(work[v], work[w])
      BY <1>1 DEF Inv
    <2>2. o \notin Own(work[w])
      BY <1>1, <2>1 DEF Apart, Own, LocalOK
    <2> QED
      BY <1>1, <2>2 DEF Keeps
  <1>2. ASSUME NEW t \in 1..signed, t # work[w].tx, NEW o \in DOMAIN held, held[o].tx = t
        PROVE  o \in DOMAIN held' /\ held'[o].tx = t
    <2>1. LocalOK(work[w])
      BY DEF Inv
    <2>2. o \notin Own(work[w])
      BY <1>2, <2>1, <1>0 DEF Own, LocalOK
    <2> QED
      BY <1>2, <2>2, <1>0 DEF Keeps
  <1>3. ASSUME NEW t \in 1..signed, t # work[w].tx, Backed(t)
        PROVE  Backed(t)'
    BY <1>3, <1>2 DEF Backed, Keeps
  <1>4. ASSUME NEW t \in TxIds, Sent(t)'
        PROVE  Backed(t)'
    <2>1. CASE t = work[w].tx
      BY <2>1, <1>4, <1>0
    <2>2. CASE t # work[w].tx /\ t <= signed
      <3>1. t \in 1..signed /\ Sent(t)
        BY <2>2, <1>4, <1>0 DEF Keeps
      <3>2. Backed(t)
        BY <3>1 DEF Inv
      <3> QED
        BY <2>2, <3>1, <3>2, <1>3
    <2>3. CASE t # work[w].tx /\ t > signed
      BY <2>3, <1>4, <1>0
    <2> QED
      BY <2>1, <2>2, <2>3, <1>0
  <1>5. ASSUME NEW v \in Workers, v # w
        PROVE  LocalOK(work[v])'
    <2>1. LocalOK(work[v]) /\ Apart(work[v], work[w]) /\ work'[v] = work[v]
      BY <1>5 DEF Inv, Keeps
    <2>2. ASSUME work[v].pc \in Reserving, NEW o \in Inputs(work[v])
          PROVE  o \in DOMAIN held' /\ held'[o].tx = 0
      <3>1. o \in DOMAIN held /\ held[o].tx = 0 /\ o \in Own(work[v])
        BY <2>1, <2>2 DEF LocalOK, Own
      <3> QED
        BY <3>1, <1>1, <1>5
    <2>3. work[v].pc \in Unsending => ~Sent(work[v].tx)'
      BY <2>1, <1>0 DEF LocalOK, Apart, Keeps
    <2>4. work[v].pc \in Unsending \ {"release"} => Backed(work[v].tx)'
      BY <2>1, <1>3, <1>0 DEF LocalOK, Apart
    <2>5. work[v].tx \in 0..signed'
      BY <2>1, <1>0 DEF LocalOK, Keeps
    <2> QED
      BY <2>1, <2>2, <2>3, <2>4, <2>5 DEF LocalOK, Backed, Sent
  <1>6. ASSUME NEW v \in Workers, v # w
        PROVE  Apart(work[v], work[w])' /\ Apart(work[w], work[v])'
    <2>1. LocalOK(work[v]) /\ Apart(work[v], work[w]) /\ Apart(work[w], work[v]) /\ work'[v] = work[v]
      BY <1>6 DEF Inv, Keeps
    <2>2. work[v].tx # 0 => work[v].tx # work'[w].tx
      BY <2>1, <1>0 DEF LocalOK, Apart, Gains
    <2>3. work[v].pc \in Reserving /\ work'[w].pc \in Reserving
            => Inputs(work[v]) \cap Inputs(work'[w]) = {}
      BY <2>1 DEF LocalOK, Apart, Gains, Own
    <2> QED
      BY <2>1, <2>2, <2>3 DEF Apart
  <1>7. \A u, v \in Workers : u # v => Apart(work[u], work[v])'
    <2> SUFFICES ASSUME NEW u \in Workers, NEW v \in Workers, u # v
                 PROVE  Apart(work[u], work[v])'
      OBVIOUS
    <2>1. CASE u # w /\ v # w
      BY <2>1 DEF Inv, Keeps, Apart
    <2> QED
      BY <2>1, <1>6
  <1> QED
    BY <1>4, <1>5, <1>7 DEF Inv


\* A step that changes the local variables of w only.
LEMMA MoveStep ==
    ASSUME Inv, NEW w \in Workers, NEW l, work' = [work EXCEPT ![w] = l], LocalOK(l),
           UNCHANGED <<signed, held, chain>>,
           l.tx \in {0, work[w].tx}, Own(l) \subseteq Own(work[w])
    PROVE  Inv'
  <1>1. work'[w] = l /\ \A v \in Workers : v # w => work'[v] = work[v]
    BY DEF Inv, TablesOK
  <1>2. TablesOK'
    BY DEF Inv, TablesOK, Sent
  <1>3. LocalOK(work[w])'
    BY <1>1 DEF LocalOK, Backed, Sent
  <1>4. Keeps(w)
    BY <1>1 DEF Keeps, Sent, Inv, TablesOK
  <1>5. Gains(w)
    BY <1>1 DEF Gains
  <1>6. \A t \in TxIds : (t = work[w].tx \/ t > signed) /\ Sent(t)' => Backed(t)'
    BY DEF Inv, Sent, Backed
  <1> QED
    BY <1>2, <1>3, <1>4, <1>5, <1>6, Preserve

\* A step that leaves what the invariant speaks of alone.
LEMMA SameStep ==
    ASSUME Inv, UNCHANGED <<signed, held, chain, work>>
    PROVE  Inv'
  BY DEF Inv, TablesOK, LocalOK, Apart, Backed, Sent

\* The local variables of w but its program counter stay what they are.
LEMMA GotoStep ==
    ASSUME Inv, NEW w \in Workers, NEW p, Goto(w, p), UNCHANGED <<signed, held, chain>>,
           p \in Steps \ (Before \cup Unsending)
    PROVE  Inv'
  <1> DEFINE l == [work[w] EXCEPT !.pc = p]
  <1>1. LocalOK(work[w]) /\ work' = [work EXCEPT ![w] = l]
    BY DEF Inv, Goto
  <1>2. l.pc = p /\ l.tx = work[w].tx /\ l.kind = work[w].kind /\ DOMAIN l = DOMAIN Idle
    BY <1>1 DEF LocalOK, Idle
  <1>3. LocalOK(l) /\ Own(l) = {}
    BY <1>1, <1>2 DEF LocalOK, Own, Before
  <1> HIDE DEF l
  <1> QED
    BY <1>1, <1>2, <1>3, MoveStep

\* w ends.
LEMMA EndStep ==
    ASSUME Inv, NEW w \in Workers, End(w), UNCHANGED <<signed, held, chain>>
    PROVE  Inv'
  <1>1. LocalOK(Idle) /\ Idle.tx = 0 /\ Own(Idle) = {}
    BY DEF Idle, LocalOK, Own, Reserving, Unsending, Inv, TablesOK
  <1> QED
    BY <1>1, MoveStep DEF End

-----------------------------------------------------------------------------
(* Steps that change the local variables only *)

\* w begins anew at p, without a transaction.
Anew(l, p) ==
    DOMAIN l = DOMAIN Idle /\ l.pc = p /\ l.tx = 0 /\ l.kind \in {"pay", "sweep"}

LEMMA AnewStep ==
    ASSUME Inv, NEW w \in Workers, NEW l, NEW p, work' = [work EXCEPT ![w] = l],
           UNCHANGED <<signed, held, chain>>, Anew(l, p), p \notin Reserving \cup Unsending
    PROVE  Inv'
  <1>1. LocalOK(l) /\ Own(l) = {}
    BY DEF LocalOK, Own, Anew, Inv, TablesOK
  <1> QED
    BY <1>1, MoveStep DEF Anew

LEMMA ConsolidateStep ==
    ASSUME Inv, NEW w \in Workers, Consolidate(w), UNCHANGED <<signed, held, chain>>
    PROVE  Inv'
  <1>1. PICK candidates \in listInboundUTXOSources :
           work' = [work EXCEPT ![w] =
                      [Idle EXCEPT !.pc = "nextSweep", !.pay = work[w].pay, !.kind = "sweep",
                        !.queue = selectUTXOConsolidationCandidates(candidates, price[work[w].pay])]]
    BY DEF Consolidate
  <1> DEFINE l == [Idle EXCEPT !.pc = "nextSweep", !.pay = work[w].pay, !.kind = "sweep",
                               !.queue = selectUTXOConsolidationCandidates(candidates, price[work[w].pay])]
  <1>2. work' = [work EXCEPT ![w] = l] /\ Anew(l, "nextSweep")
    BY <1>1 DEF Anew, Idle
  <1> HIDE DEF l
  <1> QED
    BY <1>2, AnewStep DEF Reserving, Unsending

LEMMA StartStep ==
    ASSUME Inv, NEW w \in Workers, NEW p \in Withdrawals, StartWithdrawal(w, p)
    PROVE  Inv'
  <1> DEFINE l == [Idle EXCEPT !.pc = "source", !.pay = p, !.seen = merchantBalance]
  <1>1. work' = [work EXCEPT ![w] = l] /\ Anew(l, "source") /\ UNCHANGED <<signed, held, chain>>
    BY DEF StartWithdrawal, Anew, Idle
  <1> HIDE DEF l
  <1> QED
    BY <1>1, AnewStep DEF Reserving, Unsending

LEMMA ResolveStep ==
    ASSUME Inv, NEW w \in Workers, resolveUTXOWithdrawalSource(w)
    PROVE  Inv'
  <1> DEFINE l(a) == [work[w] EXCEPT !.pc = "check", !.wallet = a]
  <1>1. /\ At(w, "source") /\ UNCHANGED <<signed, held, chain>>
        /\ (\E a : work' = [work EXCEPT ![w] = l(a)]) \/ Consolidate(w)
    BY DEF resolveUTXOWithdrawalSource, PaysFrom, PaysFromInbound
  <1>2. CASE Consolidate(w)
    BY <1>1, <1>2, ConsolidateStep
  <1>3. ASSUME NEW a, work' = [work EXCEPT ![w] = l(a)]
        PROVE  Inv'
    <2>1. Anew(l(a), "check")
      BY <1>1 DEF Inv, LocalOK, Anew, Idle, Before, At
    <2> HIDE DEF l
    <2> QED
      BY <1>1, <1>3, <2>1, AnewStep DEF Reserving, Unsending
  <1> QED
    BY <1>1, <1>2, <1>3

LEMMA NextSweepStep ==
    ASSUME Inv, NEW w \in Workers, NextSweep(w)
    PROVE  Inv'
  <1> DEFINE l == [Idle EXCEPT !.pc = "check", !.pay = work[w].pay, !.kind = "sweep",
                               !.wallet = Head(work[w].queue), !.queue = Tail(work[w].queue),
                               !.swept = work[w].swept]
  <1>1. UNCHANGED <<signed, held, chain>> /\ (End(w) \/ work' = [work EXCEPT ![w] = l])
    BY DEF NextSweep
  <1>2. Anew(l, "check")
    BY DEF Anew, Idle
  <1> HIDE DEF l
  <1> QED
    BY <1>1, <1>2, EndStep, AnewStep DEF Reserving, Unsending

\* An error leaves the transaction to be released, unless there is none.
LEMMA UndoStep ==
    ASSUME Inv, NEW w \in Workers, NEW mark, Undo(w, mark), UNCHANGED <<signed, held, chain>>,
           work[w].pc \in (Before \cup Unsending) \ Reserving
    PROVE  Inv'
  <1> DEFINE l == [work[w] EXCEPT !.mark = @ \/ mark,
                                  !.pc = IF work[w].tx = 0 THEN "undoTx" ELSE "release"]
  <1>1. LocalOK(work[w]) /\ work' = [work EXCEPT ![w] = l]
    BY DEF Inv, Undo
  <1>2. /\ DOMAIN l = DOMAIN Idle /\ l.tx = work[w].tx /\ l.kind = work[w].kind
        /\ l.pc = IF work[w].tx = 0 THEN "undoTx" ELSE "release"
    BY <1>1 DEF LocalOK, Idle
  <1> HIDE DEF l
  <1>3. LocalOK(l) /\ Own(l) = {}
    BY <1>1, <1>2 DEF LocalOK, Own, Before, Unsending, Reserving
  <1> QED
    BY <1>1, <1>2, <1>3, MoveStep

LEMMA CheckBalancesStep ==
    ASSUME Inv, NEW w \in Workers, CheckBalances(w)
    PROVE  Inv'
  <1>1. PICK rate : \/ Undo(w, TRUE)
                    \/ work' = [work EXCEPT ![w] = [work[w] EXCEPT !.pc = "plan", !.rate = rate]]
    BY DEF CheckBalances
  <1> DEFINE l == [work[w] EXCEPT !.pc = "plan", !.rate = rate]
  <1>2. At(w, "check") /\ UNCHANGED <<signed, held, chain>>
    BY DEF CheckBalances
  <1>3. Anew(l, "plan")
    BY <1>2 DEF Inv, LocalOK, Anew, Idle, Before, At
  <1>4. CASE Undo(w, TRUE)
    BY <1>2, <1>4, UndoStep DEF At, Before, Unsending, Reserving
  <1> HIDE DEF l
  <1>5. CASE work' = [work EXCEPT ![w] = l]
    BY <1>2, <1>3, <1>5, AnewStep DEF Reserving, Unsending
  <1> QED
    BY <1>1, <1>4, <1>5 DEF l

\* A plan of what an explorer listed, or none.
LEMMA PlanFacts ==
    ASSUME NEW w \in Workers, work[w].kind \in {"pay", "sweep"}, Plan(w)
    PROVE  /\ At(w, "plan") /\ UNCHANGED <<payments, ledger, txs, signed, held, chain>>
           /\ \/ \E view \in Views(work[w].wallet) : \E s :
                   /\ s = Prepare(work[w], SpendableUTXOs(view)) /\ s.inputs # <<>>
                   /\ work' = [work EXCEPT ![w] = [work[w] EXCEPT !.pc = "reserve", !.sel = s]]
              \/ Consolidate(w)
              \/ Goto(w, "nextSweep")
  <1> DEFINE Decides(s) ==
         CASE s.inputs # <<>> -> work' = [work EXCEPT ![w] = [work[w] EXCEPT !.pc = "reserve", !.sel = s]]
           [] s.inputs = <<>> /\ work[w].kind = "pay" -> Consolidate(w)
           [] s.inputs = <<>> /\ work[w].kind = "sweep" -> Goto(w, "nextSweep")
  <1>1. At(w, "plan") /\ UNCHANGED <<payments, ledger, txs, signed, held, chain>>
    BY DEF Plan
  <1>2. \E view \in Views(work[w].wallet) : \E utxos \in {SpendableUTXOs(view)} :
           \E s \in {Prepare(work[w], utxos)} : Decides(s)
    BY ZenonT(40) DEF Plan
  <1>3. PICK view, s :
           view \in Views(work[w].wallet) /\ s = Prepare(work[w], SpendableUTXOs(view)) /\ Decides(s)
    <2> HIDE DEF Decides
    <2> QED
      BY <1>2
  <1>4. CASE s.inputs # <<>>
    BY <1>1, <1>3, <1>4
  <1>5. CASE s.inputs = <<>> /\ work[w].kind = "pay"
    BY <1>1, <1>3, <1>5
  <1>6. CASE s.inputs = <<>> /\ work[w].kind = "sweep"
    BY <1>1, <1>3, <1>6
  <1> QED
    BY <1>4, <1>5, <1>6

LEMMA PlanStep ==
    ASSUME Inv, NEW w \in Workers, Plan(w)
    PROVE  Inv'
  <1> DEFINE l(s) == [work[w] EXCEPT !.pc = "reserve", !.sel = s]
  <1>1. /\ At(w, "plan") /\ UNCHANGED <<signed, held, chain>>
        /\ \/ \E s : work' = [work EXCEPT ![w] = l(s)]
           \/ Consolidate(w)
           \/ Goto(w, "nextSweep")
    <2>1. work[w].kind \in {"pay", "sweep"}
      BY DEF Inv, LocalOK
    <2> QED
      BY <2>1, PlanFacts
  <1>2. ASSUME NEW s, work' = [work EXCEPT ![w] = l(s)]
        PROVE  Inv'
    <2>1. Anew(l(s), "reserve")
      BY <1>1 DEF Inv, LocalOK, Anew, Idle, Before, At
    <2> HIDE DEF l
    <2> QED
      BY <1>1, <1>2, <2>1, AnewStep DEF Reserving, Unsending
  <1>3. CASE Consolidate(w)
    BY <1>1, <1>3, ConsolidateStep
  <1>4. CASE Goto(w, "nextSweep")
    BY <1>1, <1>4, GotoStep DEF Steps, Before, Unsending, Reserving
  <1> QED
    BY <1>1, <1>2, <1>3, <1>4

LEMMA CreateTxStep ==
    ASSUME Inv, NEW w \in Workers, CreateTx(w)
    PROVE  Inv'
  <1> DEFINE l == [work[w] EXCEPT !.pc = "decrement", !.created = TRUE]
  <1>1. /\ LocalOK(work[w]) /\ At(w, "createTx") /\ work' = [work EXCEPT ![w] = l]
        /\ UNCHANGED <<signed, held, chain>>
    BY DEF Inv, CreateTx
  <1>2. l.pc = "decrement" /\ l.tx = work[w].tx /\ l.kind = work[w].kind /\ DOMAIN l = DOMAIN Idle
    BY <1>1 DEF LocalOK, Idle
  <1> HIDE DEF l
  <1>3. LocalOK(l) /\ Own(l) = {}
    BY <1>1, <1>2 DEF LocalOK, Own, At, Before, Unsending, Reserving
  <1> QED
    BY <1>1, <1>2, <1>3, MoveStep

LEMMA DecrementStep ==
    ASSUME Inv, NEW w \in Workers, Decrement(w)
    PROVE  Inv'
  <1> DEFINE l == [work[w] EXCEPT !.pc = "broadcast", !.moved = TRUE]
  <1>1. /\ LocalOK(work[w]) /\ At(w, "decrement") /\ UNCHANGED <<signed, held, chain>>
        /\ Undo(w, merchantBalance < Charge(work[w])) \/ work' = [work EXCEPT ![w] = l]
    BY DEF Inv, Decrement
  <1>2. l.pc = "broadcast" /\ l.tx = work[w].tx /\ l.kind = work[w].kind /\ DOMAIN l = DOMAIN Idle
    BY <1>1 DEF LocalOK, Idle
  <1> HIDE DEF l
  <1>3. LocalOK(l) /\ Own(l) = {}
    BY <1>1, <1>2 DEF LocalOK, Own, At, Before, Unsending, Reserving
  <1>4. CASE Undo(w, merchantBalance < Charge(work[w]))
    BY <1>1, <1>4, UndoStep DEF At, Before, Unsending, Reserving
  <1> QED
    BY <1>1, <1>2, <1>3, <1>4, MoveStep

LEMMA SetHashStep ==
    ASSUME Inv, NEW w \in Workers, SetHash(w)
    PROVE  Inv'
  <1> DEFINE l == [work[w] EXCEPT !.pc = "nextSweep", !.swept = @ + work[w].sel.amount]
  <1>1. /\ LocalOK(work[w]) /\ UNCHANGED <<signed, held, chain>>
        /\ Goto(w, "done") \/ work' = [work EXCEPT ![w] = l]
    BY DEF Inv, SetHash
  <1>2. l.pc = "nextSweep" /\ l.tx = work[w].tx /\ l.kind = work[w].kind /\ DOMAIN l = DOMAIN Idle
    BY <1>1 DEF LocalOK, Idle
  <1> HIDE DEF l
  <1>3. LocalOK(l) /\ Own(l) = {}
    BY <1>1, <1>2 DEF LocalOK, Own, Before, Unsending, Reserving
  <1>4. CASE Goto(w, "done")
    BY <1>1, <1>4, GotoStep DEF Steps, Before, Unsending, Reserving
  <1> QED
    BY <1>1, <1>2, <1>3, <1>4, MoveStep

LEMMA ErrorStep ==
    ASSUME Inv, NEW w \in Workers, Error(w)
    PROVE  Inv'
  <1>1. UNCHANGED <<signed, held, chain>>
    BY DEF Error
  <1>2. CASE work[w].pc \in {"check", "plan", "reserve", "createTx", "decrement"} /\ Undo(w, FALSE)
    BY <1>1, <1>2, UndoStep DEF Before, Unsending, Reserving
  <1>3. CASE At(w, "sign") /\ Goto(w, "unreserve")
    <2> DEFINE l == [work[w] EXCEPT !.pc = "unreserve"]
    <2>1. LocalOK(work[w]) /\ work' = [work EXCEPT ![w] = l]
      BY <1>3 DEF Inv, Goto
    <2>2. /\ l.pc = "unreserve" /\ l.tx = work[w].tx /\ l.kind = work[w].kind
          /\ DOMAIN l = DOMAIN Idle /\ Inputs(l) = Inputs(work[w])
      BY <2>1 DEF LocalOK, Idle, Inputs
    <2> HIDE DEF l
    <2>3. LocalOK(l) /\ Own(l) = Own(work[w])
      BY <2>1, <2>2, <1>3 DEF LocalOK, Own, At, Before, Unsending, Reserving
    <2> QED
      BY <1>1, <2>1, <2>2, <2>3, MoveStep
  <1>4. CASE Goto(w, "undoTx")
    BY <1>1, <1>4, GotoStep DEF Steps, Before, Unsending, Reserving
  <1> QED
    BY <1>2, <1>3, <1>4 DEF Error

LEMMA RestStep ==
    ASSUME Inv, NEW w \in Workers,
           MarkInProgress(w) \/ UndoTx(w) \/ UndoBalances(w) \/ FailPayment(w) \/ Crash(w)
    PROVE  Inv'
  <1>1. CASE MarkInProgress(w) \/ FailPayment(w) \/ Crash(w)
    BY <1>1, EndStep DEF MarkInProgress, FailPayment, Crash
  <1>2. CASE UndoTx(w)
    BY <1>2, GotoStep DEF UndoTx, Steps, Before, Unsending, Reserving
  <1>3. CASE UndoBalances(w)
    <2>1. PICK p \in {"nextSweep", "failPayment"} : Goto(w, p) /\ UNCHANGED <<signed, held, chain>>
      BY <1>3 DEF UndoBalances
    <2> QED
      BY <2>1, GotoStep DEF Steps, Before, Unsending, Reserving
  <1> QED
    BY <1>1, <1>2, <1>3

-----------------------------------------------------------------------------
(* Steps that change the table of reservations *)

LEMMA ReserveStep ==
    ASSUME Inv, NEW w \in Workers, Reserve(w)
    PROVE  Inv'
  <1>1. At(w, "reserve") /\ LocalOK(work[w]) /\ UNCHANGED <<signed, chain>>
    BY DEF Reserve, Inv
  <1>2. CASE reserveBitcoinUTXOs(Inputs(work[w])) /\ Goto(w, "sign")
    <2> DEFINE l == [work[w] EXCEPT !.pc = "sign"]
               row == [status |-> "reserved", tx |-> 0, expired |-> FALSE]
    <2>1. /\ work'[w] = l /\ \A v \in Workers : v # w => work'[v] = work[v]
          /\ work' = [v \in Workers |-> work'[v]]
      BY <1>2 DEF Inv, TablesOK, Goto
    <2>2. /\ l.pc = "sign" /\ l.tx = 0 /\ l.kind = work[w].kind
          /\ DOMAIN l = DOMAIN Idle /\ Inputs(l) = Inputs(work[w])
      BY <1>1 DEF LocalOK, Idle, Inputs, At, Before
    <2>3. /\ Inputs(work[w]) \cap DOMAIN held = {}
          /\ DOMAIN held' = Inputs(work[w]) \cup DOMAIN held
          /\ \A o \in Inputs(work[w]) : held'[o] = row
          /\ \A o \in DOMAIN held : held'[o] = held[o]
          /\ held' = [o \in DOMAIN held' |-> held'[o]]
      BY <1>2 DEF reserveBitcoinUTXOs, Indexed
    <2>4. row \in Reservation /\ row.tx = 0
      BY DEF Reservation
    <2> HIDE DEF l, row
    <2>5. held' \in [DOMAIN held' -> Reservation]
      BY <2>3, <2>4 DEF Inv, TablesOK
    <2>6. TablesOK'
      BY <2>1, <2>5, <1>1 DEF Inv, TablesOK, Sent
    <2>7. LocalOK(work[w])'
      BY <2>1, <2>2, <2>3, <2>4, <1>1 DEF LocalOK, Reserving, Unsending, Inv, TablesOK, Inputs
    <2>8. Keeps(w)
      BY <2>1, <2>3, <1>1 DEF Keeps, Sent, Inv, TablesOK
    <2>9. Gains(w)
      BY <2>1, <2>2, <2>3 DEF Gains, Own, Reserving
    <2>10. \A t \in TxIds : (t = work[w].tx \/ t > signed) /\ Sent(t)' => Backed(t)'
      BY <2>3, <1>1 DEF Inv, Sent, Backed
    <2> QED
      BY <2>6, <2>7, <2>8, <2>9, <2>10, Preserve
  <1>3. CASE work' = [work EXCEPT ![w].pc = "plan", ![w].attempt = @ + 1] /\ UNCHANGED held
    <2> DEFINE l == [work[w] EXCEPT !.pc = "plan", !.attempt = @ + 1]
    <2>1. work' = [work EXCEPT ![w] = l] /\ Anew(l, "plan")
      BY <1>1, <1>3 DEF LocalOK, Anew, Idle, Before, At
    <2> HIDE DEF l
    <2> QED
      BY <1>1, <1>3, <2>1, AnewStep DEF Reserving, Unsending
  <1>4. CASE Undo(w, FALSE) /\ UNCHANGED held
    BY <1>1, <1>4, UndoStep DEF At, Before, Unsending, Reserving
  <1> QED
    BY <1>2, <1>3, <1>4 DEF Reserve

\* The program counter of w moves to where it has nothing to send.
LEMMA Gone ==
    ASSUME Inv, NEW w \in Workers, NEW p, Goto(w, p), p \in Steps \ (Before \cup Unsending)
    PROVE  /\ work'[w].pc = p /\ work'[w].tx = work[w].tx /\ work'[w].kind = work[w].kind
           /\ DOMAIN work'[w] = DOMAIN Idle
           /\ \A v \in Workers : v # w => work'[v] = work[v]
           /\ work' = [v \in Workers |-> work'[v]]
           /\ Own(work'[w]) = {} /\ Gains(w)
           /\ (UNCHANGED signed => LocalOK(work[w])')
  <1>1. LocalOK(work[w])
    BY DEF Inv
  <1>2. /\ work'[w].pc = p /\ work'[w].tx = work[w].tx /\ work'[w].kind = work[w].kind
        /\ DOMAIN work'[w] = DOMAIN Idle
        /\ \A v \in Workers : v # w => work'[v] = work[v]
        /\ work' = [v \in Workers |-> work'[v]]
    BY <1>1 DEF Goto, Inv, TablesOK, LocalOK, Idle
  <1>3. Own(work'[w]) = {}
    BY <1>2 DEF Own, Before
  <1>4. Gains(w)
    BY <1>2, <1>3 DEF Gains
  <1>5. UNCHANGED signed => LocalOK(work[w])'
    BY <1>1, <1>2 DEF LocalOK, Before
  <1> QED
    BY <1>2, <1>3, <1>4, <1>5

LEMMA MarkBroadcastedStep ==
    ASSUME Inv, NEW w \in Workers, MarkBroadcasted(w)
    PROVE  Inv'
  <1>1. Goto(w, "setHash") /\ UNCHANGED <<signed, chain>>
    BY DEF MarkBroadcasted
  <1>2. "setHash" \in Steps \ (Before \cup Unsending)
    BY DEF Steps, Before, Unsending, Reserving
  <1>3. /\ DOMAIN held' = DOMAIN held
        /\ \A o \in DOMAIN held : held'[o].tx = held[o].tx
        /\ held' \in [DOMAIN held' -> Reservation]
    BY DEF MarkBroadcasted, MarkBitcoinTransactionBroadcasted, Reservation, Inv, TablesOK
  <1>4. TablesOK'
    BY <1>1, <1>2, <1>3, Gone DEF Inv, TablesOK, Sent
  <1>5. Keeps(w)
    BY <1>1, <1>2, <1>3, Gone DEF Keeps, Sent, Inv, TablesOK
  <1>6. \A t \in TxIds : (t = work[w].tx \/ t > signed) /\ Sent(t)' => Backed(t)'
    BY <1>1, <1>3 DEF Inv, Sent, Backed
  <1> QED
    BY <1>1, <1>2, <1>4, <1>5, <1>6, Gone, Preserve

\* The rows that are dropped are w's alone.
LEMMA DropStep ==
    ASSUME Inv, NEW w \in Workers, NEW S, Drop(S), Goto(w, "undoTx"), UNCHANGED <<signed, chain>>,
           \A o \in S \cap DOMAIN held : \/ o \in Own(work[w])
                                         \/ held[o].tx # 0 /\ held[o].tx = work[w].tx,
           work[w].tx # 0 => ~Sent(work[w].tx)
    PROVE  Inv'
  <1>1. "undoTx" \in Steps \ (Before \cup Unsending)
    BY DEF Steps, Before, Unsending, Reserving
  <1>2. /\ DOMAIN held' = DOMAIN held \ S
        /\ \A o \in DOMAIN held \ S : held'[o] = held[o]
        /\ held' \in [DOMAIN held' -> Reservation]
    BY DEF Drop, Inv, TablesOK
  <1>3. TablesOK'
    BY <1>1, <1>2, Gone DEF Inv, TablesOK, Sent
  <1>4. Keeps(w)
    BY <1>1, <1>2, Gone DEF Keeps, Sent, Inv, TablesOK
  <1>5. \A t \in TxIds : (t = work[w].tx \/ t > signed) /\ Sent(t)' => Backed(t)'
    BY DEF Sent, Inv, TablesOK, TxIds
  <1> QED
    BY <1>1, <1>3, <1>4, <1>5, Gone, Preserve

LEMMA UnreserveStep ==
    ASSUME Inv, NEW w \in Workers, Unreserve(w)
    PROVE  Inv'
  <1> DEFINE S == {o \in Inputs(work[w]) \cap DOMAIN held : held[o].status = "reserved"}
  <1>1. /\ Drop(S) /\ Goto(w, "undoTx") /\ UNCHANGED <<signed, chain>>
        /\ At(w, "unreserve") /\ LocalOK(work[w])
    BY DEF Unreserve, releaseBitcoinUTXOReservationIDs, Inv
  <1>2. S \subseteq Own(work[w]) /\ work[w].tx = 0
    BY <1>1 DEF Own, At, LocalOK, Before, Reserving
  <1> QED
    BY <1>1, <1>2, DropStep

LEMMA ReleaseStep ==
    ASSUME Inv, NEW w \in Workers, Release(w)
    PROVE  Inv'
  <1> DEFINE S == {o \in DOMAIN held : held[o].tx = work[w].tx /\ held[o].status = "reserved"}
  <1>1. /\ Drop(S) /\ Goto(w, "undoTx") /\ UNCHANGED <<signed, chain>>
        /\ At(w, "release") /\ LocalOK(work[w])
    BY DEF Release, ReleaseBitcoinTransactionReservations, Inv
  <1>2. work[w].tx # 0 /\ ~Sent(work[w].tx)
    BY <1>1 DEF At, LocalOK, Unsending
  <1> QED
    BY <1>1, <1>2, DropStep

LEMMA SignStep ==
    ASSUME Inv, NEW w \in Workers, Sign(w)
    PROVE  Inv'
  <1>0. PICK t : t = signed + 1
    OBVIOUS
  <1> DEFINE ins == Inputs(work[w])
             row == [state |-> "unsent", ins |-> ins, outs |-> Outputs(work[w], t)]
             poor == work[w].kind = "pay" /\ work[w].seen < price[work[w].pay] + work[w].sel.fee
             l == [work[w] EXCEPT !.tx = t, !.mark = poor, !.pc = IF poor THEN "release" ELSE "createTx"]
  <1>1. At(w, "sign") /\ signed < MaxTx /\ signed' = t /\ LocalOK(work[w])
    BY <1>0 DEF Sign, Inv
  <1>2. /\ signed \in Nat /\ t \in TxIds /\ signed < t /\ t # 0 /\ t \in 0..MaxTx
        /\ \A u \in 1..signed : u \in TxIds /\ u # t
        /\ \A u \in TxIds : u > t => u > signed
    BY <1>0, <1>1 DEF Inv, TablesOK, TxIds
  <1>3. work' = [work EXCEPT ![w] = l]
    BY <1>0, Zenon DEF Sign
  <1>4. /\ DOMAIN l = DOMAIN Idle /\ l.kind = work[w].kind /\ l.tx = t
        /\ l.pc \in {"release", "createTx"}
    BY <1>1 DEF LocalOK, Idle
  <1>5. chain' = [chain EXCEPT ![t] = row] /\ row.state = "unsent" /\ row.ins = ins
    BY <1>0, Zenon DEF Sign
  <1> HIDE DEF l
  <1>6. /\ work'[w] = l /\ \A v \in Workers : v # w => work'[v] = work[v]
        /\ work' = [v \in Workers |-> work'[v]]
    BY <1>3 DEF Inv, TablesOK
  <1>7. /\ chain' = [u \in TxIds |-> [state |-> chain'[u].state, ins |-> chain'[u].ins, outs |-> chain'[u].outs]]
        /\ chain'[t].state = "unsent" /\ chain'[t].ins = ins
        /\ \A u \in TxIds : u # t => chain'[u] = chain[u]
    BY <1>5, <1>2 DEF Inv, TablesOK
  <1>8. /\ DOMAIN held' = DOMAIN held
        /\ \A o \in DOMAIN held : held'[o].tx = IF o \in ins THEN t ELSE held[o].tx
        /\ held' \in [DOMAIN held' -> Reservation]
    BY <1>0, <1>2 DEF Sign, attachBitcoinUTXOReservationsRawTX, Reservation, Inv, TablesOK
  <1> HIDE DEF row, ins, poor
  <1>9. ins = Own(work[w]) /\ (\A o \in ins : o \in DOMAIN held) /\ Own(l) = {}
    BY <1>1, <1>4 DEF At, LocalOK, Own, Reserving, ins
  <1>10. TablesOK'
    BY <1>1, <1>2, <1>6, <1>7, <1>8 DEF Inv, TablesOK, Sent
  <1>11. Backed(t)' /\ ~Sent(t)'
    BY <1>7, <1>8, <1>9 DEF Backed, Sent
  <1>12. LocalOK(work[w])'
    BY <1>1, <1>2, <1>4, <1>6, <1>11 DEF LocalOK, Before, Unsending, Reserving, Backed, Sent
  <1>13. Keeps(w)
    BY <1>1, <1>2, <1>6, <1>7, <1>8, <1>9 DEF Keeps, Sent
  <1>14. Gains(w)
    BY <1>2, <1>4, <1>6, <1>9 DEF Gains
  <1>15. work[w].tx = 0 /\ 0 \notin TxIds
    BY <1>1 DEF At, LocalOK, Before, Reserving, TxIds
  <1>16. \A u \in TxIds : (u = work[w].tx \/ u > signed) /\ Sent(u)' => Backed(u)'
    BY <1>0, <1>2, <1>7, <1>11, <1>15 DEF Inv, TablesOK, Sent
  <1> QED
    BY <1>10, <1>12, <1>13, <1>14, <1>16, Preserve

-----------------------------------------------------------------------------
(* The chain and the environment *)

LEMMA BroadcastStep ==
    ASSUME Inv, NEW w \in Workers, Broadcast(w), "lost" \notin Outcomes
    PROVE  Inv'
  <1>1. At(w, "broadcast") /\ LocalOK(work[w]) /\ UNCHANGED <<signed, held>>
    BY DEF Broadcast, Inv
  <1>2. CASE Accept(work[w].tx) /\ Goto(w, "mark")
    <2>1. PICK t \in TxIds : t = work[w].tx /\ Backed(t)
      BY <1>1 DEF At, LocalOK, Unsending, Inv, TablesOK, TxIds
    <2>2. "mark" \in Steps \ (Before \cup Unsending)
      BY DEF Steps, Before, Unsending, Reserving
    <2>3. chain' = [u \in TxIds |-> CASE u = t -> [chain[u] EXCEPT !.state = "pool"]
                                      [] u \in Rivals(t) -> [chain[u] EXCEPT !.state = "dropped"]
                                      [] OTHER -> chain[u]]
      BY <1>2, <2>1 DEF Accept
    <2>4. ASSUME NEW u \in TxIds
          PROVE  /\ chain'[u] = [state |-> chain'[u].state, ins |-> chain'[u].ins, outs |-> chain'[u].outs]
                 /\ chain'[u].ins = chain[u].ins
                 /\ u # t => (Sent(u)' <=> Sent(u))
      <3>1. chain[u] = [state |-> chain[u].state, ins |-> chain[u].ins, outs |-> chain[u].outs]
        BY DEF Inv, TablesOK
      <3>2. CASE u = t
        BY <2>3, <3>1, <3>2
      <3>3. CASE u # t /\ u \in Rivals(t)
        BY <2>3, <3>1, <3>3 DEF Rivals, Known, Sent
      <3>4. CASE u # t /\ u \notin Rivals(t)
        BY <2>3, <3>1, <3>4 DEF Sent
      <3> QED
        BY <3>2, <3>3, <3>4
    <2>5. /\ work' = [v \in Workers |-> work'[v]]
          /\ \A v \in Workers : v # w => work'[v] = work[v]
          /\ Gains(w) /\ LocalOK(work[w])'
      BY <1>1, <1>2, <2>2, Gone
    <2>6. \A u \in TxIds : u > signed => ~Sent(u)'
      <3>1. t <= signed /\ signed \in Nat /\ \A u \in TxIds : u > signed => ~Sent(u)
        BY <2>1, <1>1 DEF Inv, TablesOK, LocalOK
      <3>2. \A u \in TxIds : u > signed => u # t
        BY <3>1 DEF TxIds
      <3> QED
        BY <3>1, <3>2, <2>4
    <2>7. TablesOK'
      <3>1. chain' = [u \in TxIds |-> [state |-> chain'[u].state, ins |-> chain'[u].ins, outs |-> chain'[u].outs]]
        BY <2>3, <2>4
      <3> QED
        BY <3>1, <2>5, <2>6, <1>1 DEF Inv, TablesOK, Sent
    <2>8. Keeps(w)
      <3>1. signed \in Nat /\ 1..signed \subseteq TxIds
        BY DEF Inv, TablesOK, TxIds
      <3>2. \A u \in 1..signed : chain'[u].ins = chain[u].ins /\ (u # work[w].tx => (Sent(u)' <=> Sent(u)))
        BY <3>1, <2>1, <2>4
      <3> QED
        BY <3>1, <3>2, <1>1, <2>5 DEF Keeps
    <2>9. \A u \in TxIds : (u = work[w].tx \/ u > signed) /\ Sent(u)' => Backed(u)'
      BY <1>1, <2>1, <2>4, <2>6 DEF Backed
    <2> QED
      BY <2>5, <2>7, <2>8, <2>9, Preserve
  <1>3. ASSUME NEW mark, Undo(w, mark), UNCHANGED chain
        PROVE  Inv'
    BY <1>1, <1>3, UndoStep DEF At, Before, Unsending, Reserving
  <1> QED
    BY <1>2, <1>3 DEF Broadcast

\* The environment changes neither what is sent nor which reservation is whose.
LEMMA EnvironmentStep ==
    ASSUME Inv, TablesOK', UNCHANGED <<signed, work>>,
           \A t \in TxIds : chain'[t].ins = chain[t].ins /\ (Sent(t)' <=> Sent(t)),
           \A o \in DOMAIN held : o \in DOMAIN held' /\ held'[o].tx = held[o].tx
    PROVE  Inv'
  <1>1. \A t \in TxIds : Backed(t) => Backed(t)'
    BY DEF Backed
  <1>2. ASSUME NEW w \in Workers
        PROVE  LocalOK(work[w])'
    <2>1. LocalOK(work[w]) /\ 0..signed \ {0} \subseteq TxIds
      BY DEF Inv, TablesOK, TxIds
    <2>2. work[w].pc \in Reserving => \A o \in Inputs(work[w]) : o \in DOMAIN held' /\ held'[o].tx = 0
      BY <2>1 DEF LocalOK
    <2>3. work[w].pc \in Unsending => ~Sent(work[w].tx)'
      BY <2>1 DEF LocalOK
    <2>4. work[w].pc \in Unsending \ {"release"} => Backed(work[w].tx)'
      BY <2>1, <1>1 DEF LocalOK
    <2> QED
      BY <2>1, <2>2, <2>3, <2>4 DEF LocalOK, Backed, Sent
  <1>3. \A v, w \in Workers : v # w => Apart(work[v], work[w])'
    BY DEF Inv, Apart
  <1> QED
    BY <1>1, <1>2, <1>3 DEF Inv

LEMMA MineStep ==
    ASSUME Inv, NEW t \in TxIds, Mine(t)
    PROVE  Inv'
  <1>1. /\ chain[t].state = "pool" /\ chain' = [chain EXCEPT ![t].state = "mined"]
        /\ UNCHANGED <<signed, held, work>>
    BY DEF Mine
  <1>2. ASSUME NEW u \in TxIds
        PROVE  /\ chain'[u] = [state |-> chain'[u].state, ins |-> chain'[u].ins, outs |-> chain'[u].outs]
               /\ chain'[u].ins = chain[u].ins /\ (Sent(u)' <=> Sent(u))
    <2>1. /\ chain[u] = [state |-> chain[u].state, ins |-> chain[u].ins, outs |-> chain[u].outs]
          /\ DOMAIN chain = TxIds
      BY DEF Inv, TablesOK
    <2> QED
      BY <1>1, <2>1 DEF Sent
  <1>3. chain' = [u \in TxIds |-> [state |-> chain'[u].state, ins |-> chain'[u].ins, outs |-> chain'[u].outs]]
    <2>1. DOMAIN chain' = TxIds /\ chain' = [u \in DOMAIN chain' |-> chain'[u]]
      BY <1>1 DEF Inv, TablesOK
    <2> QED
      BY <2>1, <1>2
  <1>4. TablesOK'
    BY <1>1, <1>2, <1>3 DEF Inv, TablesOK
  <1> QED
    BY <1>1, <1>2, <1>4, EnvironmentStep

LEMMA ExpireStep ==
    ASSUME Inv, NEW o \in DOMAIN held, Expire(o)
    PROVE  Inv'
  <1>1. /\ DOMAIN held' = DOMAIN held /\ \A q \in DOMAIN held : held'[q].tx = held[q].tx
        /\ held' \in [DOMAIN held' -> Reservation]
    BY ZenonT(40) DEF Expire, Inv, TablesOK, Reservation
  <1>2. UNCHANGED <<signed, chain, work>>
    BY DEF Expire
  <1>3. TablesOK'
    BY <1>1, <1>2 DEF Inv, TablesOK, Sent
  <1>4. \A t \in TxIds : chain'[t].ins = chain[t].ins /\ (Sent(t)' <=> Sent(t))
    BY <1>2 DEF Sent
  <1> QED
    BY <1>1, <1>2, <1>3, <1>4, EnvironmentStep

-----------------------------------------------------------------------------
LEMMA InitInv == Init => Inv
  <1> SUFFICES ASSUME Init PROVE Inv
    OBVIOUS
  <1>1. TablesOK
    BY DEF Init, TablesOK, Unsent, Sent
  <1>2. \A t \in TxIds : ~Sent(t)
    BY DEF Init, Sent, Unsent
  <1>3. \A w \in Workers : work[w] = Idle
    BY DEF Init
  <1>4. LocalOK(Idle)
    BY DEF Init, LocalOK, Idle, Reserving, Unsending
  <1>5. Apart(Idle, Idle)
    BY DEF Apart, Idle, Reserving
  <1> QED
    BY <1>1, <1>2, <1>3, <1>4, <1>5 DEF Inv

LEMMA NextInv == "lost" \notin Outcomes => (Inv /\ [Next]_vars => Inv')
  <1> SUFFICES ASSUME "lost" \notin Outcomes, Inv, [Next]_vars
               PROVE  Inv'
    OBVIOUS
  <1>1. CASE UNCHANGED vars
    BY <1>1, SameStep DEF vars
  <1>2. ASSUME NEW p \in Withdrawals, CreateWithdrawal(p)
        PROVE  Inv'
    BY <1>2, SameStep DEF CreateWithdrawal
  <1>3. ASSUME NEW w \in Workers, NEW p \in Withdrawals, StartWithdrawal(w, p)
        PROVE  Inv'
    BY <1>3, StartStep
  <1>4. ASSUME NEW w \in Workers, Step(w)
        PROVE  Inv'
    BY <1>4, ResolveStep, NextSweepStep, CheckBalancesStep, PlanStep, ReserveStep, SignStep,
       CreateTxStep, DecrementStep, BroadcastStep, MarkBroadcastedStep, SetHashStep,
       UnreserveStep, ReleaseStep, RestStep
       DEF Step
  <1>5. ASSUME NEW w \in Workers, Error(w) \/ Crash(w)
        PROVE  Inv'
    BY <1>5, ErrorStep, RestStep
  <1>6. ASSUME NEW t \in TxIds, Mine(t) \/ Settle(t)
        PROVE  Inv'
    <2>1. CASE Settle(t)
      BY <2>1, SameStep DEF Settle
    <2> QED
      BY <1>6, <2>1, MineStep
  <1>7. ASSUME NEW o \in DOMAIN held, Expire(o)
        PROVE  Inv'
    BY <1>7, ExpireStep
  <1> QED
    BY <1>1, <1>2, <1>3, <1>4, <1>5, <1>6, <1>7 DEF Next

\* Who holds which output, in every reachable state: the reservations of everything
\* that was sent bear its id, and no two goroutines share an output or a transaction.
THEOREM InductiveInvariant == "lost" \notin Outcomes => (Spec => []Inv)
  <1> SUFFICES ASSUME "lost" \notin Outcomes
               PROVE  Spec => []Inv
    OBVIOUS
  <1>1. Inv /\ [Next]_vars => Inv'
    BY NextInv
  <1> QED
    BY <1>1, InitInv, PTL DEF Spec

\* Whatever crashes, expires, fails or is listed late, no two transactions that the
\* batches sent spend one output, unless the answer to a broadcast is lost.
THEOREM NoDoubleSpend == "lost" \notin Outcomes => (Spec => []NoConflictingBroadcasts)
  <1> SUFFICES ASSUME "lost" \notin Outcomes
               PROVE  Spec => []NoConflictingBroadcasts
    OBVIOUS
  <1>1. Inv => NoConflictingBroadcasts
    BY DEF Inv, NoConflictingBroadcasts, Backed
  <1>2. Spec => []Inv
    BY InductiveInvariant
  <1> QED
    BY <1>1, <1>2, PTL

-----------------------------------------------------------------------------
(* The listing of an address *)

\* What an output is, and how it is named.
IsOutput(o) == o.sats \in Nat /\ o.tx \in Nat /\ o.out \in Nat
Named(S) == \A o, p \in S : o.tx = p.tx /\ o.out = p.out => o = p

LEMMA LargerIsOrder ==
    ASSUME NEW o, NEW p, NEW q, IsOutput(o), IsOutput(p), IsOutput(q)
    PROVE  /\ ~Larger(o, o)
           /\ Larger(o, p) /\ Larger(p, q) => Larger(o, q)
  BY DEF Larger, IsOutput

LEMMA LargerIsTotal ==
    ASSUME NEW o, NEW p, IsOutput(o), IsOutput(p), ~Larger(o, p), ~Larger(p, o)
    PROVE  o.tx = p.tx /\ o.out = p.out
  BY DEF Larger, IsOutput

\* Every output has its place, so the listing is made of them.
LEMMA ListingFacts ==
    ASSUME NEW S, IsFiniteSet(S), \A o \in S : IsOutput(o), Named(S)
    PROVE  LargestFirst(S) \in Seq(S) /\ IsInjective(LargestFirst(S))
  <1> DEFINE T == 1..Cardinality(S)
             rank == [o \in S |-> Cardinality(Above(S, o)) + 1]
  <1>1. Cardinality(S) \in Nat /\ IsFiniteSet(T) /\ Cardinality(T) = Cardinality(S)
    <2>1. Cardinality(S) \in Nat
      BY FS_CardinalityType
    <2> QED
      BY <2>1, FS_Interval
  <1>2. ASSUME NEW o \in S
        PROVE  IsFiniteSet(Above(S, o)) /\ Cardinality(Above(S, o)) \in Nat /\ Cardinality(Above(S, o)) < Cardinality(S)
    <2>1. Above(S, o) \in SUBSET S /\ o \notin Above(S, o)
      BY LargerIsOrder DEF Above
    <2>2. IsFiniteSet(Above(S, o)) /\ Cardinality(Above(S, o)) <= Cardinality(S) /\ Cardinality(S) # Cardinality(Above(S, o))
      BY <2>1, FS_Subset
    <2> QED
      BY <1>1, <2>2, FS_CardinalityType
  <1>3. ASSUME NEW o \in S, NEW p \in S, Larger(o, p) PROVE Cardinality(Above(S, o)) < Cardinality(Above(S, p))
    <2>1. \A q \in Above(S, o) : q \in Above(S, p)
      BY <1>3, LargerIsOrder DEF Above
    <2>2. o \in Above(S, p) /\ o \notin Above(S, o)
      BY <1>3, LargerIsOrder DEF Above
    <2>3. Above(S, o) \in SUBSET Above(S, p) /\ Above(S, o) # Above(S, p)
      BY <2>1, <2>2
    <2>4. /\ Cardinality(Above(S, o)) <= Cardinality(Above(S, p))
          /\ Cardinality(Above(S, p)) # Cardinality(Above(S, o))
      BY <1>2, <2>3, FS_Subset
    <2> QED
      BY <1>2, <2>4
  <1>4. ASSUME NEW o \in S, NEW p \in S, Cardinality(Above(S, o)) = Cardinality(Above(S, p)) PROVE o = p
    <2>1. ~Larger(o, p) /\ ~Larger(p, o)
      BY <1>2, <1>3, <1>4
    <2>2. IsOutput(o) /\ IsOutput(p)
      OBVIOUS
    <2>3. o.tx = p.tx /\ o.out = p.out
      BY <2>1, <2>2, LargerIsTotal
    <2> QED
      BY <2>3 DEF Named
  <1>5. rank \in Injection(S, T)
    <2>1. \A o, p \in S : rank[o] = rank[p] => o = p
      BY <1>2, <1>4
    <2> QED
      BY <1>1, <1>2, <2>1 DEF Injection, IsInjective
  <1> HIDE DEF rank, T
  <1>6. rank \in Surjection(S, T)
    BY <1>1, <1>5, FS_Injection
  <1>7. ASSUME NEW n \in T
        PROVE  LargestFirst(S)[n] \in S /\ Cardinality(Above(S, LargestFirst(S)[n])) = n - 1
    <2>1. PICK o \in S : rank[o] = n
      BY <1>6 DEF Surjection
    <2>2. Cardinality(Above(S, o)) = n - 1
      BY <1>2, <2>1 DEF rank
    <2>3. LargestFirst(S)[n] = CHOOSE q \in S : Cardinality(Above(S, q)) = n - 1
      BY DEF LargestFirst, T
    <2>4. \E q \in S : Cardinality(Above(S, q)) = n - 1
      BY <2>2
    <2> QED
      BY <2>3, <2>4, Zenon
  <1>8. LargestFirst(S) = [n \in T |-> LargestFirst(S)[n]]
    BY DEF LargestFirst, T
  <1>9. \A m, n \in T : LargestFirst(S)[m] = LargestFirst(S)[n] => m = n
    <2> TAKE m, n \in T
    <2>1. m - 1 = n - 1 => m = n
      BY <1>1 DEF T
    <2> QED
      BY <1>7, <2>1
  <1>10. LargestFirst(S) \in Seq(S) /\ DOMAIN LargestFirst(S) = T
    BY <1>1, <1>7, <1>8 DEF T
  <1> QED
    BY <1>9, <1>10 DEF IsInjective

-----------------------------------------------------------------------------
(* Selections *)

\* The sum of the first outputs is theirs alone.
LEMMA TotalsFacts ==
    ASSUME NEW U, \A o \in U : o.sats \in Nat, NEW s \in Seq(U), NEW n \in 0..Len(s)
    PROVE  Totals(s)[n] \in Nat /\ Totals(SubSeq(s, 1, n))[n] = Totals(s)[n]
  <1> DEFINE f == [i \in 1..n |-> s[i].sats]
  <1>1. f \in [1..n -> Nat]
    OBVIOUS
  <1>2. IsFiniteSet(1..n)
    BY FS_Interval
  <1>3. Total(f) \in Nat
    <2> HIDE DEF f
    <2> QED
      BY <1>1, <1>2, TotalNat
  <1>4. Totals(s)[n] = Total(f)
    BY DEF Totals
  <1>5. PICK p : p = SubSeq(s, 1, n) /\ Len(p) = n /\ \A i \in 1..n : p[i] = s[i]
    <2>1. n \in Nat /\ 1 \in Int /\ Len(s) \in Nat /\ n <= Len(s)
      OBVIOUS
    <2>2. SubSeq(s, 1, n) = [i \in 1..n |-> s[i]]
      BY <2>1
    <2>3. Len(SubSeq(s, 1, n)) = n
      BY <2>1, <2>2
    <2> QED
      BY <2>2, <2>3
  <1>6. [i \in 1..n |-> p[i].sats] = f
    BY <1>5
  <1>7. Totals(p)[n] = Total([i \in 1..n |-> p[i].sats])
    BY <1>5 DEF Totals
  <1> QED
    BY <1>3, <1>4, <1>5, <1>6, <1>7

LEMMA TotalsGrow ==
    ASSUME NEW U, \A o \in U : o.sats \in Nat, NEW s \in Seq(U), NEW n \in 1..Len(s)
    PROVE  Totals(s)[n] = Totals(s)[n - 1] + s[n].sats
  <1> DEFINE f == [i \in 1..n |-> s[i].sats]
  <1>1. PICK D : D = 1..(n - 1)
    OBVIOUS
  <1>2. IsFiniteSet(D) /\ n \notin D /\ D \cup {n} = 1..n
    <2>1. n \in Nat /\ n - 1 \in Nat
      OBVIOUS
    <2>2. IsFiniteSet(1..(n - 1))
      BY <2>1, FS_Interval
    <2>3. n \notin 1..(n - 1) /\ (1..(n - 1)) \cup {n} = 1..n
      BY <2>1
    <2> QED
      BY <1>1, <2>2, <2>3
  <1>3. f \in [D \cup {n} -> Int]
    BY <1>2
  <1>4. f[n] = s[n].sats /\ [y \in D |-> f[y]] = [y \in D |-> s[y].sats]
    BY <1>1
  <1>5. Total(f) = Total([y \in D |-> f[y]]) + f[n]
    <2> HIDE DEF f
    <2> QED
      BY <1>2, <1>3, TotalAdd
  <1>6. Totals(s)[n] = Total(f) /\ Totals(s)[n - 1] = Total([y \in D |-> s[y].sats])
    BY <1>1 DEF Totals
  <1> QED
    BY <1>4, <1>5, <1>6

\* Nothing is sent for free.
LEMMA FeeIsPositive ==
    ASSUME NEW n \in Nat, NEW m \in Nat, NEW rate \in Nat \ {0}
    PROVE  FeeFor(n, m, rate) \in Nat \ {0}
  <1> DEFINE v == TxSize + InputSize * n + OutputSize * m
  <1>1. v \in Nat \ {0}
    <2>1. InputSize * n \in Nat /\ OutputSize * m \in Nat
      BY CoinSelectionAssumption
    <2> QED
      BY <2>1, CoinSelectionAssumption
  <1> HIDE DEF v
  <1>2. PICK x \in Nat : x = v * rate /\ x >= 1
    BY <1>1
  <1>3. PICK R \in Nat \ {0} : R = RateUnit
    BY CoinSelectionAssumption
  <1>4. (x + R - 1) \div R \in Nat \ {0}
    BY <1>2
  <1> QED
    BY <1>2, <1>3, <1>4 DEF FeeFor, utxoFeeSats, estimateBitcoinP2WPKHVSize, v


\* The first n outputs pay for the amount, and which n do.
Pays(utxos, amount, rate, n) ==
    \/ Totals(utxos)[n] - amount - FeeFor(n, 2, rate) >= Dust
    \/ Totals(utxos)[n] - amount >= FeeFor(n, 1, rate)
Enough(utxos, amount, rate) == {n \in 1..Len(utxos) : Pays(utxos, amount, rate, n)}

\* The plan with the first n outputs, whose sum is total.
PlanOf(utxos, amount, rate, n, total, s) ==
    /\ s.inputs = SubSeq(utxos, 1, n) /\ s.amount = amount
    /\ s.fee = IF total - amount - FeeFor(n, 2, rate) >= Dust THEN FeeFor(n, 2, rate) ELSE total - amount
    /\ s.change = IF total - amount - FeeFor(n, 2, rate) >= Dust
                  THEN total - amount - FeeFor(n, 2, rate) ELSE 0

\* selectBitcoinUTXOs takes as few outputs as pay.
LEMMA SelectForm ==
    ASSUME NEW utxos, Len(utxos) \in Nat, NEW amount, NEW rate, NEW s, s = selectBitcoinUTXOs(utxos, amount, rate)
    PROVE  /\ Enough(utxos, amount, rate) = {} => s = NoSelection
           /\ Enough(utxos, amount, rate) # {} =>
                \E n \in Enough(utxos, amount, rate) :
                    /\ \A m \in Enough(utxos, amount, rate) : n <= m
                    /\ PlanOf(utxos, amount, rate, n, Totals(utxos)[n], s)
  <1> DEFINE E == Enough(utxos, amount, rate)
             total == Totals(utxos)
             Change(n) == total[n] - amount - FeeFor(n, 2, rate)
  <1>1. s = IF E = {} THEN NoSelection
            ELSE [inputs |-> SubSeq(utxos, 1, Min(E)), amount |-> amount,
                  fee |-> IF Change(Min(E)) >= Dust THEN FeeFor(Min(E), 2, rate) ELSE total[Min(E)] - amount,
                  change |-> IF Change(Min(E)) >= Dust THEN Change(Min(E)) ELSE 0]
    BY DEF selectBitcoinUTXOs, Enough, Pays
  <1>2. ASSUME E # {} PROVE Min(E) \in E /\ \A m \in E : Min(E) <= m
    <2>1. E \subseteq Nat
      BY DEF Enough
    <2> HIDE DEF E
    <2> QED
      BY <1>2, <2>1, MinFacts
  <1> HIDE DEF E
  <1>3. ASSUME E # {} PROVE PlanOf(utxos, amount, rate, Min(E), Totals(utxos)[Min(E)], s)
    <2>1. PICK n : n = Min(E)
      OBVIOUS
    <2>2. s = [inputs |-> SubSeq(utxos, 1, n), amount |-> amount,
               fee |-> IF Change(n) >= Dust THEN FeeFor(n, 2, rate) ELSE total[n] - amount,
               change |-> IF Change(n) >= Dust THEN Change(n) ELSE 0]
      BY <1>1, <1>3, <2>1, Zenon
    <2>3. PICK inputs, fee, change :
             /\ inputs = SubSeq(utxos, 1, n)
             /\ fee = IF Change(n) >= Dust THEN FeeFor(n, 2, rate) ELSE total[n] - amount
             /\ change = IF Change(n) >= Dust THEN Change(n) ELSE 0
      BY Zenon
    <2>a. s = [inputs |-> inputs, amount |-> amount, fee |-> fee, change |-> change]
      BY <2>2, <2>3, Zenon
    <2>4. s.inputs = inputs /\ s.amount = amount /\ s.fee = fee /\ s.change = change
      BY <2>a
    <2>5. PlanOf(utxos, amount, rate, n, Totals(utxos)[n], s)
      BY <2>3, <2>4, Zenon DEF PlanOf
    <2> QED
      BY <2>1, <2>5
  <1>4. ASSUME E # {}
        PROVE  \E n \in E : (\A m \in E : n <= m) /\ PlanOf(utxos, amount, rate, n, Totals(utxos)[n], s)
    BY <1>2, <1>3, <1>4
  <1>5. (E = {} => s = NoSelection)
    BY <1>1
  <1> QED
    BY <1>4, <1>5 DEF E

\* A plan that pays exactly and that the KMS takes.
GoodPlan(s, U, rate) ==
    /\ s.inputs # <<>> /\ s.inputs \in Seq(U) /\ IsInjective(s.inputs)
    /\ s.amount \in Nat /\ s.amount >= Dust /\ s.fee \in Nat /\ s.change \in Nat
    /\ KmsAccepts(s) /\ SoundSelection(s, U, rate)

LEMMA SelectIsSound ==
    ASSUME NEW U, \A o \in U : o.sats \in Nat, NEW utxos \in Seq(U), IsInjective(utxos), NEW amount \in Nat, amount >= Dust,
           NEW rate \in Nat \ {0}, NEW s, s = selectBitcoinUTXOs(utxos, amount, rate), s.inputs # <<>>
    PROVE  GoodPlan(s, U, rate)
  <1>1. PICK n \in Enough(utxos, amount, rate) : PlanOf(utxos, amount, rate, n, Totals(utxos)[n], s)
    <2>1. NoSelection.inputs = <<>>
      BY DEF NoSelection
    <2>2. Len(utxos) \in Nat
      OBVIOUS
    <2> QED
      BY <2>1, <2>2, SelectForm
  <1>2. n \in 1..Len(utxos) /\ Pays(utxos, amount, rate, n)
    BY DEF Enough
  <1>3. PICK total \in Nat : total = Totals(utxos)[n] /\ total = Totals(SubSeq(utxos, 1, n))[n]
    <2>1. n \in 0..Len(utxos)
      BY <1>2
    <2> QED
      BY <2>1, TotalsFacts
  <1>4. PICK one \in Nat \ {0}, two \in Nat \ {0} : one = FeeFor(n, 1, rate) /\ two = FeeFor(n, 2, rate)
    <2>1. n \in Nat /\ 1 \in Nat /\ 2 \in Nat
      BY <1>2
    <2>2. FeeFor(n, 1, rate) \in Nat \ {0}
      BY <2>1, FeeIsPositive
    <2>3. FeeFor(n, 2, rate) \in Nat \ {0}
      BY <2>1, FeeIsPositive
    <2> QED
      BY <2>2, <2>3
  <1>5. Dust \in Nat \ {0}
    BY CoinSelectionAssumption
  <1>6. total - amount - two >= Dust \/ total - amount >= one
    BY <1>2, <1>3, <1>4 DEF Pays
  <1>7. /\ s.inputs = SubSeq(utxos, 1, n) /\ s.amount = amount
        /\ s.fee = IF total - amount - two >= Dust THEN two ELSE total - amount
        /\ s.change = IF total - amount - two >= Dust THEN total - amount - two ELSE 0
    BY <1>1, <1>3, <1>4 DEF PlanOf
  <1>8. /\ s.inputs \in Seq(U) /\ Len(s.inputs) = n /\ s.inputs # <<>> /\ ToSet(s.inputs) \subseteq U
        /\ IsInjective(s.inputs)
    <2>1. n \in Nat /\ Len(utxos) \in Nat /\ n <= Len(utxos) /\ n >= 1
      BY <1>2
    <2>2. PICK p : p = [i \in 1..n |-> utxos[i]]
      OBVIOUS
    <2>a. \A i \in 1..n : utxos[i] \in U
      BY <2>1
    <2>3. p \in Seq(U) /\ Len(p) = n /\ DOMAIN p = 1..n /\ \A i \in 1..n : p[i] \in U
      BY <2>1, <2>2, <2>a
    <2>4. s.inputs = p
      BY <1>7, <2>1, <2>2
    <2>5. IsInjective(p)
      BY <2>1, <2>2, <2>3 DEF IsInjective
    <2> QED
      BY <2>1, <2>3, <2>4, <2>5 DEF ToSet
  <1>9. s.fee \in Nat /\ s.change \in Nat /\ s.fee > 0 /\ total = s.amount + s.change + s.fee
        /\ (s.change = 0 \/ s.change >= Dust)
    <2>1. CASE total - amount - two >= Dust
      BY <1>4, <1>5, <1>7, <2>1, SMTT(30)
    <2>2. CASE ~(total - amount - two >= Dust)
      <3>1. total - amount >= one
        BY <1>6, <2>2
      <3> QED
        BY <1>4, <1>7, <2>2, <3>1
    <2> QED
      BY <2>1, <2>2
  <1>10. Totals(s.inputs)[Len(s.inputs)] = total
    BY <1>3, <1>7, <1>8
  <1>11. KmsAccepts(s)
    <2>1. total > s.amount + s.change
      BY <1>7, <1>9
    <2> QED
      BY <1>7, <1>8, <1>9, <1>10, <2>1 DEF KmsAccepts
  <1>12. s.fee >= FeeFor(n, IF s.change = 0 THEN 1 ELSE 2, rate)
    <2>1. CASE total - amount - two >= Dust
      <3>1. s.change # 0 /\ s.fee = two
        BY <1>5, <1>7, <2>1
      <3> QED
        BY <1>4, <3>1
    <2>2. CASE ~(total - amount - two >= Dust)
      <3>1. s.change = 0 /\ s.fee = total - amount
        BY <1>7, <2>2
      <3> QED
        BY <1>4, <1>6, <2>2, <3>1
    <2> QED
      BY <2>1, <2>2
  <1>13. SoundSelection(s, U, rate)
    BY <1>8, <1>9, <1>10, <1>12 DEF SoundSelection
  <1> QED
    BY <1>7, <1>8, <1>9, <1>11, <1>13 DEF GoodPlan

LEMMA SweepIsSound ==
    ASSUME NEW U, \A o \in U : o.sats \in Nat, NEW utxos \in Seq(U), IsInjective(utxos),
           NEW rate \in Nat \ {0}, NEW s, s = selectBitcoinSweepUTXOs(utxos, rate), s.inputs # <<>>
    PROVE  GoodPlan(s, U, rate)
  <1>1. PICK sel : sel = Kept(utxos, {i \in DOMAIN utxos : utxos[i].sats > utxoFeeSats(InputSize, rate)})
    OBVIOUS
  <1>2. sel \in Seq(U) /\ IsInjective(sel)
    BY <1>1, KeptFacts
  <1>3. PICK n \in Nat : n = Len(sel)
    BY <1>2
  <1>4. PICK total \in Nat : total = Totals(sel)[n]
    <2>1. n \in 0..Len(sel)
      BY <1>3
    <2> QED
      BY <1>2, <2>1, TotalsFacts
  <1>5. PICK fee \in Nat \ {0} : fee = FeeFor(n, 1, rate)
    BY FeeIsPositive
  <1>6. /\ s = IF sel = <<>> \/ total - fee < Dust THEN NoSelection
               ELSE [inputs |-> sel, amount |-> total - fee, fee |-> fee, change |-> 0]
    BY <1>1, <1>3, <1>4, <1>5 DEF selectBitcoinSweepUTXOs
  <1>7. NoSelection.inputs = <<>>
    BY DEF NoSelection
  <1>8. /\ s.inputs = sel /\ s.amount = total - fee /\ s.fee = fee /\ s.change = 0
        /\ ~(total - fee < Dust)
    BY <1>6, <1>7
  <1>9. Dust \in Nat \ {0}
    BY CoinSelectionAssumption
  <1>10. s.amount \in Nat /\ s.amount >= Dust /\ total = s.amount + s.change + s.fee
    BY <1>8, <1>9
  <1>11. Totals(s.inputs)[Len(s.inputs)] = total /\ Len(s.inputs) = n
    BY <1>3, <1>4, <1>8
  <1>12. KmsAccepts(s)
    BY <1>8, <1>10, <1>11 DEF KmsAccepts
  <1>13. ToSet(s.inputs) \subseteq U
    BY <1>2, <1>8 DEF ToSet
  <1>14. SoundSelection(s, U, rate)
    BY <1>5, <1>8, <1>10, <1>11, <1>13, SMTT(30) DEF SoundSelection
  <1> QED
    BY <1>2, <1>8, <1>10, <1>12, <1>14 DEF GoodPlan

-----------------------------------------------------------------------------
(* Every plan is sound.  The invariant: a goroutine's plan spends outputs  *)
(* that its wallet got or may get, an output is named by its transaction   *)
(* and its index, and a withdrawal that is worked on has a price.          *)

\* The outputs that a wallet ever got or may get.
Holder(a) == {o \in Made(TxIds) : o.wallet = a}

Planned == {"reserve", "sign"}
Senders == {"check", "plan", "createTx", "decrement", "broadcast", "mark", "setHash", "done"} \cup Planned

JobOK(l) ==
    /\ DOMAIN l = DOMAIN Idle /\ l.kind \in {"pay", "sweep"} /\ l.queue \in Seq(Inbound)
    /\ l.sel.amount \in Nat /\ l.sel.fee \in Nat /\ l.sel.change \in Nat
    /\ l.pc # "idle" => l.pay \in Withdrawals /\ pay[l.pay] # "none"
    /\ l.pc \in Senders => l.wallet \in Wallets
    /\ l.pc \in Planned \cup {"plan"} => l.rate \in Nat \ {0}
    /\ l.pc \in Planned => GoodPlan(l.sel, Holder(l.wallet), l.rate)

OutputsOK(t) ==
    /\ IsFiniteSet(chain[t].outs) /\ Named(chain[t].outs)
    /\ \A o \in chain[t].outs : IsOutput(o) /\ o.tx = t
    /\ t > signed => chain[t].outs = {}

AmountsOK ==
    /\ merchantBalance \in Int /\ balance \in [Wallets -> Int]
    /\ DOMAIN pay = Withdrawals /\ price \in [Withdrawals -> Nat]
    /\ \A p \in Withdrawals : pay[p] # "none" => price[p] >= Dust
    /\ DOMAIN txs = TxIds
    /\ \A t \in TxIds : DOMAIN txs[t] = DOMAIN NoRow /\ txs[t].amount \in Nat /\ txs[t].fee \in Nat
    /\ \A t \in TxIds : txs[t].status = "pending" => txs[t].pay \in Withdrawals /\ pay[txs[t].pay] # "none"

ShapesOK ==
    /\ signed \in 0..MaxTx /\ DOMAIN work = Workers
    /\ DOMAIN chain = TxIds /\ \A t \in TxIds : DOMAIN chain[t] = DOMAIN Unsent

PlanInv ==
    /\ AmountsOK /\ ShapesOK
    /\ \A t \in TxIds : OutputsOK(t)
    /\ \A w \in Workers : JobOK(work[w])


\* What a listing may show is finite, and told apart by its names.
LEMMA HolderFacts ==
    ASSUME PlanInv, NEW a
    PROVE  IsFiniteSet(Holder(a)) /\ Named(Holder(a)) /\ \A o \in Holder(a) : IsOutput(o)
  <1>1. TxIds = 1..MaxTx /\ MaxTx \in Nat /\ \A t \in TxIds : OutputsOK(t)
    BY DEF PlanInv, TxIds
  <1> DEFINE O == {chain[t].outs : t \in TxIds}
  <1>2. IsFiniteSet(O)
    <2>1. IsFiniteSet(TxIds)
      BY <1>1, FS_Interval
    <2>2. IsFiniteSet({chain[t].outs : t \in TxIds})
      <3> DEFINE f == [t \in TxIds |-> chain[t].outs]
      <3>1. f \in Surjection(TxIds, O)
        BY DEF Surjection
      <3> QED
        BY <2>1, <3>1, FS_Surjection
    <2> QED
      BY <2>2
  <1>3. IsFiniteSet(UNION O)
    <2>1. \A s \in O : IsFiniteSet(s)
      BY <1>1 DEF OutputsOK
    <2> HIDE DEF O
    <2> QED
      BY <1>2, <2>1, FS_UNION
  <1>4. IsFiniteSet(Made(TxIds))
    BY <1>3, AmountsAssumption, FS_Union DEF Made
  <1>5. IsFiniteSet(Holder(a))
    BY <1>4, FS_Subset DEF Holder
  <1>6. ASSUME NEW o \in Made(TxIds)
        PROVE  IsOutput(o) /\ (o \in Coins \/ (o.tx \in TxIds /\ o \in chain[o.tx].outs))
    <2>1. CASE o \in Coins
      BY <2>1, AmountsAssumption, UtxoAssumption DEF IsOutput
    <2>2. CASE o \notin Coins
      <3>1. PICK t \in TxIds : o \in chain[t].outs
        BY <2>2 DEF Made
      <3> QED
        BY <1>1, <3>1 DEF OutputsOK
    <2> QED
      BY <2>1, <2>2
  <1>7. ASSUME NEW o \in Holder(a), NEW p \in Holder(a), o.tx = p.tx, o.out = p.out
        PROVE  o = p
    <2>1. o \in Made(TxIds) /\ p \in Made(TxIds) /\ o.wallet = p.wallet
      BY DEF Holder
    <2>2. CASE o \in Coins
      <3>1. o.tx = 0 /\ p.tx \notin TxIds
        BY <1>1, <1>7, <2>2, UtxoAssumption
      <3>2. p \in Coins
        BY <1>6, <2>1, <3>1
      <3> QED
        BY <1>7, <2>1, <2>2, <3>2, AmountsAssumption
    <2>3. CASE o \notin Coins
      <3>1. o.tx \in TxIds /\ o \in chain[o.tx].outs
        BY <1>6, <2>1, <2>3
      <3>2. p \notin Coins
        BY <1>1, <1>7, <3>1, UtxoAssumption
      <3>3. p \in chain[o.tx].outs
        BY <1>6, <1>7, <2>1, <3>2
      <3> QED
        BY <1>1, <1>7, <3>1, <3>3 DEF OutputsOK, Named
    <2> QED
      BY <2>2, <2>3
  <1> QED
    BY <1>5, <1>6, <1>7 DEF Named, Holder

\* An explorer shows what the wallet got, and none of it twice.
LEMMA UnspentFacts ==
    ASSUME PlanInv, NEW a, NEW S, S \subseteq TxIds
    PROVE  /\ SpendableUTXOs(Unspent(S, a)) \in Seq(Holder(a))
           /\ IsInjective(SpendableUTXOs(Unspent(S, a)))
  <1>1. PICK T : T = {o \in Unspent(S, a) \ ListActiveBitcoinUTXOReservations : o.sats > 0}
    OBVIOUS
  <1>2. SpendableUTXOs(Unspent(S, a)) = LargestFirst(T)
    BY <1>1 DEF SpendableUTXOs, utxoSpendableUTXOsFromExplorer, excludeBitcoinUTXOs
  <1>3. Unspent(S, a) \subseteq Holder(a)
    BY DEF Unspent, Holder, Made
  <1>4. T \subseteq Holder(a)
    BY <1>1, <1>3
  <1>5. IsFiniteSet(T) /\ Named(T) /\ \A o \in T : IsOutput(o)
    BY <1>4, HolderFacts, FS_Subset DEF Named
  <1>6. LargestFirst(T) \in Seq(T) /\ IsInjective(LargestFirst(T))
    BY <1>5, ListingFacts
  <1> QED
    BY <1>2, <1>4, <1>6

\* Fee rates are positive: a zero estimate is replaced by the fallback.
LEMMA RatesFacts == \A rate \in Rates : rate \in Nat \ {0}
  <1> TAKE rate \in Rates
  <1>1. PICK e \in Estimates : rate = utxoFeeRate(e, Fallback)
    BY DEF Rates
  <1>2. e \subseteq Nat /\ Fallback \in Nat \ {0} /\ RateUnit \in Nat \ {0}
    BY AmountsAssumption, CoinSelectionAssumption
  <1>3. PICK P : P = {r \in e : r > 0}
    OBVIOUS
  <1>4. CASE P = {}
    BY <1>1, <1>2, <1>3, <1>4 DEF utxoFeeRate, economicalUTXOFeeRate
  <1>5. CASE P # {}
    <2>1. Min(P) \in P
      BY <1>2, <1>3, <1>5, MinFacts
    <2>a. \A r \in P : r \in Nat \ {0}
      <3> TAKE r \in P
      <3>1. r \in Nat /\ r > 0
        BY <1>2, <1>3
      <3> QED
        BY <3>1
    <2>2. PICK m \in Nat \ {0} : m = Min(P)
      BY <2>1, <2>a, Zenon
    <2>3. PICK d \in Nat : d = RateUnit \div 10
      BY <1>2
    <2>4. Max({m, d}) = IF m >= d THEN m ELSE d
      BY MaxOfTwo
    <2>5. Max({m, d}) \in Nat \ {0}
      BY <2>4
    <2>6. economicalUTXOFeeRate(e) = Max({m, d})
      BY <1>3, <1>5, <2>2, <2>3 DEF economicalUTXOFeeRate
    <2> QED
      BY <1>1, <2>5, <2>6 DEF utxoFeeRate
  <1> QED
    BY <1>4, <1>5


-----------------------------------------------------------------------------
(* What a step leaves to the plans of the others *)

\* The wallets only get more, and no withdrawal is forgotten.
Grows ==
    /\ \A t \in TxIds : chain[t].outs \subseteq chain'[t].outs
    /\ \A p \in Withdrawals : pay[p] # "none" => pay'[p] # "none"

LEMMA GoodPlanGrows ==
    ASSUME NEW s, NEW U, NEW V, NEW rate, GoodPlan(s, U, rate), U \subseteq V
    PROVE  GoodPlan(s, V, rate)
  <1>1. s.inputs \in Seq(V)
    BY DEF GoodPlan
  <1>2. SoundSelection(s, V, rate)
    BY DEF GoodPlan, SoundSelection
  <1> QED
    BY <1>1, <1>2 DEF GoodPlan

LEMMA PlanPreserve ==
    ASSUME PlanInv, NEW w \in Workers, \A v \in Workers : v # w => work'[v] = work[v],
           Grows, AmountsOK', ShapesOK', \A t \in TxIds : OutputsOK(t)', JobOK(work[w])'
    PROVE  PlanInv'
  <1>1. ASSUME NEW a PROVE Holder(a) \subseteq Holder(a)'
    BY DEF Holder, Made, Grows
  <1>2. ASSUME NEW v \in Workers, v # w PROVE JobOK(work[v])'
    <2>1. PICK l : l = work[v] /\ l = work'[v]
      BY <1>2
    <2>2. JobOK(l)
      BY <2>1 DEF PlanInv
    <2>3. l.pc # "idle" => l.pay \in Withdrawals /\ pay'[l.pay] # "none"
      BY <2>2 DEF JobOK, Grows
    <2>4. PICK U, V : U = Holder(l.wallet) /\ V = Holder(l.wallet)' /\ U \subseteq V
      BY <1>1
    <2>5. l.pc \in Planned => GoodPlan(l.sel, V, l.rate)
      BY <2>2, <2>4, GoodPlanGrows DEF JobOK
    <2>6. JobOK(l)'
      BY <2>2, <2>3, <2>4, <2>5 DEF JobOK
    <2> QED
      BY <2>1, <2>6
  <1> QED
    BY <1>2 DEF PlanInv

\* A step that changes the local variables of w and the ledger.
LEMMA PlanMove ==
    ASSUME PlanInv, NEW w \in Workers, NEW l, work' = [work EXCEPT ![w] = l], JobOK(l),
           UNCHANGED <<pay, signed>>, AmountsOK',
           DOMAIN chain' = TxIds, \A t \in TxIds : DOMAIN chain'[t] = DOMAIN Unsent /\ chain'[t].outs = chain[t].outs
    PROVE  PlanInv'
  <1>1. work'[w] = l /\ (\A v \in Workers : v # w => work'[v] = work[v]) /\ ShapesOK' /\ Grows
    BY DEF PlanInv, ShapesOK, Grows
  <1>2. \A t \in TxIds : OutputsOK(t)'
    BY DEF PlanInv, OutputsOK
  <1>3. Holder(l.wallet)' = Holder(l.wallet)
    BY DEF Holder, Made
  <1>4. JobOK(l)'
    BY <1>3 DEF JobOK
  <1> QED
    BY <1>1, <1>2, <1>4, PlanPreserve

LEMMA SameAmounts ==
    ASSUME PlanInv, UNCHANGED <<payments, ledger, txs>>
    PROVE  AmountsOK'
  BY DEF PlanInv, AmountsOK, payments, ledger

\* A step that changes the local variables of w only.
LEMMA PlanLocal ==
    ASSUME PlanInv, NEW w \in Workers, NEW l, work' = [work EXCEPT ![w] = l], JobOK(l),
           UNCHANGED <<payments, ledger, txs, signed, chain>>
    PROVE  PlanInv'
  <1>1. AmountsOK' /\ UNCHANGED <<pay, signed>>
    BY SameAmounts DEF payments
  <1>2. DOMAIN chain' = TxIds /\ \A t \in TxIds : DOMAIN chain'[t] = DOMAIN Unsent /\ chain'[t].outs = chain[t].outs
    BY DEF PlanInv, ShapesOK
  <1> QED
    BY <1>1, <1>2, PlanMove

\* The program counter, the transaction and the flags say nothing of a plan, once it is signed.
LEMMA JobMoves ==
    ASSUME PlanInv, NEW w \in Workers, work[w].pc # "idle", NEW l, DOMAIN l = DOMAIN Idle,
           l.kind = work[w].kind, l.queue = work[w].queue, l.sel = work[w].sel, l.pay = work[w].pay,
           l.wallet = work[w].wallet, l.pc \notin Planned \cup {"plan"},
           l.pc \in Senders => work[w].pc \in Senders
    PROVE  JobOK(l)
  BY DEF PlanInv, JobOK

LEMMA PlanGoto ==
    ASSUME PlanInv, NEW w \in Workers, work[w].pc # "idle", NEW p, Goto(w, p),
           p \notin Planned \cup {"plan"}, p \in Senders => work[w].pc \in Senders
    PROVE  \E l : work' = [work EXCEPT ![w] = l] /\ JobOK(l)
  <1> DEFINE l == [work[w] EXCEPT !.pc = p]
  <1>1. DOMAIN work[w] = DOMAIN Idle
    BY DEF PlanInv, JobOK
  <1>2. /\ DOMAIN l = DOMAIN Idle /\ l.pc = p /\ l.kind = work[w].kind /\ l.queue = work[w].queue
        /\ l.sel = work[w].sel /\ l.pay = work[w].pay /\ l.wallet = work[w].wallet
    BY <1>1 DEF Idle
  <1> HIDE DEF l
  <1>3. JobOK(l)
    BY <1>2, JobMoves
  <1> QED
    BY <1>3 DEF Goto, l

LEMMA PlanUndo ==
    ASSUME PlanInv, NEW w \in Workers, work[w].pc # "idle", NEW mark, Undo(w, mark)
    PROVE  \E l : work' = [work EXCEPT ![w] = l] /\ JobOK(l)
  <1> DEFINE l == [work[w] EXCEPT !.mark = @ \/ mark, !.pc = IF work[w].tx = 0 THEN "undoTx" ELSE "release"]
  <1>1. DOMAIN work[w] = DOMAIN Idle
    BY DEF PlanInv, JobOK
  <1>2. /\ DOMAIN l = DOMAIN Idle /\ l.pc \in {"undoTx", "release"} /\ l.kind = work[w].kind
        /\ l.queue = work[w].queue /\ l.sel = work[w].sel /\ l.pay = work[w].pay /\ l.wallet = work[w].wallet
    BY <1>1 DEF Idle
  <1>3. work' = [work EXCEPT ![w] = l]
    BY DEF Undo
  <1> HIDE DEF l
  <1>4. JobOK(l)
    BY <1>2, JobMoves DEF Planned, Senders
  <1> QED
    BY <1>3, <1>4

LEMMA PlanEnd ==
    ASSUME PlanInv, NEW w \in Workers, End(w)
    PROVE  \E l : work' = [work EXCEPT ![w] = l] /\ JobOK(l)
  <1>1. JobOK(Idle)
    BY DEF JobOK, Idle, NoSelection, Senders, Planned
  <1> QED
    BY <1>1 DEF End


-----------------------------------------------------------------------------
(* The steps of a goroutine up to its plan *)

\* w begins anew at p for its withdrawal.
Fresh(l, w) ==
    /\ DOMAIN l = DOMAIN Idle /\ l.kind \in {"pay", "sweep"} /\ l.sel = NoSelection
    /\ l.pay = work[w].pay /\ l.pc \in {"check", "nextSweep"}

LEMMA FreshJob ==
    ASSUME PlanInv, NEW w \in Workers, work[w].pc # "idle", NEW l, Fresh(l, w), l.queue \in Seq(Inbound),
           l.pc = "check" => l.wallet \in Wallets
    PROVE  JobOK(l)
  <1>1. NoSelection.amount \in Nat /\ NoSelection.fee \in Nat /\ NoSelection.change \in Nat
    BY DEF NoSelection
  <1>2. l.pay \in Withdrawals /\ pay[l.pay] # "none"
    BY DEF PlanInv, JobOK, Fresh
  <1> QED
    BY <1>1, <1>2 DEF JobOK, Fresh, Senders, Planned

\* The listing of the wallets has each wallet with a balance once.
LEMMA SourcesFacts ==
    ASSUME NEW candidates \in listInboundUTXOSources
    PROVE  /\ candidates \in Seq(Inbound)
           /\ \A a \in Inbound : balance[a] > 0 => \E i \in DOMAIN candidates : candidates[i] = a
  <1>1. PICK funded : funded = {a \in Inbound : balance[a] > 0}
    OBVIOUS
  <1>2. PICK n : n = Cardinality(funded)
    OBVIOUS
  <1>3. funded \subseteq Inbound /\ IsFiniteSet(funded) /\ n \in Nat
    <2>1. funded \subseteq Inbound
      BY <1>1
    <2>2. IsFiniteSet(funded)
      BY <2>1, AmountsAssumption, FS_Subset
    <2> QED
      BY <1>2, <2>1, <2>2, FS_CardinalityType
  <1>4. /\ candidates \in [1..n -> funded]
        /\ \A i, j \in DOMAIN candidates : i < j => candidates[i] # candidates[j]
    BY <1>1, <1>2 DEF listInboundUTXOSources
  <1>5. candidates \in Injection(1..n, funded)
    <2>1. \A i, j \in 1..n : candidates[i] = candidates[j] => i = j
      BY <1>3, <1>4
    <2> QED
      BY <1>4, <2>1 DEF Injection, IsInjective
  <1>6. IsFiniteSet(1..n) /\ Cardinality(1..n) = n
    BY <1>3, FS_Interval
  <1>7. candidates \in Surjection(1..n, funded)
    BY <1>2, <1>3, <1>5, <1>6, FS_Injection
  <1>8. \A a \in funded : \E i \in DOMAIN candidates : candidates[i] = a
    BY <1>4, <1>7 DEF Surjection
  <1> QED
    BY <1>1, <1>3, <1>4, <1>8

LEMMA CandidatesFacts ==
    ASSUME NEW candidates \in Seq(Inbound), NEW amount
    PROVE  selectUTXOConsolidationCandidates(candidates, amount) \in Seq(Inbound)
  <1>1. PICK n \in Nat : n = Len(candidates)
    OBVIOUS
  <1>2. ASSUME NEW E, E \subseteq 0..n PROVE SubSeq(candidates, 1, Min(E \cup {n})) \in Seq(Inbound)
    <2>1. PICK F : F = E \cup {n}
      OBVIOUS
    <2>2. F \subseteq 0..n /\ F \subseteq Nat /\ F # {}
      BY <1>2, <2>1
    <2>3. Min(F) \in F
      BY <2>2, MinFacts
    <2>4. PICK m \in 0..n : m = Min(F)
      BY <2>2, <2>3
    <2>5. SubSeq(candidates, 1, m) \in Seq(Inbound)
      BY <1>1
    <2> QED
      BY <2>1, <2>4, <2>5
  <1>3. ASSUME NEW sum
        PROVE  SubSeq(candidates, 1, Min({k \in 0..n : k = MaxSources \/ sum[k] >= amount} \cup {n})) \in Seq(Inbound)
    <2>1. PICK E : E = {k \in 0..n : k = MaxSources \/ sum[k] >= amount}
      OBVIOUS
    <2>2. E \subseteq 0..n
      BY <2>1
    <2> QED
      BY <1>2, <2>1, <2>2
  <1> QED
    BY <1>1, <1>3, Zenon DEF selectUTXOConsolidationCandidates

LEMMA PlanConsolidate ==
    ASSUME PlanInv, NEW w \in Workers, work[w].pc # "idle", Consolidate(w)
    PROVE  \E l : work' = [work EXCEPT ![w] = l] /\ JobOK(l)
  <1>1. PICK candidates \in listInboundUTXOSources :
           work' = [work EXCEPT ![w] =
                      [Idle EXCEPT !.pc = "nextSweep", !.pay = work[w].pay, !.kind = "sweep",
                        !.queue = selectUTXOConsolidationCandidates(candidates, price[work[w].pay])]]
    BY DEF Consolidate
  <1>2. PICK q \in Seq(Inbound) : q = selectUTXOConsolidationCandidates(candidates, price[work[w].pay])
    <2>1. candidates \in Seq(Inbound)
      BY SourcesFacts
    <2> QED
      BY <2>1, CandidatesFacts
  <1> DEFINE l == [Idle EXCEPT !.pc = "nextSweep", !.pay = work[w].pay, !.kind = "sweep", !.queue = q]
  <1>3. Fresh(l, w) /\ l.queue = q /\ l.pc = "nextSweep" /\ work' = [work EXCEPT ![w] = l]
    BY <1>1, <1>2 DEF Fresh, Idle
  <1> HIDE DEF l
  <1>4. JobOK(l)
    BY <1>3, FreshJob
  <1> QED
    BY <1>3, <1>4

LEMMA PlanStart ==
    ASSUME PlanInv, NEW w \in Workers, NEW p \in Withdrawals, StartWithdrawal(w, p)
    PROVE  PlanInv'
  <1> DEFINE l == [Idle EXCEPT !.pc = "source", !.pay = p, !.seen = merchantBalance]
  <1>1. work' = [work EXCEPT ![w] = l] /\ pay[p] # "none"
    BY DEF StartWithdrawal
  <1>2. JobOK(l)
    BY <1>1 DEF JobOK, Idle, NoSelection, Senders, Planned
  <1> HIDE DEF l
  <1> QED
    BY <1>1, <1>2, PlanLocal DEF StartWithdrawal

\* The wallet that pays is a wallet.
LEMMA PlanPaysFrom ==
    ASSUME PlanInv, NEW w \in Workers, At(w, "source"), NEW a \in Wallets, PaysFrom(w, a)
    PROVE  \E l : work' = [work EXCEPT ![w] = l] /\ JobOK(l)
  <1> DEFINE l == [work[w] EXCEPT !.pc = "check", !.wallet = a]
  <1>1. JobOK(work[w]) /\ work' = [work EXCEPT ![w] = l]
    BY DEF PlanInv, PaysFrom
  <1>2. /\ DOMAIN l = DOMAIN Idle /\ l.pc = "check" /\ l.wallet = a /\ l.kind = work[w].kind
        /\ l.queue = work[w].queue /\ l.sel = work[w].sel /\ l.pay = work[w].pay
    BY <1>1 DEF JobOK, Idle
  <1> HIDE DEF l
  <1>3. JobOK(l)
    BY <1>1, <1>2 DEF JobOK, At, Planned
  <1> QED
    BY <1>1, <1>3

LEMMA PlanResolve ==
    ASSUME PlanInv, NEW w \in Workers, resolveUTXOWithdrawalSource(w)
    PROVE  PlanInv'
  <1>1. /\ At(w, "source") /\ UNCHANGED <<payments, ledger, txs, signed, chain>>
        /\ PaysFrom(w, Outbound) \/ (SomeInboundCovers(w) /\ PaysFromInbound(w)) \/ Consolidate(w)
    BY DEF resolveUTXOWithdrawalSource
  <1>2. ASSUME NEW a \in Wallets, PaysFrom(w, a) PROVE PlanInv'
    <2>1. PICK l : work' = [work EXCEPT ![w] = l] /\ JobOK(l)
      BY <1>1, <1>2, PlanPaysFrom
    <2> QED
      BY <1>1, <2>1, PlanLocal
  <1>3. CASE SomeInboundCovers(w) /\ PaysFromInbound(w)
    <2>1. PICK candidates \in listInboundUTXOSources :
             PaysFrom(w, candidates[Min({i \in DOMAIN candidates : balance[candidates[i]] >= price[work[w].pay]})])
      BY <1>3 DEF PaysFromInbound
    <2>2. PICK a \in Inbound : balance[a] > 0 /\ balance[a] >= price[work[w].pay]
      BY <1>3 DEF SomeInboundCovers
    <2>3. PICK C : C = {i \in DOMAIN candidates : balance[candidates[i]] >= price[work[w].pay]}
      OBVIOUS
    <2>4. candidates \in Seq(Inbound) /\ C # {} /\ C \subseteq Nat
      BY <2>2, <2>3, SourcesFacts
    <2>5. Min(C) \in DOMAIN candidates
      BY <2>3, <2>4, MinFacts
    <2>6. candidates[Min(C)] \in Wallets
      BY <2>4, <2>5 DEF Wallets
    <2> QED
      BY <1>2, <2>1, <2>3, <2>6
  <1>4. CASE Consolidate(w)
    <2>1. PICK l : work' = [work EXCEPT ![w] = l] /\ JobOK(l)
      BY <1>1, <1>4, PlanConsolidate DEF At
    <2> QED
      BY <1>1, <2>1, PlanLocal
  <1> QED
    BY <1>1, <1>3, <1>4, <1>2 DEF Wallets

LEMMA PlanNextSweep ==
    ASSUME PlanInv, NEW w \in Workers, NextSweep(w)
    PROVE  PlanInv'
  <1> DEFINE q == work[w].queue
  <1>1. work[w].pc = "nextSweep" /\ q \in Seq(Inbound) /\ UNCHANGED <<payments, ledger, txs, signed, chain>>
    BY DEF NextSweep, PlanInv, JobOK, At
  <1>2. \E l : work' = [work EXCEPT ![w] = l] /\ JobOK(l)
    <2>1. CASE End(w)
      BY <2>1, PlanEnd
    <2>2. CASE ~End(w)
      <3> DEFINE l == [Idle EXCEPT !.pc = "check", !.pay = work[w].pay, !.kind = "sweep",
                                   !.wallet = Head(q), !.queue = Tail(q), !.swept = work[w].swept]
      <3>1. q # <<>> /\ work' = [work EXCEPT ![w] = l]
        BY <2>2 DEF NextSweep
      <3>2. Head(q) \in Inbound /\ Tail(q) \in Seq(Inbound)
        BY <1>1, <3>1
      <3>3. Fresh(l, w) /\ l.queue = Tail(q) /\ l.wallet = Head(q)
        BY DEF Fresh, Idle
      <3> HIDE DEF l
      <3>4. JobOK(l)
        BY <1>1, <3>2, <3>3, FreshJob DEF Wallets
      <3> QED
        BY <3>1, <3>4
    <2> QED
      BY <2>1, <2>2
  <1> QED
    BY <1>1, <1>2, PlanLocal


LEMMA PlanCheckBalances ==
    ASSUME PlanInv, NEW w \in Workers, CheckBalances(w)
    PROVE  PlanInv'
  <1>1. work[w].pc = "check" /\ JobOK(work[w]) /\ UNCHANGED <<payments, ledger, txs, signed, chain>>
    BY DEF CheckBalances, PlanInv, At
  <1>2. PICK rate \in Rates : Undo(w, TRUE) \/ work' = [work EXCEPT ![w].pc = "plan", ![w].rate = rate]
    BY DEF CheckBalances
  <1>3. \E l : work' = [work EXCEPT ![w] = l] /\ JobOK(l)
    <2>1. CASE Undo(w, TRUE)
      <3>1. PICK mark : mark = TRUE
        OBVIOUS
      <3> QED
        BY <1>1, <2>1, <3>1, PlanUndo
    <2>2. CASE ~Undo(w, TRUE)
      <3> DEFINE l == [work[w] EXCEPT !.pc = "plan", !.rate = rate]
      <3>1. work' = [work EXCEPT ![w] = l]
        BY <1>2, <2>2
      <3>2. /\ DOMAIN l = DOMAIN Idle /\ l.pc = "plan" /\ l.wallet = work[w].wallet /\ l.kind = work[w].kind
            /\ l.queue = work[w].queue /\ l.sel = work[w].sel /\ l.pay = work[w].pay /\ l.rate = rate
        BY <1>1 DEF JobOK, Idle
      <3>3. rate \in Nat \ {0}
        BY RatesFacts
      <3> HIDE DEF l
      <3>4. JobOK(l)
        BY <1>1, <3>2, <3>3 DEF JobOK, Planned, Senders
      <3> QED
        BY <3>1, <3>4
    <2> QED
      BY <2>1, <2>2
  <1> QED
    BY <1>1, <1>3, PlanLocal

\* What a goroutine prepares of a listing is a good plan.
LEMMA PrepareFacts ==
    ASSUME PlanInv, NEW w \in Workers, At(w, "plan"), NEW S, S \subseteq TxIds,
           NEW s, s = Prepare(work[w], SpendableUTXOs(Unspent(S, work[w].wallet))), s.inputs # <<>>
    PROVE  GoodPlan(s, Holder(work[w].wallet), work[w].rate)
  <1>1. PICK a : a = work[w].wallet
    OBVIOUS
  <1>2. PICK utxos \in Seq(Holder(a)) : utxos = SpendableUTXOs(Unspent(S, a)) /\ IsInjective(utxos)
    BY UnspentFacts
  <1>3. \A o \in Holder(a) : o.sats \in Nat
    BY HolderFacts DEF IsOutput
  <1>4. PICK rate \in Nat \ {0} : rate = work[w].rate
    BY DEF PlanInv, JobOK, At
  <1>5. PICK p \in Withdrawals : p = work[w].pay /\ pay[p] # "none"
    BY DEF PlanInv, JobOK, At
  <1>6. PICK amount \in Nat : amount = price[p] /\ amount >= Dust
    BY <1>5 DEF PlanInv, AmountsOK
  <1>7. CASE work[w].kind = "pay"
    <2>1. s = selectBitcoinUTXOs(utxos, amount, rate)
      BY <1>1, <1>2, <1>4, <1>5, <1>6, <1>7 DEF Prepare
    <2>2. GoodPlan(s, Holder(a), rate)
      BY <1>2, <1>3, <1>6, <2>1, SelectIsSound
    <2> QED
      BY <1>1, <1>4, <2>2
  <1>8. CASE work[w].kind # "pay"
    <2>1. s = selectBitcoinSweepUTXOs(utxos, rate)
      BY <1>1, <1>2, <1>4, <1>8 DEF Prepare
    <2>2. GoodPlan(s, Holder(a), rate)
      BY <1>2, <1>3, <2>1, SweepIsSound
    <2> QED
      BY <1>1, <1>4, <2>2
  <1> QED
    BY <1>7, <1>8

LEMMA PlanPlan ==
    ASSUME PlanInv, NEW w \in Workers, Plan(w)
    PROVE  PlanInv'
  <1>1. work[w].pc = "plan" /\ JobOK(work[w]) /\ UNCHANGED <<payments, ledger, txs, signed, chain>>
    BY DEF Plan, PlanInv, At
  <1>2. \/ \E view \in Views(work[w].wallet) : \E s :
              /\ s = Prepare(work[w], SpendableUTXOs(view)) /\ s.inputs # <<>>
              /\ work' = [work EXCEPT ![w] = [work[w] EXCEPT !.pc = "reserve", !.sel = s]]
        \/ Consolidate(w)
        \/ Goto(w, "nextSweep")
    BY <1>1, PlanFacts DEF JobOK
  <1>3. ASSUME NEW view \in Views(work[w].wallet), NEW s, s = Prepare(work[w], SpendableUTXOs(view)),
               s.inputs # <<>>, work' = [work EXCEPT ![w] = [work[w] EXCEPT !.pc = "reserve", !.sel = s]]
        PROVE  \E l : work' = [work EXCEPT ![w] = l] /\ JobOK(l)
    <2> DEFINE l == [work[w] EXCEPT !.pc = "reserve", !.sel = s]
    <2>1. /\ DOMAIN l = DOMAIN Idle /\ l.pc = "reserve" /\ l.wallet = work[w].wallet /\ l.kind = work[w].kind
          /\ l.queue = work[w].queue /\ l.sel = s /\ l.pay = work[w].pay /\ l.rate = work[w].rate
      BY <1>1 DEF JobOK, Idle
    <2>2. PICK S \in SUBSET TxIds : view = Unspent(S, work[w].wallet)
      BY DEF Views
    <2>3. GoodPlan(s, Holder(work[w].wallet), work[w].rate)
      BY <1>1, <1>3, <2>2, PrepareFacts DEF At
    <2>4. work' = [work EXCEPT ![w] = l]
      BY <1>3
    <2> HIDE DEF l
    <2>5. s.amount \in Nat /\ s.fee \in Nat /\ s.change \in Nat
      BY <2>3 DEF GoodPlan
    <2>6. JobOK(l)
      BY <1>1, <2>1, <2>3, <2>5 DEF JobOK, Planned, Senders
    <2> QED
      BY <2>4, <2>6
  <1>4. ASSUME Goto(w, "nextSweep") PROVE \E l : work' = [work EXCEPT ![w] = l] /\ JobOK(l)
    BY <1>1, <1>4, PlanGoto DEF Planned, Senders
  <1>5. \E l : work' = [work EXCEPT ![w] = l] /\ JobOK(l)
    BY <1>1, <1>2, <1>3, <1>4, PlanConsolidate
  <1> QED
    BY <1>1, <1>5, PlanLocal

LEMMA PlanReserve ==
    ASSUME PlanInv, NEW w \in Workers, Reserve(w)
    PROVE  PlanInv'
  <1>1. work[w].pc = "reserve" /\ JobOK(work[w]) /\ UNCHANGED <<payments, ledger, txs, signed, chain>>
    BY DEF Reserve, PlanInv, At
  <1>2. \/ Goto(w, "sign") \/ Undo(w, FALSE)
        \/ work' = [work EXCEPT ![w].pc = "plan", ![w].attempt = @ + 1]
    BY DEF Reserve
  <1>3. \E l : work' = [work EXCEPT ![w] = l] /\ JobOK(l)
    <2>1. CASE Goto(w, "sign")
      <3> DEFINE l == [work[w] EXCEPT !.pc = "sign"]
      <3>1. work' = [work EXCEPT ![w] = l]
        BY <2>1 DEF Goto
      <3>2. /\ DOMAIN l = DOMAIN Idle /\ l.pc = "sign" /\ l.wallet = work[w].wallet /\ l.kind = work[w].kind
            /\ l.queue = work[w].queue /\ l.sel = work[w].sel /\ l.pay = work[w].pay /\ l.rate = work[w].rate
        BY <1>1 DEF JobOK, Idle
      <3> HIDE DEF l
      <3>3. JobOK(l)
        BY <1>1, <3>2 DEF JobOK, Planned, Senders
      <3> QED
        BY <3>1, <3>3
    <2>2. CASE Undo(w, FALSE)
      <3>1. PICK mark : mark = FALSE
        OBVIOUS
      <3> QED
        BY <1>1, <2>2, <3>1, PlanUndo
    <2>3. CASE work' = [work EXCEPT ![w].pc = "plan", ![w].attempt = @ + 1]
      <3> DEFINE l == [work[w] EXCEPT !.pc = "plan", !.attempt = @ + 1]
      <3>1. work' = [work EXCEPT ![w] = l]
        BY <2>3
      <3>2. /\ DOMAIN l = DOMAIN Idle /\ l.pc = "plan" /\ l.wallet = work[w].wallet /\ l.kind = work[w].kind
            /\ l.queue = work[w].queue /\ l.sel = work[w].sel /\ l.pay = work[w].pay /\ l.rate = work[w].rate
        BY <1>1 DEF JobOK, Idle
      <3> HIDE DEF l
      <3>3. JobOK(l)
        BY <1>1, <3>2 DEF JobOK, Planned, Senders
      <3> QED
        BY <3>1, <3>3
    <2> QED
      BY <1>2, <2>1, <2>2, <2>3
  <1> QED
    BY <1>1, <1>3, PlanLocal


-----------------------------------------------------------------------------
(* The steps after the plan *)

LEMMA PlanSign ==
    ASSUME PlanInv, NEW w \in Workers, Sign(w)
    PROVE  PlanInv'
  <1>1. PICK l, t : l = work[w] /\ t = signed + 1
    OBVIOUS
  <1>2. /\ l.pc = "sign" /\ JobOK(l) /\ signed \in Nat /\ signed < MaxTx /\ signed' = t /\ t \in TxIds
        /\ t = signed + 1 /\ t \in Nat
        /\ UNCHANGED <<payments, ledger, txs>>
    BY <1>1 DEF Sign, PlanInv, ShapesOK, At, TxIds
  <1>3. chain' = [chain EXCEPT ![t] = [state |-> "unsent", ins |-> Inputs(l), outs |-> Outputs(l, t)]]
    BY <1>1 DEF Sign
  <1>4. /\ chain'[t].outs = Outputs(l, t) /\ \A u \in TxIds : u # t => chain'[u] = chain[u]
        /\ DOMAIN chain' = TxIds /\ \A u \in TxIds : DOMAIN chain'[u] = DOMAIN Unsent
    BY <1>2, <1>3 DEF PlanInv, ShapesOK, Unsent
  <1>5. AmountsOK'
    BY <1>2, SameAmounts
  <1>6. PICK amount, change, wallet : /\ amount = l.sel.amount /\ change = l.sel.change /\ wallet = l.wallet
                                      /\ amount \in Nat /\ change \in Nat
    BY <1>2 DEF JobOK
  <1>7. OutputsOK(t)'
    <2> DEFINE one == [tx |-> t, out |-> 1, wallet |-> Outbound, sats |-> amount]
               two == [tx |-> t, out |-> 2, wallet |-> wallet, sats |-> change]
    <2>1. Outputs(l, t) \subseteq {one, two}
      BY <1>6 DEF Outputs
    <2>2. IsFiniteSet({one, two})
      <3>1. ASSUME NEW a, NEW b PROVE IsFiniteSet({a, b})
        <4>1. IsFiniteSet({a}) /\ IsFiniteSet({b}) /\ {a, b} = {a} \cup {b}
          BY FS_Singleton
        <4> QED
          BY <4>1, FS_Union, ZenonT(40)
      <3> QED
        BY <3>1
    <2>3. /\ IsOutput(one) /\ one.tx = t /\ one.out = 1
          /\ IsOutput(two) /\ two.tx = t /\ two.out = 2
      BY <1>2, <1>6 DEF IsOutput
    <2> HIDE DEF one, two
    <2>4. IsFiniteSet(Outputs(l, t))
      BY <2>1, <2>2, FS_Subset
    <2>5. Named(Outputs(l, t)) /\ \A o \in Outputs(l, t) : IsOutput(o) /\ o.tx = t
      BY <2>1, <2>3 DEF Named
    <2>6. ~(t > signed')
      BY <1>2
    <2> QED
      BY <1>4, <2>4, <2>5, <2>6 DEF OutputsOK, Named
  <1>8. \A u \in TxIds : OutputsOK(u)'
    <2> TAKE u \in TxIds
    <2>1. CASE u # t
      <3>1. OutputsOK(u) /\ (u > signed' => u > signed)
        BY <1>2 DEF PlanInv, TxIds
      <3> QED
        BY <1>4, <2>1, <3>1 DEF OutputsOK, Named
    <2> QED
      BY <1>7, <2>1
  <1>9. Grows
    <2>1. chain[t].outs = {}
      BY <1>2 DEF PlanInv, OutputsOK
    <2> QED
      BY <1>2, <1>4, <2>1 DEF Grows, payments
  <1>10. PICK k, p : /\ p \in {"release", "createTx"} /\ k = work'[w] /\ work' = [work EXCEPT ![w] = k]
                     /\ DOMAIN k = DOMAIN Idle /\ k.pc = p /\ k.wallet = l.wallet /\ k.kind = l.kind
                     /\ k.queue = l.queue /\ k.sel = l.sel /\ k.pay = l.pay
    <2>1. PICK mark, p : /\ p \in {"release", "createTx"}
                         /\ work' = [work EXCEPT ![w].tx = t, ![w].mark = mark, ![w].pc = p]
      BY <1>1 DEF Sign
    <2>2. work' = [work EXCEPT ![w] = [l EXCEPT !.tx = t, !.mark = mark, !.pc = p]]
      BY <1>1, <2>1
    <2>3. DOMAIN l = DOMAIN Idle
      BY <1>2 DEF JobOK
    <2>4. PICK k : k = [l EXCEPT !.tx = t, !.mark = mark, !.pc = p]
      OBVIOUS
    <2>5. /\ DOMAIN k = DOMAIN Idle /\ k.pc = p /\ k.wallet = l.wallet /\ k.kind = l.kind
          /\ k.queue = l.queue /\ k.sel = l.sel /\ k.pay = l.pay
      BY <2>3, <2>4 DEF Idle
    <2>6. work' = [work EXCEPT ![w] = k] /\ k = work'[w]
      BY <2>2, <2>4 DEF PlanInv, ShapesOK
    <2> QED
      BY <2>1, <2>5, <2>6
  <1>11. JobOK(k)'
    BY <1>2, <1>10 DEF JobOK, Planned, Senders, payments
  <1>12. JobOK(work[w])' /\ ShapesOK' /\ \A v \in Workers : v # w => work'[v] = work[v]
    BY <1>2, <1>4, <1>10, <1>11 DEF PlanInv, ShapesOK, TxIds
  <1> QED
    BY <1>5, <1>8, <1>9, <1>12, PlanPreserve

LEMMA PlanCreateTx ==
    ASSUME PlanInv, NEW w \in Workers, CreateTx(w)
    PROVE  PlanInv'
  <1>1. PICK l : l = work[w]
    OBVIOUS
  <1>2. /\ l.pc = "createTx" /\ JobOK(l) /\ UNCHANGED <<payments, ledger, signed, chain>>
        /\ txs' = [txs EXCEPT ![l.tx] = [status |-> "pending", kind |-> l.kind, pay |-> l.pay,
                                         wallet |-> l.wallet, amount |-> l.sel.amount,
                                         fee |-> l.sel.fee, hash |-> FALSE]]
    BY <1>1 DEF CreateTx, PlanInv, At
  <1>3. AmountsOK'
    <2>1. DOMAIN txs' = TxIds /\ \A t \in TxIds : DOMAIN txs'[t] = DOMAIN NoRow /\ txs'[t].amount \in Nat /\ txs'[t].fee \in Nat
      BY <1>2 DEF PlanInv, AmountsOK, NoRow, JobOK
    <2>2. \A t \in TxIds : txs'[t].status = "pending" => txs'[t].pay \in Withdrawals /\ pay'[txs'[t].pay] # "none"
      BY <1>2 DEF PlanInv, AmountsOK, JobOK, payments
    <2> QED
      BY <1>2, <2>1, <2>2 DEF PlanInv, AmountsOK, payments, ledger
  <1> DEFINE k == [work[w] EXCEPT !.pc = "decrement", !.created = TRUE]
  <1>4. work' = [work EXCEPT ![w] = k]
    BY DEF CreateTx
  <1>5. /\ DOMAIN k = DOMAIN Idle /\ k.pc = "decrement" /\ k.wallet = l.wallet /\ k.kind = l.kind
        /\ k.queue = l.queue /\ k.sel = l.sel /\ k.pay = l.pay
    BY <1>1, <1>2 DEF JobOK, Idle
  <1> HIDE DEF k
  <1>6. JobOK(k)
    BY <1>1, <1>2, <1>5, JobMoves DEF Planned, Senders
  <1>7. DOMAIN chain' = TxIds /\ \A t \in TxIds : DOMAIN chain'[t] = DOMAIN Unsent /\ chain'[t].outs = chain[t].outs
    BY <1>2 DEF PlanInv, ShapesOK
  <1> QED
    BY <1>2, <1>3, <1>4, <1>6, <1>7, PlanMove DEF payments

LEMMA PlanDecrement ==
    ASSUME PlanInv, NEW w \in Workers, Decrement(w)
    PROVE  PlanInv'
  <1>1. PICK l : l = work[w]
    OBVIOUS
  <1>2. l.pc = "decrement" /\ JobOK(l) /\ UNCHANGED <<payments, txs, signed, chain>>
    BY <1>1 DEF Decrement, PlanInv, At
  <1>3. DOMAIN chain' = TxIds /\ \A t \in TxIds : DOMAIN chain'[t] = DOMAIN Unsent /\ chain'[t].outs = chain[t].outs
    BY <1>2 DEF PlanInv, ShapesOK
  <1>4. CASE UNCHANGED ledger /\ \E mark : Undo(w, mark)
    <2>1. \E k : work' = [work EXCEPT ![w] = k] /\ JobOK(k)
      BY <1>1, <1>2, <1>4, PlanUndo
    <2> QED
      BY <1>2, <1>4, <2>1, PlanLocal
  <1>5. CASE /\ merchantBalance' = merchantBalance - Charge(l)
             /\ balance' = [balance EXCEPT ![l.wallet] = @ - l.sel.amount]
             /\ work' = [work EXCEPT ![w].pc = "broadcast", ![w].moved = TRUE]
    <2>1. Charge(l) \in Int /\ l.sel.amount \in Int
      BY <1>2 DEF JobOK, Charge
    <2>2. merchantBalance' \in Int /\ balance' \in [Wallets -> Int]
      <3>a. PICK x \in Int : x = l.sel.amount
        BY <2>1
      <3>b. PICK y \in Int : y = Charge(l)
        BY <2>1
      <3>1. PICK a : a = l.wallet
        OBVIOUS
      <3>2. merchantBalance' = merchantBalance - y /\ balance' = [balance EXCEPT ![a] = @ - x]
        BY <1>5, <3>a, <3>b, <3>1
      <3>3. merchantBalance \in Int /\ balance \in [Wallets -> Int]
        BY DEF PlanInv, AmountsOK
      <3>4. merchantBalance' \in Int
        BY <3>2, <3>3
      <3>5. \A b \in Wallets : balance[b] - x \in Int
        BY <3>3
      <3> QED
        BY <3>2, <3>3, <3>4, <3>5
    <2>3. AmountsOK'
      BY <1>2, <2>2 DEF PlanInv, AmountsOK, payments
    <2> DEFINE k == [work[w] EXCEPT !.pc = "broadcast", !.moved = TRUE]
    <2>4. work' = [work EXCEPT ![w] = k]
      BY <1>5
    <2>5. /\ DOMAIN k = DOMAIN Idle /\ k.pc = "broadcast" /\ k.wallet = l.wallet /\ k.kind = l.kind
          /\ k.queue = l.queue /\ k.sel = l.sel /\ k.pay = l.pay
      BY <1>1, <1>2 DEF JobOK, Idle
    <2> HIDE DEF k
    <2>6. JobOK(k)
      BY <1>1, <1>2, <2>5, JobMoves DEF Planned, Senders
    <2> QED
      BY <1>2, <1>3, <2>3, <2>4, <2>6, PlanMove DEF payments
  <1>6. \/ UNCHANGED ledger /\ Undo(w, merchantBalance < Charge(l))
        \/ /\ merchantBalance' = merchantBalance - Charge(l)
           /\ balance' = [balance EXCEPT ![l.wallet] = @ - l.sel.amount]
           /\ work' = [work EXCEPT ![w].pc = "broadcast", ![w].moved = TRUE]
    BY <1>1 DEF Decrement
  <1> QED
    BY <1>4, <1>5, <1>6

LEMMA PlanBroadcast ==
    ASSUME PlanInv, NEW w \in Workers, Broadcast(w)
    PROVE  PlanInv'
  <1>1. work[w].pc = "broadcast" /\ UNCHANGED <<payments, ledger, txs, signed>>
    BY DEF Broadcast, At
  <1>2. DOMAIN chain' = TxIds /\ \A t \in TxIds : DOMAIN chain'[t] = DOMAIN Unsent /\ chain'[t].outs = chain[t].outs
    <2>1. ASSUME NEW t, Accept(t)
          PROVE  DOMAIN chain' = TxIds /\ \A u \in TxIds : DOMAIN chain'[u] = DOMAIN Unsent /\ chain'[u].outs = chain[u].outs
      <3>1. chain' = [u \in TxIds |-> CASE u = t -> [chain[u] EXCEPT !.state = "pool"]
                                        [] u \in Rivals(t) -> [chain[u] EXCEPT !.state = "dropped"]
                                        [] OTHER -> chain[u]]
        BY <2>1 DEF Accept
      <3>2. ASSUME NEW u \in TxIds
            PROVE  chain'[u] = chain[u] \/ \E s : chain'[u] = [chain[u] EXCEPT !.state = s]
        <4>1. CASE u = t
          <5>1. chain'[u] = [chain[u] EXCEPT !.state = "pool"]
            BY <3>1, <4>1 DEF Rivals
          <5> QED
            BY <5>1
        <4>2. CASE u # t /\ u \in Rivals(t)
          <5>1. chain'[u] = [chain[u] EXCEPT !.state = "dropped"]
            BY <3>1, <4>2
          <5> QED
            BY <5>1
        <4>3. CASE u # t /\ u \notin Rivals(t)
          BY <3>1, <4>3
        <4> QED
          BY <4>1, <4>2, <4>3
      <3> QED
        BY <3>1, <3>2 DEF PlanInv, ShapesOK, Unsent
    <2>2. (\E t : Accept(t)) \/ UNCHANGED chain
      BY DEF Broadcast
    <2> QED
      BY <2>1, <2>2 DEF PlanInv, ShapesOK
  <1>3. Goto(w, "mark") \/ \E mark : Undo(w, mark)
    BY DEF Broadcast
  <1>4. \E l : work' = [work EXCEPT ![w] = l] /\ JobOK(l)
    <2>1. CASE Goto(w, "mark")
      BY <1>1, <2>1, PlanGoto DEF Planned, Senders
    <2> QED
      BY <1>1, <1>3, <2>1, PlanUndo
  <1>5. AmountsOK' /\ UNCHANGED <<pay, signed>>
    BY <1>1, SameAmounts DEF payments
  <1> QED
    BY <1>2, <1>4, <1>5, PlanMove


LEMMA PlanSetHash ==
    ASSUME PlanInv, NEW w \in Workers, SetHash(w)
    PROVE  PlanInv'
  <1>1. work[w].pc = "setHash" /\ JobOK(work[w]) /\ UNCHANGED <<payments, ledger, signed, chain>>
    BY DEF SetHash, PlanInv, At
  <1>2. AmountsOK'
    <2>1. PICK t : txs' = [txs EXCEPT ![t].hash = TRUE]
      BY DEF SetHash
    <2>2. DOMAIN txs' = TxIds /\ \A u \in TxIds : DOMAIN txs'[u] = DOMAIN NoRow /\ txs'[u].amount \in Nat /\ txs'[u].fee \in Nat
      BY <2>1 DEF PlanInv, AmountsOK, NoRow
    <2>3. \A u \in TxIds : txs'[u].status = "pending" => txs[u].status = "pending" /\ txs'[u].pay = txs[u].pay
      BY <2>1 DEF PlanInv, AmountsOK, NoRow
    <2> QED
      BY <1>1, <2>2, <2>3 DEF PlanInv, AmountsOK, payments, ledger
  <1>3. Goto(w, "done") \/ \E x : work' = [work EXCEPT ![w] = [work[w] EXCEPT !.pc = "nextSweep", !.swept = x]]
    <2>1. CASE work[w].kind = "pay"
      BY <2>1 DEF SetHash
    <2>2. CASE work[w].kind # "pay"
      <3>1. work' = [work EXCEPT ![w] = [work[w] EXCEPT !.pc = "nextSweep", !.swept = work[w].swept + work[w].sel.amount]]
        BY <2>2 DEF SetHash
      <3> QED
        BY <3>1
    <2> QED
      BY <2>1, <2>2
  <1>4. \E l : work' = [work EXCEPT ![w] = l] /\ JobOK(l)
    <2>1. CASE Goto(w, "done")
      BY <1>1, <2>1, PlanGoto DEF Planned, Senders
    <2>2. ASSUME NEW x, work' = [work EXCEPT ![w] = [work[w] EXCEPT !.pc = "nextSweep", !.swept = x]]
          PROVE  \E l : work' = [work EXCEPT ![w] = l] /\ JobOK(l)
      <3> DEFINE l == [work[w] EXCEPT !.pc = "nextSweep", !.swept = x]
      <3>1. /\ DOMAIN l = DOMAIN Idle /\ l.pc = "nextSweep" /\ l.wallet = work[w].wallet /\ l.kind = work[w].kind
            /\ l.queue = work[w].queue /\ l.sel = work[w].sel /\ l.pay = work[w].pay
        BY <1>1 DEF JobOK, Idle
      <3> HIDE DEF l
      <3>2. JobOK(l)
        BY <1>1, <3>1, JobMoves DEF Planned, Senders
      <3> QED
        BY <2>2, <3>2 DEF l
    <2> QED
      BY <1>3, <2>1, <2>2
  <1>5. DOMAIN chain' = TxIds /\ \A t \in TxIds : DOMAIN chain'[t] = DOMAIN Unsent /\ chain'[t].outs = chain[t].outs
    BY <1>1 DEF PlanInv, ShapesOK
  <1> QED
    BY <1>1, <1>2, <1>4, <1>5, PlanMove DEF payments

LEMMA PlanUndoTx ==
    ASSUME PlanInv, NEW w \in Workers, UndoTx(w)
    PROVE  PlanInv'
  <1>1. work[w].pc = "undoTx" /\ UNCHANGED <<payments, ledger, signed, chain>> /\ Goto(w, "undoBalances")
    BY DEF UndoTx, At
  <1>2. AmountsOK'
    <2>1. PICK t : txs' = [txs EXCEPT ![t].status = "canceled"] \/ txs' = txs
      BY DEF UndoTx
    <2>2. DOMAIN txs' = TxIds /\ \A u \in TxIds : DOMAIN txs'[u] = DOMAIN NoRow /\ txs'[u].amount \in Nat /\ txs'[u].fee \in Nat
      BY <2>1 DEF PlanInv, AmountsOK, NoRow
    <2>3. \A u \in TxIds : txs'[u].status = "pending" => txs[u].status = "pending" /\ txs'[u].pay = txs[u].pay
      BY <2>1 DEF PlanInv, AmountsOK, NoRow
    <2> QED
      BY <1>1, <2>2, <2>3 DEF PlanInv, AmountsOK, payments, ledger
  <1>3. \E l : work' = [work EXCEPT ![w] = l] /\ JobOK(l)
    BY <1>1, PlanGoto DEF Planned, Senders
  <1>4. DOMAIN chain' = TxIds /\ \A t \in TxIds : DOMAIN chain'[t] = DOMAIN Unsent /\ chain'[t].outs = chain[t].outs
    BY <1>1 DEF PlanInv, ShapesOK
  <1> QED
    BY <1>1, <1>2, <1>3, <1>4, PlanMove DEF payments

LEMMA PlanUndoBalances ==
    ASSUME PlanInv, NEW w \in Workers, UndoBalances(w)
    PROVE  PlanInv'
  <1>1. PICK l, p : /\ l = work[w] /\ l.pc = "undoBalances" /\ UNCHANGED <<payments, txs, signed, chain>>
                    /\ p \in {"nextSweep", "failPayment"} /\ Goto(w, p)
    BY DEF UndoBalances, At
  <1>2. JobOK(l)
    BY <1>1 DEF PlanInv
  <1>a. PICK x \in Int : x = l.sel.amount
    BY <1>2 DEF JobOK
  <1>b. PICK y \in Int : y = Charge(l)
    BY <1>2 DEF JobOK, Charge
  <1>3. AmountsOK'
    <2>1. PICK a : a = l.wallet
      OBVIOUS
    <2>2. /\ merchantBalance' = merchantBalance + (IF l.moved THEN y ELSE 0)
          /\ balance' = balance \/ balance' = [balance EXCEPT ![a] = @ + x]
      BY <1>1, <1>a, <1>b, <2>1 DEF UndoBalances
    <2>3. merchantBalance \in Int /\ balance \in [Wallets -> Int]
      BY DEF PlanInv, AmountsOK
    <2>4. merchantBalance' \in Int /\ \A b \in Wallets : balance[b] + x \in Int
      BY <2>2, <2>3
    <2>5. balance' \in [Wallets -> Int]
      BY <2>2, <2>3, <2>4
    <2> QED
      BY <1>1, <2>4, <2>5 DEF PlanInv, AmountsOK, payments
  <1>4. \E k : work' = [work EXCEPT ![w] = k] /\ JobOK(k)
    BY <1>1, PlanGoto DEF Planned, Senders
  <1>5. DOMAIN chain' = TxIds /\ \A t \in TxIds : DOMAIN chain'[t] = DOMAIN Unsent /\ chain'[t].outs = chain[t].outs
    BY <1>1 DEF PlanInv, ShapesOK
  <1> QED
    BY <1>1, <1>3, <1>4, <1>5, PlanMove DEF payments

\* The steps that change the program counter only, or end.
LEMMA PlanRest ==
    ASSUME PlanInv, NEW w \in Workers,
           MarkBroadcasted(w) \/ Unreserve(w) \/ Release(w) \/ Error(w) \/ Crash(w)
    PROVE  PlanInv'
  <1>1. UNCHANGED <<payments, ledger, txs, signed, chain>>
    BY DEF MarkBroadcasted, Unreserve, Release, Error, Crash
  <1>2. \E l : work' = [work EXCEPT ![w] = l] /\ JobOK(l)
    <2>1. CASE MarkBroadcasted(w)
      BY <2>1, PlanGoto DEF MarkBroadcasted, At, Planned, Senders
    <2>2. CASE Unreserve(w) \/ Release(w)
      BY <2>2, PlanGoto DEF Unreserve, Release, At, Planned, Senders
    <2>3. CASE Crash(w)
      BY <2>3, PlanEnd DEF Crash
    <2>4. CASE Error(w)
      <3>1. \/ work[w].pc # "idle" /\ Undo(w, FALSE)
            \/ work[w].pc # "idle" /\ Goto(w, "unreserve")
            \/ work[w].pc # "idle" /\ Goto(w, "undoTx")
        BY <2>4 DEF Error, At
      <3>2. CASE work[w].pc # "idle" /\ Undo(w, FALSE)
        <4>1. PICK mark : mark = FALSE
          OBVIOUS
        <4> QED
          BY <3>2, <4>1, PlanUndo
      <3>3. CASE work[w].pc # "idle" /\ Goto(w, "unreserve")
        BY <3>3, PlanGoto DEF Planned, Senders
      <3>4. CASE work[w].pc # "idle" /\ Goto(w, "undoTx")
        BY <3>4, PlanGoto DEF Planned, Senders
      <3> QED
        BY <3>1, <3>2, <3>3, <3>4
    <2> QED
      BY <2>1, <2>2, <2>3, <2>4
  <1> QED
    BY <1>1, <1>2, PlanLocal

\* A withdrawal is in progress, or failed.
LEMMA PlanFinish ==
    ASSUME PlanInv, NEW w \in Workers, MarkInProgress(w) \/ FailPayment(w)
    PROVE  PlanInv'
  <1>1. End(w) /\ UNCHANGED <<price, ledger, txs, signed, chain>> /\ work[w].pc # "idle"
    BY DEF MarkInProgress, FailPayment, At
  <1>2. PICK p, s : p = work[w].pay /\ s # "none" /\ (pay' = [pay EXCEPT ![p] = s] \/ pay' = pay)
    BY DEF MarkInProgress, FailPayment
  <1>3. pay[p] # "none" /\ p \in Withdrawals
    BY <1>1, <1>2 DEF PlanInv, JobOK
  <1>4. AmountsOK' /\ Grows
    BY <1>1, <1>2, <1>3 DEF PlanInv, AmountsOK, Grows, ledger
  <1>5. work'[w] = Idle /\ ShapesOK' /\ \A v \in Workers : v # w => work'[v] = work[v]
    BY <1>1 DEF PlanInv, ShapesOK, End
  <1>6. \A t \in TxIds : OutputsOK(t)'
    BY <1>1 DEF PlanInv, OutputsOK
  <1>7. JobOK(work[w])'
    BY <1>5 DEF JobOK, Idle, NoSelection, Senders, Planned
  <1> QED
    BY <1>4, <1>5, <1>6, <1>7, PlanPreserve

-----------------------------------------------------------------------------
(* The steps of the API, the chain and the checks *)

\* No goroutine moves.
LEMMA PlanStays ==
    ASSUME PlanInv, UNCHANGED work, UNCHANGED signed, AmountsOK', DOMAIN chain' = TxIds,
           \A t \in TxIds : DOMAIN chain'[t] = DOMAIN Unsent /\ chain'[t].outs = chain[t].outs,
           \A p \in Withdrawals : pay[p] # "none" => pay'[p] # "none"
    PROVE  PlanInv'
  <1>1. ShapesOK' /\ \A t \in TxIds : OutputsOK(t)'
    BY DEF PlanInv, ShapesOK, OutputsOK
  <1>2. ASSUME NEW a PROVE Holder(a)' = Holder(a)
    BY DEF Holder, Made
  <1>3. ASSUME NEW v \in Workers PROVE JobOK(work[v])'
    <2>1. PICK l : l = work[v] /\ l = work'[v]
      OBVIOUS
    <2>2. JobOK(l) /\ Holder(l.wallet)' = Holder(l.wallet)
      BY <1>2, <2>1 DEF PlanInv
    <2>3. JobOK(l)'
      BY <2>2 DEF JobOK
    <2> QED
      BY <2>1, <2>3
  <1> QED
    BY <1>1, <1>3 DEF PlanInv

LEMMA PlanCreateWithdrawal ==
    ASSUME PlanInv, NEW p \in Withdrawals, CreateWithdrawal(p)
    PROVE  PlanInv'
  <1>1. PICK amount \in Amounts : amount >= Dust /\ price' = [price EXCEPT ![p] = amount]
    BY DEF CreateWithdrawal
  <1>2. pay' = [pay EXCEPT ![p] = "pending"] /\ UNCHANGED <<ledger, txs, signed, chain, work>> /\ amount \in Nat
    BY AmountsAssumption DEF CreateWithdrawal
  <1>3. AmountsOK'
    BY <1>1, <1>2 DEF PlanInv, AmountsOK, ledger
  <1>4. \A q \in Withdrawals : pay[q] # "none" => pay'[q] # "none"
    BY <1>2 DEF PlanInv, AmountsOK
  <1>5. DOMAIN chain' = TxIds /\ \A t \in TxIds : DOMAIN chain'[t] = DOMAIN Unsent /\ chain'[t].outs = chain[t].outs
    BY <1>2 DEF PlanInv, ShapesOK
  <1> QED
    BY <1>2, <1>3, <1>4, <1>5, PlanStays

LEMMA PlanMine ==
    ASSUME PlanInv, NEW t \in TxIds, Mine(t)
    PROVE  PlanInv'
  <1>1. chain' = [chain EXCEPT ![t].state = "mined"] /\ UNCHANGED <<payments, ledger, txs, signed, work>>
    BY DEF Mine
  <1>2. DOMAIN chain' = TxIds /\ \A u \in TxIds : DOMAIN chain'[u] = DOMAIN Unsent /\ chain'[u].outs = chain[u].outs
    BY <1>1 DEF PlanInv, ShapesOK, Unsent
  <1>3. AmountsOK' /\ \A p \in Withdrawals : pay[p] # "none" => pay'[p] # "none"
    BY <1>1, SameAmounts DEF payments
  <1> QED
    BY <1>1, <1>2, <1>3, PlanStays

LEMMA PlanSettle ==
    ASSUME PlanInv, NEW t \in TxIds, Settle(t)
    PROVE  PlanInv'
  <1>1. PICK r : r = txs[t]
    OBVIOUS
  <1>2. /\ UNCHANGED <<price, merchantBalance, signed, chain, work>>
        /\ txs' = [txs EXCEPT ![t].status = "completed"]
        /\ pay' = pay \/ pay' = [pay EXCEPT ![r.pay] = "success"]
        /\ r.pay \in Withdrawals /\ pay[r.pay] # "none"
    BY <1>1 DEF Settle, PlanInv, AmountsOK
  <1>3. PICK fee \in Int : fee = r.fee
    BY <1>1 DEF PlanInv, AmountsOK
  <1>4. PICK amount \in Int : amount = r.amount
    BY <1>1 DEF PlanInv, AmountsOK
  <1>5. PICK from : from = [balance EXCEPT ![r.wallet] = @ - fee]
    OBVIOUS
  <1>6. balance' = from \/ balance' = [from EXCEPT ![Outbound] = @ + amount]
    BY <1>1, <1>3, <1>4, <1>5 DEF Settle
  <1>7. balance' \in [Wallets -> Int]
    <2>1. balance \in [Wallets -> Int] /\ \A a \in Wallets : balance[a] - fee \in Int
      BY DEF PlanInv, AmountsOK
    <2>2. from \in [Wallets -> Int]
      BY <1>5, <2>1
    <2>3. \A a \in Wallets : from[a] + amount \in Int
      BY <2>2
    <2> QED
      BY <1>6, <2>2, <2>3
  <1>8. DOMAIN txs' = TxIds /\ \A u \in TxIds : DOMAIN txs'[u] = DOMAIN NoRow /\ txs'[u].amount \in Nat /\ txs'[u].fee \in Nat
    BY <1>2 DEF PlanInv, AmountsOK, NoRow
  <1>9. DOMAIN pay' = Withdrawals /\ \A p \in Withdrawals : (pay[p] # "none" <=> pay'[p] # "none")
    BY <1>2 DEF PlanInv, AmountsOK
  <1>a. \A u \in TxIds : txs'[u].status = "pending" => txs[u].status = "pending" /\ txs'[u].pay = txs[u].pay
    BY <1>2 DEF PlanInv, AmountsOK, NoRow
  <1>10. AmountsOK'
    BY <1>2, <1>7, <1>8, <1>9, <1>a DEF PlanInv, AmountsOK
  <1>11. DOMAIN chain' = TxIds /\ \A u \in TxIds : DOMAIN chain'[u] = DOMAIN Unsent /\ chain'[u].outs = chain[u].outs
    BY <1>2 DEF PlanInv, ShapesOK
  <1> QED
    BY <1>2, <1>9, <1>10, <1>11, PlanStays


-----------------------------------------------------------------------------
LEMMA PlanInit == Init => PlanInv
  <1> SUFFICES ASSUME Init PROVE PlanInv
    OBVIOUS
  <1>1. balance \in [Wallets -> Int]
    <2>1. ASSUME NEW a \in Wallets PROVE Value({o \in Coins : o.wallet = a}) \in Int
      <3>1. PICK S : S = {o \in Coins : o.wallet = a}
        OBVIOUS
      <3>2. IsFiniteSet(S)
        BY <3>1, AmountsAssumption, FS_Subset
      <3>3. [o \in S |-> o.sats] \in [S -> Int]
        BY <3>1
      <3>4. Total([o \in S |-> o.sats]) \in Int
        BY <3>2, <3>3, TotalType
      <3> QED
        BY <3>1, <3>4 DEF Value
    <2> QED
      BY <2>1 DEF Init
  <1>2. AmountsOK
    <2>1. merchantBalance \in Int
      BY AmountsAssumption DEF Init
    <2> QED
      BY <1>1, <2>1 DEF Init, AmountsOK, NoRow
  <1>3. ShapesOK
    BY DEF Init, ShapesOK
  <1>4. \A t \in TxIds : OutputsOK(t)
    BY FS_EmptySet DEF Init, OutputsOK, Unsent, Named
  <1>5. \A w \in Workers : JobOK(work[w])
    <2>1. JobOK(Idle)
      BY DEF JobOK, Idle, NoSelection, Senders, Planned
    <2> QED
      BY <2>1 DEF Init
  <1> QED
    BY <1>2, <1>3, <1>4, <1>5 DEF PlanInv

LEMMA PlanNext == PlanInv /\ [Next]_vars => PlanInv'
  <1> SUFFICES ASSUME PlanInv, [Next]_vars PROVE PlanInv'
    OBVIOUS
  <1>1. CASE UNCHANGED vars
    <2>1. UNCHANGED <<payments, ledger, txs, signed, chain, work>>
      BY <1>1 DEF vars, payments, ledger
    <2>2. DOMAIN chain' = TxIds /\ \A t \in TxIds : DOMAIN chain'[t] = DOMAIN Unsent /\ chain'[t].outs = chain[t].outs
      BY <2>1 DEF PlanInv, ShapesOK
    <2> QED
      BY <2>1, <2>2, SameAmounts, PlanStays DEF payments
  <1>2. ASSUME NEW p \in Withdrawals, CreateWithdrawal(p) PROVE PlanInv'
    BY <1>2, PlanCreateWithdrawal
  <1>3. ASSUME NEW w \in Workers, NEW p \in Withdrawals, StartWithdrawal(w, p) PROVE PlanInv'
    BY <1>3, PlanStart
  <1>4. ASSUME NEW w \in Workers, Step(w) PROVE PlanInv'
    BY <1>4, PlanResolve, PlanNextSweep, PlanCheckBalances, PlanPlan, PlanReserve, PlanSign, PlanCreateTx,
       PlanDecrement, PlanBroadcast, PlanSetHash, PlanUndoTx, PlanUndoBalances, PlanRest, PlanFinish DEF Step
  <1>5. ASSUME NEW w \in Workers, Error(w) \/ Crash(w) PROVE PlanInv'
    BY <1>5, PlanRest
  <1>6. ASSUME NEW t \in TxIds, Mine(t) \/ Settle(t) PROVE PlanInv'
    BY <1>6, PlanMine, PlanSettle
  <1>7. ASSUME NEW o, Expire(o) PROVE PlanInv'
    <2>1. UNCHANGED <<payments, ledger, txs, signed, chain, work>>
      BY <1>7 DEF Expire
    <2>2. DOMAIN chain' = TxIds /\ \A t \in TxIds : DOMAIN chain'[t] = DOMAIN Unsent /\ chain'[t].outs = chain[t].outs
      BY <2>1 DEF PlanInv, ShapesOK
    <2> QED
      BY <2>1, <2>2, SameAmounts, PlanStays DEF payments
  <1> QED
    BY <1>1, <1>2, <1>3, <1>4, <1>5, <1>6, <1>7 DEF Next

\* What every plan rests on holds in every reachable state.
THEOREM PlansInvariant == Spec => []PlanInv
  BY PlanInit, PlanNext, PTL DEF Spec

\* Every plan that selectBitcoinUTXOs or selectBitcoinSweepUTXOs makes is exact and is
\* one that the KMS signs, whatever the explorer listed, for all rates and amounts,
\* and whatever fails, crashes, expires or is lost.
THEOREM EveryPlanIsSound == Spec => []PlansAreSound
  <1>1. PlanInv => PlansAreSound
    <2> SUFFICES ASSUME PlanInv, NEW w \in Workers, At(w, "reserve")
                 PROVE  KmsAccepts(work[w].sel) /\ SoundSelection(work[w].sel, Holder(work[w].wallet), work[w].rate)
      BY DEF PlansAreSound, Holder
    <2>1. GoodPlan(work[w].sel, Holder(work[w].wallet), work[w].rate)
      BY DEF PlanInv, JobOK, At, Planned
    <2> QED
      BY <2>1 DEF GoodPlan
  <1> QED
    BY <1>1, PlansInvariant, PTL


-----------------------------------------------------------------------------
(* The limit of a wallet is the largest amount that has a plan.  What an   *)
(* amount costs never falls as the amount grows, although it jumps where   *)
(* one more output is needed or the change becomes dust; so the amounts    *)
(* that can be paid are those up to some m, and the binary search finds m. *)

LEMMA FeeGrows ==
    ASSUME NEW n \in Nat, NEW m \in Nat, n <= m, NEW i \in Nat, NEW j \in Nat, i <= j, NEW rate \in Nat \ {0}
    PROVE  FeeFor(n, i, rate) <= FeeFor(m, j, rate)
  <1> DEFINE V(k, l) == TxSize + InputSize * k + OutputSize * l
  <1>1. PICK A \in Nat, B \in Nat, C \in Nat : A = TxSize /\ B = InputSize /\ C = OutputSize
    BY CoinSelectionAssumption
  <1>2. B * n \in Nat /\ B * m \in Nat /\ C * i \in Nat /\ C * j \in Nat
    OBVIOUS
  <1>3. B * n <= B * m
    OBVIOUS
  <1>4. C * i <= C * j
    OBVIOUS
  <1>5. PICK v \in Nat, u \in Nat : v = V(n, i) /\ u = V(m, j) /\ v <= u
    BY <1>1, <1>2, <1>3, <1>4
  <1>6. v * rate \in Nat /\ u * rate \in Nat /\ v * rate <= u * rate
    BY <1>5
  <1>7. PICK x \in Nat, y \in Nat : x = v * rate /\ y = u * rate /\ x <= y
    BY <1>6
  <1>8. PICK R \in Nat \ {0} : R = RateUnit
    BY CoinSelectionAssumption
  <1>9. (x + R - 1) \div R <= (y + R - 1) \div R
    BY <1>7
  <1> QED
    BY <1>5, <1>7, <1>8, <1>9 DEF FeeFor, utxoFeeSats, estimateBitcoinP2WPKHVSize

LEMMA TotalsRise ==
    ASSUME NEW U, \A o \in U : o.sats \in Nat, NEW s \in Seq(U), NEW m \in 0..Len(s), NEW n \in 0..Len(s), m <= n
    PROVE  Totals(s)[m] <= Totals(s)[n]
  <1> DEFINE S == {k \in Nat : m + k <= Len(s) => Totals(s)[m] <= Totals(s)[m + k]}
  <1>0. Len(s) \in Nat /\ m \in Nat
    OBVIOUS
  <1>1. 0 \in S
    <2>1. Totals(s)[m] \in Nat
      BY TotalsFacts
    <2> QED
      BY <1>0, <2>1
  <1>2. ASSUME NEW k \in Nat, k \in S PROVE k + 1 \in S
    <2> SUFFICES ASSUME m + (k + 1) <= Len(s) PROVE Totals(s)[m] <= Totals(s)[m + (k + 1)]
      OBVIOUS
    <2>1. PICK j \in 1..Len(s) : j = m + (k + 1) /\ j - 1 = m + k
      BY <1>0
    <2>2. Totals(s)[m] <= Totals(s)[j - 1]
      BY <1>0, <1>2, <2>1
    <2>3. Totals(s)[j] = Totals(s)[j - 1] + s[j].sats
      BY <2>1, TotalsGrow
    <2>4. Totals(s)[m] \in Nat
      BY TotalsFacts
    <2>5. Totals(s)[j - 1] \in Nat
      <3>1. j - 1 \in 0..Len(s)
        BY <1>0, <2>1
      <3> QED
        BY <3>1, TotalsFacts
    <2>6. s[j].sats \in Nat
      BY <2>1
    <2> QED
      BY <2>1, <2>2, <2>3, <2>4, <2>5, <2>6
  <1> HIDE DEF S
  <1>3. \A k \in Nat : k \in S
    BY <1>1, <1>2, Induction
  <1>4. n - m \in Nat /\ m + (n - m) = n
    BY <1>0
  <1>5. n - m \in S
    BY <1>3, <1>4
  <1> QED
    BY <1>0, <1>4, <1>5 DEF S

\* What the plan with the first n outputs costs.
Cost(utxos, amount, rate, n) ==
    IF Totals(utxos)[n] - amount - FeeFor(n, 2, rate) >= Dust THEN amount + FeeFor(n, 2, rate)
    ELSE Totals(utxos)[n]
Payable(utxos, amount, rate, M) ==
    \E n \in Enough(utxos, amount, rate) :
        (\A k \in Enough(utxos, amount, rate) : n <= k) /\ Cost(utxos, amount, rate, n) <= M

LEMMA AffordableForm ==
    ASSUME NEW U, \A o \in U : o.sats \in Nat, NEW utxos \in Seq(U), NEW amount \in Nat, NEW M \in Int, NEW rate \in Nat \ {0}
    PROVE  Affordable(utxos, amount, M, rate) <=> Payable(utxos, amount, rate, M)
  <1>1. PICK s : s = selectBitcoinUTXOs(utxos, amount, rate)
    OBVIOUS
  <1>2. Affordable(utxos, amount, M, rate) <=> s.inputs # <<>> /\ amount + s.fee <= M
    BY <1>1 DEF Affordable
  <1>3. Len(utxos) \in Nat
    OBVIOUS
  <1>4. CASE Enough(utxos, amount, rate) = {}
    <2>1. s = NoSelection
      BY <1>1, <1>3, <1>4, SelectForm
    <2> QED
      BY <1>2, <1>4, <2>1 DEF NoSelection, Payable
  <1>5. CASE Enough(utxos, amount, rate) # {}
    <2>1. PICK n \in Enough(utxos, amount, rate) :
             /\ \A m \in Enough(utxos, amount, rate) : n <= m
             /\ PlanOf(utxos, amount, rate, n, Totals(utxos)[n], s)
      BY <1>1, <1>3, <1>5, SelectForm
    <2>2. n \in 1..Len(utxos)
      BY DEF Enough
    <2>3. PICK total \in Nat : total = Totals(utxos)[n]
      <3>1. n \in 0..Len(utxos)
        BY <2>2
      <3> QED
        BY <3>1, TotalsFacts
    <2>4. PICK two \in Nat : two = FeeFor(n, 2, rate)
      <3>1. n \in Nat /\ 2 \in Nat
        BY <2>2
      <3> QED
        BY <3>1, FeeIsPositive
    <2>5. s.inputs # <<>>
      <3>1. s.inputs = SubSeq(utxos, 1, n)
        BY <2>1 DEF PlanOf
      <3>2. Len(SubSeq(utxos, 1, n)) = n /\ n # 0
        BY <2>2
      <3>3. Len(<<>>) = 0
        OBVIOUS
      <3> QED
        BY <3>1, <3>2, <3>3, Zenon
    <2>6. amount + s.fee = Cost(utxos, amount, rate, n)
      <3>1. s.fee = IF total - amount - two >= Dust THEN two ELSE total - amount
        BY <2>1, <2>3, <2>4 DEF PlanOf
      <3>2. Cost(utxos, amount, rate, n) = IF total - amount - two >= Dust THEN amount + two ELSE total
        BY <2>3, <2>4 DEF Cost
      <3>3. amount + (total - amount) = total
        OBVIOUS
      <3> QED
        BY <3>1, <3>2, <3>3
    <2>7. \A m \in Enough(utxos, amount, rate) : (\A k \in Enough(utxos, amount, rate) : m <= k) => m = n
      <3>1. \A m \in Enough(utxos, amount, rate) : m \in Nat
        BY DEF Enough
      <3> QED
        BY <2>1, <3>1
    <2> QED
      BY <1>2, <2>1, <2>5, <2>6, <2>7 DEF Payable
  <1> QED
    BY <1>4, <1>5

\* A smaller amount costs no more.
LEMMA CostRises ==
    ASSUME NEW U, \A o \in U : o.sats \in Nat, NEW utxos \in Seq(U), NEW M \in Int, NEW rate \in Nat \ {0},
           NEW less \in Nat, NEW more \in Nat, less <= more, Payable(utxos, more, rate, M)
    PROVE  Payable(utxos, less, rate, M)
  <1>0. Len(utxos) \in Nat /\ Dust \in Nat
    BY CoinSelectionAssumption
  <1>1. PICK n \in Enough(utxos, more, rate) : (\A k \in Enough(utxos, more, rate) : n <= k) /\ Cost(utxos, more, rate, n) <= M
    BY DEF Payable
  <1>2. ASSUME NEW k \in 1..Len(utxos) PROVE Totals(utxos)[k] \in Nat /\ FeeFor(k, 1, rate) \in Nat /\ FeeFor(k, 2, rate) \in Nat
    <2>1. k \in Nat /\ 1 \in Nat /\ 2 \in Nat /\ k \in 0..Len(utxos)
      BY <1>0
    <2>2. FeeFor(k, 1, rate) \in Nat
      BY <2>1, FeeIsPositive
    <2>3. FeeFor(k, 2, rate) \in Nat
      BY <2>1, FeeIsPositive
    <2> QED
      BY <2>1, <2>2, <2>3, TotalsFacts
  <1>3. n \in 1..Len(utxos) /\ Pays(utxos, more, rate, n)
    BY DEF Enough
  <1>4. n \in Enough(utxos, less, rate)
    BY <1>0, <1>2, <1>3, SMTT(30) DEF Enough, Pays
  <1>5. PICK m \in Enough(utxos, less, rate) : \A k \in Enough(utxos, less, rate) : m <= k
    <2>1. Enough(utxos, less, rate) \subseteq Nat
      BY DEF Enough
    <2> QED
      BY <1>4, <2>1, Least
  <1>6. m \in 1..Len(utxos) /\ Pays(utxos, less, rate, m) /\ m <= n
    BY <1>4, <1>5 DEF Enough
  <1>7. PICK tm \in Nat, fm \in Nat, gm \in Nat : tm = Totals(utxos)[m] /\ fm = FeeFor(m, 1, rate) /\ gm = FeeFor(m, 2, rate)
    BY <1>2, <1>6
  <1>8. PICK tn \in Nat, fn \in Nat, gn \in Nat : tn = Totals(utxos)[n] /\ fn = FeeFor(n, 1, rate) /\ gn = FeeFor(n, 2, rate)
    BY <1>2, <1>3
  <1>9. tm <= tn
    <2>1. m \in 0..Len(utxos) /\ n \in 0..Len(utxos)
      BY <1>0, <1>3, <1>6
    <2> QED
      BY <1>6, <1>7, <1>8, <2>1, TotalsRise
  <1>10. fm <= gn
    <2>1. m \in Nat /\ n \in Nat /\ 1 \in Nat /\ 2 \in Nat /\ 1 <= 2
      BY <1>3, <1>6
    <2> QED
      BY <1>6, <1>7, <1>8, <2>1, FeeGrows
  <1>11. PICK cn \in Int : cn = IF tn - more - gn >= Dust THEN more + gn ELSE tn
    OBVIOUS
  <1>12. cn <= M
    BY <1>1, <1>8, <1>11 DEF Cost
  <1>13. PICK cm \in Int : cm = IF tm - less - gm >= Dust THEN less + gm ELSE tm
    OBVIOUS
  <1>14. cm = Cost(utxos, less, rate, m)
    BY <1>7, <1>13 DEF Cost
  <1>15. tm - less - gm >= Dust \/ tm - less >= fm
    BY <1>6, <1>7 DEF Pays
  <1>16. cm <= cn
    <2>1. CASE m = n
      <3>1. tm = tn /\ gm = gn
        BY <1>7, <1>8, <2>1
      <3> QED
        BY <1>0, <1>11, <1>13, <3>1
    <2>2. CASE m # n
      <3>1. m \notin Enough(utxos, more, rate)
        BY <1>1, <1>3, <1>6, <2>2
      <3>2. ~(tm - more >= fm)
        BY <1>6, <1>7, <3>1 DEF Enough, Pays
      <3>3. cm <= tm
        BY <1>0, <1>13
      <3> QED
        BY <1>9, <1>10, <1>11, <3>2, <3>3
    <2> QED
      BY <2>1, <2>2
  <1>17. Cost(utxos, less, rate, m) <= M
    BY <1>12, <1>14, <1>16
  <1> QED
    BY <1>5, <1>17 DEF Payable


-----------------------------------------------------------------------------
(* The binary search *)

SearchDomain(M) == (Dust..(M + 1)) \X ((Dust - 1)..M)
Middle(low, high) == low + (high - low) \div 2
SearchStep(utxos, M, rate, f) ==
    [r \in SearchDomain(M) |->
        LET c == r[1] + (r[2] - r[1]) \div 2 IN
        IF r[1] > r[2] THEN 0
        ELSE IF Affordable(utxos, c, M, rate)
             THEN Max({c, f[<<c + 1, r[2]>>]})
             ELSE f[<<r[1], c - 1>>]]
Search(utxos, M, rate) == CHOOSE f : f = SearchStep(utxos, M, rate, f)

\* The amounts that can be paid are those up to m.
PlansUpTo(utxos, M, rate, m) ==
    m \in (Dust - 1)..M /\ \A c \in Dust..M : Affordable(utxos, c, M, rate) <=> c <= m

\* What the search between low and high finds then.
Found(low, high, m) ==
    IF m < high THEN (IF low > m THEN 0 ELSE m) ELSE (IF low > high THEN 0 ELSE high)

LEMMA LimitForm ==
    ASSUME NEW utxos, NEW M, NEW rate
    PROVE  maxBitcoinTransactionAmountAndFeeFromUTXOs(utxos, M, rate) =
             LET amount == IF M < Dust THEN 0 ELSE Search(utxos, M, rate)[<<Dust, M>>]
             IN  IF amount < Dust THEN NoLimit
                 ELSE [amount |-> amount, fee |-> selectBitcoinUTXOs(utxos, amount, rate).fee]
  BY DEF maxBitcoinTransactionAmountAndFeeFromUTXOs, Search, SearchStep, SearchDomain

LEMMA MiddleFacts ==
    ASSUME NEW low \in Int, NEW high \in Int, low <= high
    PROVE  Middle(low, high) \in Int /\ low <= Middle(low, high) /\ Middle(low, high) <= high
  <1>1. PICK d \in Nat : d = high - low
    OBVIOUS
  <1>2. d \div 2 \in Nat /\ d \div 2 <= d
    OBVIOUS
  <1> QED
    BY <1>1, <1>2 DEF Middle

\* One round of the search is right if the next is.
LEMMA SearchOnce ==
    ASSUME NEW utxos, NEW M \in Int, NEW rate, NEW m, PlansUpTo(utxos, M, rate, m),
           NEW low \in Dust..(M + 1), NEW high \in (Dust - 1)..M, NEW f,
           low <= high => /\ f[<<Middle(low, high) + 1, high>>] = Found(Middle(low, high) + 1, high, m)
                          /\ f[<<low, Middle(low, high) - 1>>] = Found(low, Middle(low, high) - 1, m)
    PROVE  SearchStep(utxos, M, rate, f)[<<low, high>>] = Found(low, high, m)
  <1>0. Dust \in Nat \ {0} /\ m \in Int /\ m >= Dust - 1
    BY CoinSelectionAssumption DEF PlansUpTo
  <1>1. low \in Int /\ high \in Int /\ <<low, high>> \in SearchDomain(M) /\ low >= Dust /\ high <= M
    BY <1>0 DEF SearchDomain
  <1>2. SearchStep(utxos, M, rate, f)[<<low, high>>] =
          IF low > high THEN 0
          ELSE IF Affordable(utxos, Middle(low, high), M, rate)
               THEN Max({Middle(low, high), f[<<Middle(low, high) + 1, high>>]})
               ELSE f[<<low, Middle(low, high) - 1>>]
    BY <1>1 DEF SearchStep, Middle
  <1>3. CASE low > high
    BY <1>0, <1>1, <1>2, <1>3 DEF Found
  <1>4. CASE low <= high
    <2>1. PICK c \in Int : c = Middle(low, high) /\ low <= c /\ c <= high
      BY <1>1, <1>4, MiddleFacts
    <2>2. Affordable(utxos, c, M, rate) <=> c <= m
      BY <1>0, <1>1, <2>1 DEF PlansUpTo
    <2>3. ~(low > high)
      BY <1>1, <1>4
    <2>4. CASE c <= m
      <3>1. PICK v \in Int : v = Found(c + 1, high, m)
        BY <1>0, <1>1 DEF Found
      <3>2. SearchStep(utxos, M, rate, f)[<<low, high>>] = Max({c, v})
        BY <1>2, <1>4, <2>1, <2>2, <2>3, <2>4, <3>1
      <3>3. Max({c, v}) = IF c >= v THEN c ELSE v
        BY MaxOfTwo
      <3>4. (IF c >= v THEN c ELSE v) = Found(low, high, m)
        BY <1>0, <1>1, <2>1, <2>4, <3>1 DEF Found
      <3> QED
        BY <3>2, <3>3, <3>4
    <2>5. CASE ~(c <= m)
      <3>1. SearchStep(utxos, M, rate, f)[<<low, high>>] = Found(low, c - 1, m)
        BY <1>2, <1>4, <2>1, <2>2, <2>3, <2>5
      <3>2. Found(low, c - 1, m) = Found(low, high, m)
        BY <1>0, <1>1, <2>1, <2>5 DEF Found
      <3> QED
        BY <3>1, <3>2
    <2> QED
      BY <2>4, <2>5
  <1> QED
    BY <1>1, <1>3, <1>4

\* There is such a search.
LEMMA SearchExists ==
    ASSUME NEW utxos, NEW M \in Int, NEW rate, NEW m, PlansUpTo(utxos, M, rate, m)
    PROVE  Search(utxos, M, rate) = SearchStep(utxos, M, rate, Search(utxos, M, rate))
  <1>1. PICK g : g = [r \in SearchDomain(M) |-> Found(r[1], r[2], m)]
    OBVIOUS
  <1>0. Dust \in Nat \ {0}
    BY CoinSelectionAssumption
  <1>2. ASSUME NEW low \in Dust..(M + 1), NEW high \in (Dust - 1)..M
        PROVE  SearchStep(utxos, M, rate, g)[<<low, high>>] = Found(low, high, m)
    <2>1. ASSUME NEW i \in Dust..(M + 1), NEW j \in (Dust - 1)..M PROVE g[<<i, j>>] = Found(i, j, m)
      BY <1>1 DEF SearchDomain
    <2>2. ASSUME low <= high
          PROVE  /\ g[<<Middle(low, high) + 1, high>>] = Found(Middle(low, high) + 1, high, m)
                 /\ g[<<low, Middle(low, high) - 1>>] = Found(low, Middle(low, high) - 1, m)
      <3>a. low \in Int /\ high \in Int
        BY <1>0
      <3>1. PICK c \in Int : c = Middle(low, high) /\ low <= c /\ c <= high
        BY <2>2, <3>a, MiddleFacts
      <3>2. c + 1 \in Dust..(M + 1) /\ c - 1 \in (Dust - 1)..M
        BY <1>0, <3>1
      <3> QED
        BY <2>1, <3>1, <3>2
    <2> QED
      BY <2>2, SearchOnce
  <1>3. ASSUME NEW r \in SearchDomain(M) PROVE g[r] = SearchStep(utxos, M, rate, g)[r]
    <2>1. PICK low \in Dust..(M + 1), high \in (Dust - 1)..M : r = <<low, high>>
      BY DEF SearchDomain
    <2>2. g[r] = Found(low, high, m)
      BY <1>1, <2>1
    <2> QED
      BY <1>2, <2>1, <2>2
  <1>4. PICK h : h = SearchStep(utxos, M, rate, g)
    OBVIOUS
  <1>5. h = [r \in SearchDomain(M) |-> h[r]]
    BY <1>4 DEF SearchStep
  <1>6. g = h
    BY <1>1, <1>3, <1>4, <1>5
  <1>7. \E f : f = SearchStep(utxos, M, rate, f)
    BY <1>4, <1>6
  <1> QED
    BY <1>7, Zenon DEF Search

LEMMA SearchFacts ==
    ASSUME NEW utxos, NEW M \in Int, NEW rate, NEW m, PlansUpTo(utxos, M, rate, m),
           NEW low \in Dust..(M + 1), NEW high \in (Dust - 1)..M
    PROVE  Search(utxos, M, rate)[<<low, high>>] = Found(low, high, m)
  <1>1. PICK f : f = Search(utxos, M, rate)
    OBVIOUS
  <1>2. f = SearchStep(utxos, M, rate, f)
    BY <1>1, SearchExists
  <1> DEFINE S == {n \in Nat : \A i \in Dust..(M + 1), j \in (Dust - 1)..M : j - i < n => f[<<i, j>>] = Found(i, j, m)}
  <1>3. Dust \in Nat \ {0}
    BY CoinSelectionAssumption
  <1>4. 0 \in S
    <2> SUFFICES ASSUME NEW i \in Dust..(M + 1), NEW j \in (Dust - 1)..M, j - i < 0 PROVE f[<<i, j>>] = Found(i, j, m)
      OBVIOUS
    <2>1. i \in Int /\ j \in Int /\ ~(i <= j)
      BY <1>3
    <2>a. i <= j => /\ f[<<Middle(i, j) + 1, j>>] = Found(Middle(i, j) + 1, j, m)
                    /\ f[<<i, Middle(i, j) - 1>>] = Found(i, Middle(i, j) - 1, m)
      BY <2>1, Zenon
    <2>2. SearchStep(utxos, M, rate, f)[<<i, j>>] = Found(i, j, m)
      BY <2>a, SearchOnce
    <2> QED
      BY <1>2, <2>2
  <1>5. ASSUME NEW n \in Nat, n \in S PROVE n + 1 \in S
    <2> SUFFICES ASSUME NEW i \in Dust..(M + 1), NEW j \in (Dust - 1)..M, j - i < n + 1 PROVE f[<<i, j>>] = Found(i, j, m)
      OBVIOUS
    <2>1. ASSUME i <= j
          PROVE  /\ f[<<Middle(i, j) + 1, j>>] = Found(Middle(i, j) + 1, j, m)
                 /\ f[<<i, Middle(i, j) - 1>>] = Found(i, Middle(i, j) - 1, m)
      <3>a. i \in Int /\ j \in Int
        BY <1>3
      <3>1. PICK c \in Int : c = Middle(i, j) /\ i <= c /\ c <= j
        BY <2>1, <3>a, MiddleFacts
      <3>2. c + 1 \in Dust..(M + 1) /\ c - 1 \in (Dust - 1)..M /\ j - (c + 1) < n /\ (c - 1) - i < n
        BY <1>3, <3>1
      <3>3. f[<<c + 1, j>>] = Found(c + 1, j, m) /\ f[<<i, c - 1>>] = Found(i, c - 1, m)
        BY <1>5, <3>2
      <3> QED
        BY <3>1, <3>3
    <2>2. SearchStep(utxos, M, rate, f)[<<i, j>>] = Found(i, j, m)
      BY <2>1, SearchOnce
    <2> QED
      BY <1>2, <2>2
  <1> HIDE DEF S
  <1>6. \A n \in Nat : n \in S
    BY <1>4, <1>5, Induction
  <1>7. PICK n \in Nat : high - low < n
    <2>1. PICK d \in Int : d = high - low
      BY <1>3
    <2>2. d < 0 \/ (d + 1 \in Nat /\ d < d + 1)
      OBVIOUS
    <2>3. \E n \in Nat : d < n
      BY <2>2
    <2> QED
      BY <2>1, <2>3
  <1> QED
    BY <1>1, <1>6, <1>7 DEF S

\* The amounts that can be paid have no gap.
LEMMA AmountsUpTo ==
    ASSUME NEW U, \A o \in U : o.sats \in Nat, NEW utxos \in Seq(U), NEW M \in Int, M >= Dust, NEW rate \in Nat \ {0}
    PROVE  \E m : PlansUpTo(utxos, M, rate, m)
  <1>0. Dust \in Nat \ {0} /\ M \in Nat
    BY CoinSelectionAssumption
  <1>1. PICK B : B = {c \in Dust..(M + 1) : c = M + 1 \/ ~Affordable(utxos, c, M, rate)}
    OBVIOUS
  <1>2. B \subseteq Nat /\ M + 1 \in B
    BY <1>0, <1>1
  <1>3. PICK b \in B : \A c \in B : b <= c
    BY <1>2, Least
  <1>4. b \in Dust..(M + 1)
    BY <1>1, <1>3
  <1>5. ASSUME NEW c \in Dust..M PROVE Affordable(utxos, c, M, rate) <=> c <= b - 1
    <2>1. c \in Nat /\ c \in Dust..(M + 1)
      BY <1>0
    <2>2. CASE c < b
      <3>1. c \notin B
        BY <1>3, <1>4, <2>1, <2>2
      <3> QED
        BY <1>0, <1>1, <1>4, <2>1, <2>2, <3>1
    <2>3. CASE b <= c
      <3>1. b \in Nat /\ b # M + 1 /\ ~Affordable(utxos, b, M, rate)
        BY <1>0, <1>1, <1>3, <1>4, <2>3
      <3>2. ~Payable(utxos, b, rate, M)
        BY <3>1, AffordableForm
      <3>3. ~Payable(utxos, c, rate, M)
        BY <2>1, <2>3, <3>1, <3>2, CostRises
      <3>4. ~Affordable(utxos, c, M, rate)
        BY <2>1, <3>3, AffordableForm
      <3> QED
        BY <1>0, <1>4, <2>3, <3>4
    <2> QED
      BY <1>4, <2>1, <2>2, <2>3, <1>0
  <1>6. PlansUpTo(utxos, M, rate, b - 1)
    BY <1>0, <1>4, <1>5 DEF PlansUpTo
  <1> QED
    BY <1>6

LEMMA SearchIsRight ==
    ASSUME NEW U, \A o \in U : o.sats \in Nat, NEW utxos \in Seq(U), NEW M \in Int, NEW rate \in Nat \ {0}
    PROVE  MaximalAmount(utxos, M, rate)
  <1>0. Dust \in Nat \ {0}
    BY CoinSelectionAssumption
  <1>1. CASE M < Dust
    <2>1. Dust..M = {}
      BY <1>0, <1>1
    <2> QED
      BY <2>1 DEF MaximalAmount
  <1>2. CASE M >= Dust
    <2>1. PICK m : PlansUpTo(utxos, M, rate, m)
      BY <1>2, AmountsUpTo
    <2>2. m \in Int /\ Dust - 1 <= m /\ m <= M
      BY <1>0, <2>1 DEF PlansUpTo
    <2>3. PICK x : x = Search(utxos, M, rate)[<<Dust, M>>]
      OBVIOUS
    <2>4. x = IF m < Dust THEN 0 ELSE m
      <3>1. Dust \in Dust..(M + 1) /\ M \in (Dust - 1)..M
        BY <1>0, <1>2
      <3>2. x = Found(Dust, M, m)
        BY <2>1, <2>3, <3>1, SearchFacts
      <3> QED
        BY <1>0, <1>2, <2>2, <3>2 DEF Found
    <2>5. PICK l : l = maxBitcoinTransactionAmountAndFeeFromUTXOs(utxos, M, rate)
      OBVIOUS
    <2>6. l = IF x < Dust THEN NoLimit ELSE [amount |-> x, fee |-> selectBitcoinUTXOs(utxos, x, rate).fee]
      BY <1>0, <1>2, <2>3, <2>5, LimitForm
    <2>7. l.amount = x
      <3>1. CASE x < Dust
        <4>1. x = 0
          BY <1>0, <2>2, <2>4, <3>1
        <4> QED
          BY <2>6, <3>1, <4>1 DEF NoLimit
      <3>2. CASE ~(x < Dust)
        BY <2>6, <3>2
      <3> QED
        BY <3>1, <3>2
    <2>8. ASSUME NEW c \in Dust..M PROVE (c <= x) <=> Affordable(utxos, c, M, rate)
      <3>1. Affordable(utxos, c, M, rate) <=> c <= m
        BY <2>1 DEF PlansUpTo
      <3> QED
        BY <1>0, <2>2, <2>4, <3>1
    <2> QED
      BY <2>5, <2>7, <2>8 DEF MaximalAmount
  <1> QED
    BY <1>0, <1>1, <1>2

\* maxBitcoinTransactionAmountAndFeeFromUTXOs finds the largest amount that a wallet's
\* outputs can pay, for every listing, balance and rate.
THEOREM LimitsAreMaximal == Spec => []LimitIsMaximal
  <1>1. PlanInv => LimitIsMaximal
    <2> SUFFICES ASSUME PlanInv, NEW a \in Wallets, NEW rate \in Rates
                 PROVE  MaximalAmount(SpendableUTXOs(Unspent({t \in TxIds : Known(t)}, a)), balance[a], rate)
      BY DEF LimitIsMaximal
    <2>1. PICK S : S = {t \in TxIds : Known(t)}
      OBVIOUS
    <2>2. S \subseteq TxIds
      BY <2>1
    <2>3. SpendableUTXOs(Unspent(S, a)) \in Seq(Holder(a))
      BY <2>2, UnspentFacts
    <2>4. \A o \in Holder(a) : o.sats \in Nat
      BY HolderFacts DEF IsOutput
    <2>5. balance[a] \in Int /\ rate \in Nat \ {0}
      BY RatesFacts DEF PlanInv, AmountsOK
    <2>6. MaximalAmount(SpendableUTXOs(Unspent(S, a)), balance[a], rate)
      BY <2>3, <2>4, <2>5, SearchIsRight
    <2> QED
      BY <2>1, <2>6
  <1> QED
    BY <1>1, PlansInvariant, PTL

-----------------------------------------------------------------------------
(* The books match the outputs, if no goroutine dies and no answer to a    *)
(* broadcast is lost.  The invariant: a balance is what the wallet's       *)
(* outputs on the chain are worth, plus what the books are ahead of the    *)
(* chain, transaction by transaction.                                      *)

Of(S, a) == {o \in S : o.wallet = a}
Onchain(a) == Value(Unspent({t \in TxIds : Known(t)}, a))

\* What a transaction of that kind, sender, amount and fee makes of the wallet a.
Effect(kind, wallet, amount, fee, a) ==
    (IF kind = "sweep" /\ a = Outbound THEN amount ELSE 0) - (IF a = wallet THEN amount + fee ELSE 0)
RowEffect(t, a) == Effect(txs[t].kind, txs[t].wallet, txs[t].amount, txs[t].fee, a)

\* What the inputs and outputs of t come to.
Worth(t, a) == Value(Of(chain[t].outs, a)) - Value(Of(chain[t].ins, a))

\* The goroutine w has the row t, and the amount is taken from the sender.
Has(w, t) == work[w].tx = t /\ work[w].created
Taken(t) ==
    \/ txs[t].status = "pending" /\ \A w \in Workers : Has(w, t) => work[w].moved
    \/ txs[t].status = "canceled" /\ \E w \in Workers : Has(w, t) /\ work[w].moved /\ work[w].pc = "undoBalances"
Booked(t, a) ==
    IF txs[t].status = "completed" THEN RowEffect(t, a)
    ELSE IF Taken(t) /\ a = txs[t].wallet THEN -txs[t].amount ELSE 0

\* What the books are ahead of the chain.
Entry(t, a) == Booked(t, a) - (IF Known(t) THEN RowEffect(t, a) ELSE 0)
Lag(a) == [t \in TxIds |-> Entry(t, a)]

\* A transaction that was sent is given up all the same.
Ruined ==
    \E t \in TxIds : /\ Sent(t)
                     /\ \/ txs[t].status = "canceled"
                        \/ \E w \in Workers : Has(w, t) /\ work[w].pc = "undoTx"

Balanced == Ruined \/ \A a \in Wallets : balance[a] = Onchain(a) + Total(Lag(a))

MatchesRow(l) ==
    /\ l.tx \in TxIds /\ l.kind = txs[l.tx].kind /\ l.wallet = txs[l.tx].wallet
    /\ l.sel.amount = txs[l.tx].amount /\ l.sel.fee = txs[l.tx].fee

BookJobOK(l) ==
    /\ l.created \in BOOLEAN /\ l.moved \in BOOLEAN
    /\ l.pc \in Before \cup {"createTx"} => ~l.created
    /\ l.pc \in {"decrement", "broadcast", "mark", "setHash", "done"} => l.created
    /\ l.pc \in {"broadcast", "mark", "setHash", "done"} => l.moved
    /\ l.pc = "decrement" => ~l.moved
    /\ l.moved => l.created
    /\ l.created => MatchesRow(l)
    /\ l.created /\ ~l.moved => ~txs[l.tx].hash
    /\ l.created /\ l.pc \in {"decrement", "broadcast", "release", "mark", "setHash"}
         => txs[l.tx].status = "pending" /\ ~txs[l.tx].hash
    /\ l.pc \in {"mark", "setHash", "done"} => Known(l.tx)
    /\ l.created /\ l.pc = "undoTx" => txs[l.tx].status = "pending" \/ Known(l.tx)
    /\ l.created /\ l.pc \in {"undoBalances", "failPayment"} => txs[l.tx].status = "canceled"
    /\ l.created /\ l.pc = "nextSweep" => txs[l.tx].status = "canceled" \/ (l.moved /\ Known(l.tx))
    /\ l.pc = "createTx" => /\ l.tx \in TxIds /\ txs[l.tx].status = "none" /\ l.tx <= signed
                            /\ \A a \in Wallets : Worth(l.tx, a) = Effect(l.kind, l.wallet, l.sel.amount, l.sel.fee, a)

BookRowOK(t) ==
    /\ IsFiniteSet(chain[t].ins) /\ \A o \in chain[t].ins : o.sats \in Nat
    /\ txs[t].status \in {"none", "pending", "canceled", "completed"}
    /\ txs[t].status # "none" => /\ t <= signed /\ txs[t].wallet \in Wallets
                                 /\ \A a \in Wallets : Worth(t, a) = RowEffect(t, a)
    /\ txs[t].status = "none" => ~Sent(t)
    /\ Sent(t) => Known(t) /\ chain[t].ins \subseteq Made({u \in TxIds : Known(u)})
    /\ txs[t].status = "completed" \/ txs[t].hash => Known(t)
    /\ txs[t].status = "pending" => Known(t) \/ \E w \in Workers : Has(w, t)

BookInv ==
    /\ \A t \in TxIds : BookRowOK(t)
    /\ \A w \in Workers : BookJobOK(work[w])
    /\ Balanced


-----------------------------------------------------------------------------
(* What outputs are worth *)

Coinage(S) == IsFiniteSet(S) /\ \A o \in S : o.sats \in Nat

LEMMA ValueType == ASSUME NEW S, Coinage(S) PROVE Value(S) \in Nat
  <1>1. PICK f : f = [o \in S |-> o.sats]
    OBVIOUS
  <1>2. f \in [S -> Nat] /\ IsFiniteSet(S)
    BY <1>1 DEF Coinage
  <1>3. Total(f) \in Nat
    BY <1>2, TotalNat
  <1> QED
    BY <1>1, <1>3 DEF Value

LEMMA ValueEmpty == Value({}) = 0
  <1>1. PICK D : D = {}
    OBVIOUS
  <1>2. PICK f : f = [o \in D |-> o.sats]
    OBVIOUS
  <1>3. f \in [D -> {0}] /\ IsFiniteSet(D)
    BY <1>1, <1>2, FS_EmptySet
  <1>4. Total(f) = 0
    BY <1>3, TotalZero
  <1> QED
    BY <1>1, <1>2, <1>4 DEF Value

LEMMA ValueAdd ==
    ASSUME NEW S, Coinage(S), NEW x, x \notin S, x.sats \in Nat
    PROVE  Coinage(S \cup {x}) /\ Value(S \cup {x}) = Value(S) + x.sats
  <1>1. PICK f : f = [o \in S \cup {x} |-> o.sats]
    OBVIOUS
  <1>2. IsFiniteSet(S) /\ f \in [S \cup {x} -> Int]
    BY <1>1 DEF Coinage
  <1>3. Total(f) = Total([o \in S |-> f[o]]) + f[x]
    BY <1>2, TotalAdd
  <1>4. [o \in S |-> f[o]] = [o \in S |-> o.sats] /\ f[x] = x.sats
    BY <1>1
  <1>5. Coinage(S \cup {x})
    BY <1>2, FS_AddElement DEF Coinage
  <1> QED
    BY <1>1, <1>3, <1>4, <1>5 DEF Value

LEMMA ValueUnion ==
    ASSUME NEW S, Coinage(S), NEW T, Coinage(T), S \cap T = {}
    PROVE  Coinage(S \cup T) /\ Value(S \cup T) = Value(S) + Value(T)
  <1>1. PICK Q : Q = {u \in SUBSET T : Coinage(u) /\ Coinage(S \cup u) /\ Value(S \cup u) = Value(S) + Value(u)}
    OBVIOUS
  <1>2. {} \in Q
    <2>1. S \cup {} = S /\ Coinage({})
      BY FS_EmptySet DEF Coinage
    <2>2. Value(S) \in Nat
      BY ValueType
    <2> QED
      BY <1>1, <2>1, <2>2, ValueEmpty
  <1>3. ASSUME NEW u \in SUBSET T, u # {}, Unpicked(u) \in Q PROVE u \in Q
    <2>1. IsFiniteSet(u)
      BY FS_Subset DEF Coinage
    <2>2. PICK x, v : x = Picked(u) /\ v = Unpicked(u)
      OBVIOUS
    <2>3. x \in u /\ v = u \ {x}
      BY <1>3, <2>1, <2>2, PickedFacts DEF Unpicked
    <2>4. x \notin v /\ u = v \cup {x} /\ x \notin S \cup v /\ S \cup u = (S \cup v) \cup {x} /\ x.sats \in Nat
      BY <2>3 DEF Coinage
    <2>5. Coinage(v) /\ Coinage(S \cup v) /\ Value(S \cup v) = Value(S) + Value(v)
      BY <1>1, <1>3, <2>2
    <2>6. Coinage(v \cup {x}) /\ Value(v \cup {x}) = Value(v) + x.sats
      BY <2>4, <2>5, ValueAdd
    <2>7. PICK W : W = S \cup v
      OBVIOUS
    <2>8. Coinage(W \cup {x}) /\ Value(W \cup {x}) = Value(W) + x.sats
      BY <2>4, <2>5, <2>7, ValueAdd
    <2>9. Value(S) \in Nat /\ Value(v) \in Nat
      BY <2>5, ValueType
    <2>10. Value(S \cup u) = Value(S) + Value(u)
      BY <2>4, <2>5, <2>6, <2>7, <2>8, <2>9
    <2> QED
      BY <1>1, <2>4, <2>6, <2>7, <2>8, <2>10
  <1>4. IsFiniteSet(T)
    BY DEF Coinage
  <1>5. \A u \in SUBSET T : u \in Q
    BY <1>2, <1>3, <1>4, SubsetInduction
  <1>6. T \in Q
    BY <1>5
  <1> QED
    BY <1>1, <1>6

\* The inputs of a plan are worth their sum, as none is there twice.
LEMMA ValueOfInputs ==
    ASSUME NEW U, \A o \in U : o.sats \in Nat, NEW s \in Seq(U), IsInjective(s)
    PROVE  Coinage(ToSet(s)) /\ Value(ToSet(s)) = Totals(s)[Len(s)]
  <1> DEFINE P(k) == {s[i] : i \in 1..k}
             S == {k \in Nat : k <= Len(s) => Coinage(P(k)) /\ Value(P(k)) = Totals(s)[k]}
  <1>0. Len(s) \in Nat /\ DOMAIN s = 1..Len(s)
    OBVIOUS
  <1>1. 0 \in S
    <2>1. P(0) = {} /\ Coinage({})
      BY FS_EmptySet DEF Coinage
    <2>2. Totals(s)[0] = 0
      <3>1. PICK D : D = 1..0
        OBVIOUS
      <3>2. D = {}
        BY <3>1
      <3>3. PICK f : f = [i \in D |-> s[i].sats]
        OBVIOUS
      <3>4. f \in [D -> {0}] /\ IsFiniteSet(D)
        BY <3>2, <3>3, FS_EmptySet
      <3>5. Total(f) = 0
        BY <3>4, TotalZero
      <3> QED
        BY <1>0, <3>1, <3>3, <3>5 DEF Totals
    <2>3. Coinage(P(0)) /\ Value(P(0)) = Totals(s)[0]
      BY <2>1, <2>2, ValueEmpty
    <2> QED
      BY <2>3
  <1>2. ASSUME NEW k \in Nat, k \in S PROVE k + 1 \in S
    <2> SUFFICES ASSUME k + 1 <= Len(s) PROVE Coinage(P(k + 1)) /\ Value(P(k + 1)) = Totals(s)[k + 1]
      OBVIOUS
    <2>1. PICK n \in 1..Len(s) : n = k + 1 /\ n - 1 = k
      BY <1>0
    <2>2. PICK x, W : x = s[n] /\ W = P(k)
      OBVIOUS
    <2>3. Coinage(W) /\ Value(W) = Totals(s)[k]
      BY <1>0, <1>2, <2>2
    <2>4. x \notin W
      <3> SUFFICES ASSUME NEW i \in 1..k, s[i] = s[n] PROVE FALSE
        BY <2>2
      <3>1. i \in DOMAIN s /\ n \in DOMAIN s /\ i # n
        BY <1>0, <2>1
      <3> QED
        BY <3>1 DEF IsInjective
    <2>5. P(k + 1) = W \cup {x}
      <3>1. 1..(k + 1) = (1..k) \cup {n}
        BY <2>1
      <3> QED
        BY <2>2, <3>1
    <2>6. x.sats \in Nat
      BY <2>1, <2>2
    <2>7. Coinage(W \cup {x}) /\ Value(W \cup {x}) = Value(W) + x.sats
      BY <2>3, <2>4, <2>6, ValueAdd
    <2>8. Totals(s)[n] = Totals(s)[n - 1] + s[n].sats
      BY TotalsGrow
    <2>9. Totals(s)[k + 1] = Totals(s)[k] + x.sats
      BY <2>1, <2>2, <2>8
    <2> QED
      BY <2>3, <2>5, <2>7, <2>9
  <1> HIDE DEF S
  <1>3. \A k \in Nat : k \in S
    BY <1>1, <1>2, Induction
  <1>4. Coinage(P(Len(s))) /\ Value(P(Len(s))) = Totals(s)[Len(s)]
    <2> HIDE DEF P
    <2>a. PICK n \in Nat : n = Len(s)
      BY <1>0
    <2>1. n = Len(s) /\ n <= Len(s)
      BY <2>a
    <2>2. n \in S
      BY <1>3
    <2> QED
      BY <2>1, <2>2 DEF S
  <1>5. ToSet(s) = P(Len(s))
    BY <1>0 DEF ToSet
  <1> QED
    BY <1>4, <1>5


LEMMA ValueOne == ASSUME NEW x, x.sats \in Nat PROVE Coinage({x}) /\ Value({x}) = x.sats
  <1>1. Coinage({})
    BY FS_EmptySet DEF Coinage
  <1>2. Coinage({} \cup {x}) /\ Value({} \cup {x}) = Value({}) + x.sats
    BY <1>1, ValueAdd
  <1>3. {} \cup {x} = {x}
    OBVIOUS
  <1> QED
    BY <1>2, <1>3, ValueEmpty

\* What a good plan makes of the wallets is what its row says.
LEMMA SignedWorth ==
    ASSUME NEW l, NEW U, NEW rate, GoodPlan(l.sel, U, rate), \A o \in U : o.wallet = l.wallet /\ o.sats \in Nat,
           NEW t, NEW a
    PROVE  /\ Coinage(Inputs(l))
           /\ Value(Of(Outputs(l, t), a)) - Value(Of(Inputs(l), a)) = Effect(l.kind, l.wallet, l.sel.amount, l.sel.fee, a)
  <1>1. PICK s : s = l.sel
    OBVIOUS
  <1>2. PICK amount \in Nat : amount = s.amount
    BY <1>1 DEF GoodPlan
  <1>3. PICK fee \in Nat : fee = s.fee
    BY <1>1 DEF GoodPlan
  <1>4. PICK change \in Nat : change = s.change
    BY <1>1 DEF GoodPlan
  <1>5. s.inputs \in Seq(U) /\ IsInjective(s.inputs) /\ Totals(s.inputs)[Len(s.inputs)] = amount + change + fee
    BY <1>1, <1>2, <1>3, <1>4 DEF GoodPlan, SoundSelection
  <1>6. PICK I : I = Inputs(l) /\ Coinage(I) /\ Value(I) = amount + change + fee /\ I \subseteq U
    <2>1. Coinage(ToSet(s.inputs)) /\ Value(ToSet(s.inputs)) = Totals(s.inputs)[Len(s.inputs)]
      BY <1>5, ValueOfInputs
    <2>2. ToSet(s.inputs) \subseteq U
      BY <1>5 DEF ToSet
    <2> QED
      BY <1>1, <1>5, <2>1, <2>2 DEF Inputs
  <1>7. Value(Of(I, a)) = IF a = l.wallet THEN amount + change + fee ELSE 0
    <2>1. CASE a = l.wallet
      <3>1. Of(I, a) = I
        BY <1>6, <2>1 DEF Of
      <3> QED
        BY <1>6, <2>1, <3>1
    <2>2. CASE a # l.wallet
      <3>1. Of(I, a) = {}
        BY <1>6, <2>2 DEF Of
      <3> QED
        BY <2>2, <3>1, ValueEmpty
    <2> QED
      BY <2>1, <2>2
  <1>8. PICK one : one = [tx |-> t, out |-> 1, wallet |-> Outbound, sats |-> amount]
    OBVIOUS
  <1>9. PICK two : two = [tx |-> t, out |-> 2, wallet |-> l.wallet, sats |-> change]
    OBVIOUS
  <1>10. /\ one.wallet = Outbound /\ one.sats = amount /\ one.out = 1
         /\ two.wallet = l.wallet /\ two.sats = change /\ two.out = 2 /\ one # two
    BY <1>8, <1>9
  <1>11. PICK A : A = IF l.kind = "sweep" /\ a = Outbound THEN {one} ELSE {}
    OBVIOUS
  <1>12. PICK B : B = IF change > 0 /\ a = l.wallet THEN {two} ELSE {}
    OBVIOUS
  <1>13. Of(Outputs(l, t), a) = A \cup B
    <2>1. Outputs(l, t) = (IF l.kind = "sweep" THEN {one} ELSE {}) \cup (IF change > 0 THEN {two} ELSE {})
      BY <1>1, <1>2, <1>4, <1>8, <1>9 DEF Outputs
    <2> QED
      BY <1>10, <1>11, <1>12, <2>1 DEF Of
  <1>14. Coinage(A) /\ Value(A) = IF l.kind = "sweep" /\ a = Outbound THEN amount ELSE 0
    <2>1. Coinage({one}) /\ Value({one}) = amount
      BY <1>10, ValueOne
    <2>2. Coinage({})
      BY FS_EmptySet DEF Coinage
    <2> QED
      BY <1>11, <2>1, <2>2, ValueEmpty
  <1>15. Coinage(B) /\ Value(B) = IF a = l.wallet THEN change ELSE 0
    <2>1. Coinage({two}) /\ Value({two}) = change
      BY <1>10, ValueOne
    <2>2. Coinage({})
      BY FS_EmptySet DEF Coinage
    <2>3. change > 0 \/ change = 0
      OBVIOUS
    <2> QED
      BY <1>12, <2>1, <2>2, <2>3, ValueEmpty
  <1>16. A \cap B = {}
    BY <1>10, <1>11, <1>12
  <1>17. Value(A \cup B) = Value(A) + Value(B)
    BY <1>14, <1>15, <1>16, ValueUnion
  <1>18. Value(Of(Outputs(l, t), a)) = (IF l.kind = "sweep" /\ a = Outbound THEN amount ELSE 0)
                                       + (IF a = l.wallet THEN change ELSE 0)
    BY <1>13, <1>14, <1>15, <1>17
  <1>19. Effect(l.kind, l.wallet, l.sel.amount, l.sel.fee, a) =
           (IF l.kind = "sweep" /\ a = Outbound THEN amount ELSE 0) - (IF a = l.wallet THEN amount + fee ELSE 0)
    BY <1>1, <1>2, <1>3 DEF Effect
  <1>20. PICK x \in Nat : x = IF l.kind = "sweep" /\ a = Outbound THEN amount ELSE 0
    OBVIOUS
  <1> QED
    BY <1>6, <1>7, <1>18, <1>19, <1>20

\* A transaction that is accepted changes what is on the chain by its worth.
Pool == {t \in TxIds : Known(t)}

LEMMA AcceptedWorth ==
    ASSUME PlanInv, \A u \in TxIds : BookRowOK(u), NEW t \in TxIds, ~Sent(t), NEW a,
           chain[t].ins \subseteq Made(Pool), \A u \in Pool : chain[u].ins \cap chain[t].ins = {}
    PROVE  Value(Unspent(Pool \cup {t}, a)) = Onchain(a) + Worth(t, a)
  <1>1. t \notin Pool /\ Pool \subseteq TxIds
    BY DEF Pool, Known, Sent
  <1>2. PICK I : I = Of(chain[t].ins, a)
    OBVIOUS
  <1>3. PICK O : O = Of(chain[t].outs, a)
    OBVIOUS
  <1>4. PICK u : u = Unspent(Pool, a)
    OBVIOUS
  <1>5. I \subseteq u
    BY <1>2, <1>4 DEF Of, Unspent, Spent
  <1>6. ASSUME NEW o \in chain[t].outs PROVE o \notin Made(Pool)
    <2>1. o.tx = t /\ t # 0
      BY DEF PlanInv, OutputsOK, TxIds
    <2>2. o \notin Coins
      BY <2>1
    <2>3. \A v \in Pool : o \notin chain[v].outs
      BY <1>1, <2>1 DEF PlanInv, OutputsOK
    <2> QED
      BY <2>2, <2>3 DEF Made
  <1>7. ASSUME NEW o \in chain[t].outs PROVE o \notin Spent(Pool \cup {t})
    <2>1. ASSUME NEW v \in Pool PROVE chain[v].ins \subseteq Made(Pool)
      <3>1. v \in TxIds /\ BookRowOK(v) /\ Sent(v)
        BY <1>1, <2>1 DEF Pool, Known, Sent
      <3> QED
        BY <3>1 DEF BookRowOK, Pool
    <2> QED
      BY <1>6, <1>7, <2>1 DEF Spent
  <1>8. Unspent(Pool \cup {t}, a) = (u \ I) \cup O
    <2>1. Made(Pool \cup {t}) = Made(Pool) \cup chain[t].outs
      BY DEF Made
    <2>2. Spent(Pool \cup {t}) = Spent(Pool) \cup chain[t].ins
      BY DEF Spent
    <2>3. ASSUME NEW o PROVE o \in Unspent(Pool \cup {t}, a) <=> o \in (u \ I) \cup O
      BY <1>2, <1>3, <1>4, <1>7, <2>1, <2>2 DEF Unspent, Of
    <2> QED
      BY <2>3
  <1>9. u \cap O = {}
    BY <1>3, <1>4, <1>6 DEF Unspent, Of
  <1>10. Coinage(u)
    <2>1. u \subseteq Holder(a)
      BY <1>1, <1>4 DEF Unspent, Made, Holder
    <2>2. IsFiniteSet(u)
      BY <2>1, HolderFacts, FS_Subset
    <2> QED
      BY <2>1, <2>2, HolderFacts DEF Coinage, IsOutput
  <1>11. Coinage(I) /\ Coinage(u \ I)
    <2>1. IsFiniteSet(I) /\ IsFiniteSet(u \ I)
      BY <1>5, <1>10, FS_Subset DEF Coinage
    <2> QED
      BY <1>5, <1>10, <2>1 DEF Coinage
  <1>12. Coinage(O)
    <2>1. O \subseteq chain[t].outs /\ IsFiniteSet(chain[t].outs) /\ \A o \in chain[t].outs : o.sats \in Nat
      BY <1>3 DEF Of, PlanInv, OutputsOK, IsOutput
    <2>2. IsFiniteSet(O)
      BY <2>1, FS_Subset
    <2> QED
      BY <2>1, <2>2 DEF Coinage
  <1>13. PICK r : r = u \ I
    OBVIOUS
  <1>14. r \cap I = {} /\ r \cup I = u /\ r \cap O = {}
    BY <1>5, <1>9, <1>13
  <1>15. Value(u) = Value(r) + Value(I)
    BY <1>11, <1>13, <1>14, ValueUnion
  <1>16. Value(r \cup O) = Value(r) + Value(O)
    BY <1>11, <1>12, <1>13, <1>14, ValueUnion
  <1>17. Value(r) \in Nat /\ Value(I) \in Nat /\ Value(O) \in Nat
    BY <1>11, <1>12, <1>13, ValueType
  <1>18. Value(r \cup O) = Value(u) + (Value(O) - Value(I))
    BY <1>15, <1>16, <1>17
  <1>19. Onchain(a) = Value(u) /\ Worth(t, a) = Value(O) - Value(I)
    BY <1>2, <1>3, <1>4 DEF Onchain, Worth, Pool
  <1>20. Unspent(Pool \cup {t}, a) = r \cup O
    BY <1>8, <1>13
  <1> QED
    BY <1>18, <1>19, <1>20


-----------------------------------------------------------------------------
(* The sum of what the books are ahead *)

LEMMA EntryType ==
    ASSUME AmountsOK, NEW t \in TxIds, NEW a
    PROVE  RowEffect(t, a) \in Int /\ Entry(t, a) \in Int
  <1>1. PICK amount \in Nat : amount = txs[t].amount
    BY DEF AmountsOK
  <1>2. PICK fee \in Nat : fee = txs[t].fee
    BY DEF AmountsOK
  <1>3. RowEffect(t, a) \in Int
    BY <1>1, <1>2 DEF RowEffect, Effect
  <1>4. Booked(t, a) \in Int
    BY <1>1, <1>3 DEF Booked
  <1> QED
    BY <1>3, <1>4 DEF Entry

LEMMA EntryTypeNext ==
    ASSUME AmountsOK', NEW t \in TxIds, NEW a
    PROVE  Entry(t, a)' \in Int
  <1>1. PICK amount \in Nat : amount = txs'[t].amount
    BY DEF AmountsOK
  <1>2. PICK fee \in Nat : fee = txs'[t].fee
    BY DEF AmountsOK
  <1>3. RowEffect(t, a)' \in Int
    BY <1>1, <1>2 DEF RowEffect, Effect
  <1>4. Booked(t, a)' \in Int
    BY <1>1, <1>3 DEF Booked
  <1> QED
    BY <1>3, <1>4 DEF Entry

LEMMA OnchainType == ASSUME PlanInv, NEW a PROVE Onchain(a) \in Int
  <1>1. PICK u : u = Unspent({t \in TxIds : Known(t)}, a)
    OBVIOUS
  <1>2. u \subseteq Holder(a)
    BY <1>1 DEF Unspent, Made, Holder
  <1>3. IsFiniteSet(u)
    BY <1>2, HolderFacts, FS_Subset
  <1>4. Coinage(u)
    BY <1>2, <1>3, HolderFacts DEF Coinage, IsOutput
  <1>5. Value(u) \in Nat
    BY <1>4, ValueType
  <1> QED
    BY <1>1, <1>5 DEF Onchain

LEMMA BalancedStays ==
    ASSUME Balanced, UNCHANGED balance, Ruined => Ruined', \A a \in Wallets : Onchain(a)' = Onchain(a),
           \A a \in Wallets, t \in TxIds : Entry(t, a)' = Entry(t, a)
    PROVE  Balanced'
  <1>1. ASSUME NEW a \in Wallets PROVE Lag(a)' = Lag(a)
    BY DEF Lag
  <1> QED
    BY <1>1 DEF Balanced

\* One transaction changes what it is to the books or to the chain.
LEMMA BalancedMoves ==
    ASSUME PlanInv, AmountsOK', Balanced, Ruined => Ruined', NEW t \in TxIds,
           \A a \in Wallets : \A u \in TxIds : u # t => Entry(u, a)' = Entry(u, a),
           \A a \in Wallets : Onchain(a)' \in Int
                              /\ balance'[a] - balance[a] = (Onchain(a)' - Onchain(a)) + (Entry(t, a)' - Entry(t, a))
    PROVE  Balanced'
  <1> SUFFICES ASSUME ~Ruined', NEW a \in Wallets PROVE balance'[a] = Onchain(a)' + Total(Lag(a)')
    BY DEF Balanced
  <1>1. balance[a] = Onchain(a) + Total(Lag(a))
    BY DEF Balanced
  <1>2. IsFiniteSet(TxIds)
    BY FS_Interval DEF TxIds
  <1>3. PICK f : f = Lag(a) /\ f \in [TxIds -> Int] /\ f[t] = Entry(t, a)
    <2>1. \A u \in TxIds : Entry(u, a) \in Int
      BY EntryType DEF PlanInv
    <2>2. Lag(a) \in [TxIds -> Int] /\ Lag(a)[t] = Entry(t, a)
      BY <2>1 DEF Lag
    <2> QED
      BY <2>2
  <1>4. PICK g : g = Lag(a)' /\ g \in [TxIds -> Int] /\ g[t] = Entry(t, a)'
    <2>1. \A u \in TxIds : Entry(u, a)' \in Int
      BY EntryTypeNext
    <2>2. Lag(a)' \in [TxIds -> Int] /\ Lag(a)'[t] = Entry(t, a)'
      BY <2>1 DEF Lag
    <2> QED
      BY <2>2
  <1>5. \A u \in TxIds : u # t => g[u] = f[u]
    BY <1>3, <1>4 DEF Lag
  <1>6. Total(g) = Total(f) + g[t] - f[t]
    BY <1>2, <1>3, <1>4, <1>5, TotalChange
  <1>7. Total(f) \in Int
    BY <1>2, <1>3, TotalType
  <1>8. PICK x \in Int, y \in Int : x = Onchain(a) /\ y = Onchain(a)'
    BY OnchainType
  <1>9. balance[a] \in Int /\ balance'[a] \in Int
    BY DEF PlanInv, AmountsOK
  <1>10. f[t] \in Int /\ g[t] \in Int
    BY <1>3, <1>4
  <1>11. balance'[a] - balance[a] = (y - x) + (g[t] - f[t])
    BY <1>3, <1>4, <1>8
  <1>12. balance[a] = x + Total(f)
    BY <1>1, <1>3, <1>8
  <1>13. balance'[a] = y + Total(g)
    BY <1>6, <1>7, <1>9, <1>10, <1>11, <1>12
  <1> QED
    BY <1>4, <1>8, <1>13

LEMMA RuinStays ==
    ASSUME \A t \in TxIds : Sent(t) => Sent(t)',
           \A t \in TxIds : txs[t].status = "canceled" => txs'[t].status = "canceled",
           \A t \in TxIds, w \in Workers : Has(w, t) /\ work[w].pc = "undoTx"
               => (Has(w, t)' /\ work'[w].pc = "undoTx") \/ txs'[t].status = "canceled"
    PROVE  Ruined => Ruined'
  BY DEF Ruined

-----------------------------------------------------------------------------
(* Steps that change neither the tables nor the chain *)

\* Either w keeps its row, or it leaves it when the row needs it no more.
PassesTo(l, k) ==
    \/ /\ k.created <=> l.created
       /\ l.created => k.tx = l.tx /\ (k.moved <=> l.moved) /\ l.pc # "undoBalances" /\ k.pc # "undoBalances"
    \/ /\ l.created /\ ~k.created /\ l.pc # "undoBalances"
       /\ txs[l.tx].status = "canceled" \/ (l.moved /\ Known(l.tx))

LEMMA BookLocal ==
    ASSUME BookInv, ShapesOK, NEW w \in Workers, NEW k, work' = [work EXCEPT ![w] = k], BookJobOK(k),
           PassesTo(work[w], k), work[w].pc = "undoTx" => ~work[w].created,
           UNCHANGED <<txs, balance, chain, signed>>
    PROVE  BookInv'
  <1>1. work'[w] = k /\ \A v \in Workers : v # w => work'[v] = work[v]
    BY DEF ShapesOK
  <1>2. PICK l : l = work[w]
    OBVIOUS
  <1>3. ASSUME NEW t \in TxIds PROVE Taken(t)' <=> Taken(t)
    <2>1. CASE txs[t].status = "pending"
      <3>1. ASSUME NEW v \in Workers, txs[t].status = "pending"
            PROVE  (Has(v, t)' => work'[v].moved) <=> (Has(v, t) => work[v].moved)
        <4>1. CASE v # w
          BY <1>1, <4>1 DEF Has
        <4>2. CASE v = w
          BY <1>1, <3>1, <4>2 DEF Has, PassesTo
        <4> QED
          BY <4>1, <4>2
      <3> QED
        BY <2>1, <3>1 DEF Taken
    <2>2. CASE txs[t].status # "pending"
      <3>1. ASSUME NEW v \in Workers
            PROVE  (Has(v, t)' /\ work'[v].moved /\ work'[v].pc = "undoBalances")
                     <=> (Has(v, t) /\ work[v].moved /\ work[v].pc = "undoBalances")
        <4>1. CASE v # w
          BY <1>1, <4>1 DEF Has
        <4>2. CASE v = w
          BY <1>1, <4>2 DEF Has, PassesTo
        <4> QED
          BY <4>1, <4>2
      <3> QED
        BY <2>2, <3>1 DEF Taken
    <2> QED
      BY <2>1, <2>2
  <1>4. ASSUME NEW t \in TxIds, NEW a PROVE Entry(t, a)' = Entry(t, a)
    BY <1>3 DEF Entry, Booked, RowEffect, Known
  <1>5. Ruined => Ruined'
    <2>1. \A t \in TxIds, v \in Workers : Has(v, t) /\ work[v].pc = "undoTx" => Has(v, t)' /\ work'[v].pc = "undoTx"
      BY <1>1 DEF Has
    <2> QED
      BY <2>1, RuinStays DEF Sent
  <1>6. Balanced'
    <2>1. ASSUME NEW a \in Wallets PROVE Onchain(a)' = Onchain(a)
      BY DEF Onchain, Unspent, Made, Spent, Known
    <2> QED
      BY <1>4, <1>5, <2>1, BalancedStays DEF BookInv
  <1>7. ASSUME NEW t \in TxIds PROVE BookRowOK(t)'
    <2>1. BookRowOK(t)
      BY DEF BookInv
    <2>2. ASSUME txs[t].status = "pending", ~Known(t) PROVE \E v \in Workers : Has(v, t)'
      <3>1. PICK v \in Workers : Has(v, t)
        BY <2>1, <2>2 DEF BookRowOK
      <3>2. CASE v # w
        BY <1>1, <3>1, <3>2 DEF Has
      <3>3. CASE v = w
        BY <1>1, <2>2, <3>1, <3>3 DEF Has, PassesTo
      <3> QED
        BY <3>2, <3>3
    <2> QED
      BY <2>1, <2>2 DEF BookRowOK, Worth, RowEffect, Known, Sent, Made
  <1>8. ASSUME NEW v \in Workers PROVE BookJobOK(work[v])'
    <2>1. PICK m : m = work'[v]
      OBVIOUS
    <2>2. BookJobOK(m)
      BY <1>1, <2>1 DEF BookInv
    <2>3. BookJobOK(m)'
      BY <2>2 DEF BookJobOK, MatchesRow, Worth, Known
    <2> QED
      BY <2>1, <2>3
  <1> QED
    BY <1>6, <1>7, <1>8 DEF BookInv


\* Where a row is under way, and local variables without one.
Advanced == {"createTx", "decrement", "broadcast", "mark", "setHash", "done"}
NotYet(k) == k.created = FALSE /\ k.moved = FALSE /\ k.pc \notin Advanced

LEMMA BookFresh ==
    ASSUME BookInv, ShapesOK, NEW w \in Workers, NEW k, work' = [work EXCEPT ![w] = k], NotYet(k),
           work[w].created => work[w].pc \in {"nextSweep", "done", "failPayment"},
           UNCHANGED <<txs, balance, chain, signed>>
    PROVE  BookInv'
  <1>1. BookJobOK(k)
    BY DEF BookJobOK, NotYet, Advanced
  <1>2. BookJobOK(work[w])
    BY DEF BookInv
  <1>3. PassesTo(work[w], k)
    BY <1>2 DEF PassesTo, NotYet, BookJobOK
  <1>4. work[w].pc = "undoTx" => ~work[w].created
    OBVIOUS
  <1> QED
    BY <1>1, <1>3, <1>4, BookLocal

\* The same local variables at another place.
SameJob(l, k) ==
    /\ k.tx = l.tx /\ k.created = l.created /\ k.moved = l.moved /\ k.kind = l.kind /\ k.wallet = l.wallet
    /\ k.sel = l.sel

LEMMA BookOn ==
    ASSUME BookInv, ShapesOK, NEW w \in Workers, NEW k, work' = [work EXCEPT ![w] = k], SameJob(work[w], k),
           UNCHANGED <<txs, balance, chain, signed>>,
           \/ work[w].pc = "mark" /\ k.pc = "setHash"
           \/ work[w].pc = "release" /\ k.pc = "undoTx"
           \/ work[w].pc \in {"createTx", "decrement", "broadcast"} /\ k.pc = "release"
           \/ work[w].pc \in {"mark", "done"} /\ k.pc = "undoTx"
    PROVE  BookInv'
  <1>1. PICK l : l = work[w]
    OBVIOUS
  <1>2. BookJobOK(l)
    BY <1>1 DEF BookInv
  <1>3. l.created => MatchesRow(k)
    BY <1>1, <1>2 DEF BookJobOK, MatchesRow, SameJob
  <1>4. BookJobOK(k)
    BY <1>1, <1>2, <1>3 DEF BookJobOK, SameJob, Before, Reserving
  <1>5. PassesTo(work[w], k)
    BY <1>1 DEF PassesTo, SameJob
  <1>6. work[w].pc = "undoTx" => ~work[w].created
    OBVIOUS
  <1> QED
    BY <1>4, <1>5, <1>6, BookLocal

LEMMA BookUndo ==
    ASSUME Inv, PlanInv, BookInv, NEW w \in Workers, NEW mark, Undo(w, mark),
           UNCHANGED <<txs, balance, chain, signed>>,
           work[w].pc \in {"check", "plan", "reserve", "createTx", "decrement", "broadcast"}
    PROVE  BookInv'
  <1> DEFINE k == [work[w] EXCEPT !.mark = @ \/ mark, !.pc = IF work[w].tx = 0 THEN "undoTx" ELSE "release"]
  <1>1. JobOK(work[w]) /\ BookJobOK(work[w]) /\ LocalOK(work[w]) /\ ShapesOK
    BY DEF PlanInv, BookInv, Inv
  <1>2. work' = [work EXCEPT ![w] = k]
    BY DEF Undo
  <1>3. /\ SameJob(work[w], k) /\ k.pc = IF work[w].tx = 0 THEN "undoTx" ELSE "release"
    BY <1>1 DEF JobOK, Idle, SameJob
  <1> HIDE DEF k
  <1>4. CASE work[w].pc \in {"check", "plan", "reserve"}
    <2>1. ~work[w].created /\ ~work[w].moved /\ work[w].created \in BOOLEAN /\ work[w].moved \in BOOLEAN
      BY <1>1, <1>4 DEF BookJobOK, Before
    <2>2. NotYet(k)
      BY <1>3, <2>1 DEF NotYet, SameJob, Advanced
    <2> QED
      BY <1>1, <1>2, <2>1, <2>2, BookFresh
  <1>5. CASE work[w].pc \in {"createTx", "decrement", "broadcast"}
    <2>1. k.pc = "release"
      BY <1>1, <1>3, <1>5 DEF LocalOK, Unsending
    <2> QED
      BY <1>1, <1>2, <1>3, <1>5, <2>1, BookOn
  <1> QED
    BY <1>4, <1>5

\* The steps before the KMS signs.
LEMMA BookEarly ==
    ASSUME Inv, PlanInv, BookInv, NEW w \in Workers, NEW k, work' = [work EXCEPT ![w] = k],
           UNCHANGED <<txs, balance, chain, signed>>, work[w].pc \in Before,
           k.created = work[w].created, k.moved = work[w].moved, k.pc \notin Advanced
    PROVE  BookInv'
  <1>1. BookJobOK(work[w]) /\ ShapesOK
    BY DEF PlanInv, BookInv
  <1>2. ~work[w].created /\ ~work[w].moved /\ work[w].created \in BOOLEAN /\ work[w].moved \in BOOLEAN
    BY <1>1 DEF BookJobOK
  <1>3. NotYet(k)
    BY <1>2 DEF NotYet
  <1> QED
    BY <1>1, <1>2, <1>3, BookFresh

LEMMA BookConsolidate ==
    ASSUME PlanInv, BookInv, NEW w \in Workers, Consolidate(w), UNCHANGED <<txs, balance, chain, signed>>,
           work[w].pc \in Before
    PROVE  BookInv'
  <1>1. PICK q : work' = [work EXCEPT ![w] =
                      [Idle EXCEPT !.pc = "nextSweep", !.pay = work[w].pay, !.kind = "sweep", !.queue = q]]
    BY DEF Consolidate
  <1> DEFINE k == [Idle EXCEPT !.pc = "nextSweep", !.pay = work[w].pay, !.kind = "sweep", !.queue = q]
  <1>2. NotYet(k)
    BY DEF NotYet, Idle, Advanced
  <1>3. ShapesOK /\ ~work[w].created
    BY DEF PlanInv, BookInv, BookJobOK
  <1> HIDE DEF k
  <1>4. work' = [work EXCEPT ![w] = k]
    BY <1>1 DEF k
  <1> QED
    BY <1>2, <1>3, <1>4, BookFresh

LEMMA BookGotoEarly ==
    ASSUME Inv, PlanInv, BookInv, NEW w \in Workers, NEW p, Goto(w, p),
           UNCHANGED <<txs, balance, chain, signed>>, work[w].pc \in Before, p \notin Advanced
    PROVE  BookInv'
  <1> DEFINE k == [work[w] EXCEPT !.pc = p]
  <1>1. work' = [work EXCEPT ![w] = k] /\ JobOK(work[w])
    BY DEF Goto, PlanInv
  <1>2. k.created = work[w].created /\ k.moved = work[w].moved /\ k.pc = p
    BY <1>1 DEF JobOK, Idle
  <1> HIDE DEF k
  <1> QED
    BY <1>1, <1>2, BookEarly

\* w ends, with its row done or without one.
LEMMA BookEnd ==
    ASSUME PlanInv, BookInv, NEW w \in Workers, End(w), UNCHANGED <<txs, balance, chain, signed>>,
           work[w].pc \in {"nextSweep", "done", "failPayment"}
    PROVE  BookInv'
  <1>1. NotYet(Idle)
    BY DEF NotYet, Idle, Advanced
  <1>2. ShapesOK
    BY DEF PlanInv
  <1> QED
    BY <1>1, <1>2, BookFresh DEF End


LEMMA BookStart ==
    ASSUME Inv, PlanInv, BookInv, NEW w \in Workers, NEW p \in Withdrawals, StartWithdrawal(w, p)
    PROVE  BookInv'
  <1> DEFINE k == [Idle EXCEPT !.pc = "source", !.pay = p, !.seen = merchantBalance]
  <1>1. /\ work[w] = Idle /\ work' = [work EXCEPT ![w] = k]
        /\ UNCHANGED <<txs, balance, chain, signed>>
    BY DEF StartWithdrawal, ledger
  <1>2. NotYet(k) /\ ~work[w].created /\ ShapesOK
    BY <1>1 DEF NotYet, Idle, Advanced, PlanInv
  <1> HIDE DEF k
  <1> QED
    BY <1>1, <1>2, BookFresh

LEMMA BookResolve ==
    ASSUME Inv, PlanInv, BookInv, NEW w \in Workers, resolveUTXOWithdrawalSource(w)
    PROVE  BookInv'
  <1>1. /\ work[w].pc = "source" /\ UNCHANGED <<txs, balance, chain, signed>>
        /\ (\E a : work' = [work EXCEPT ![w] = [work[w] EXCEPT !.pc = "check", !.wallet = a]]) \/ Consolidate(w)
    BY DEF resolveUTXOWithdrawalSource, PaysFrom, PaysFromInbound, At, ledger
  <1>2. CASE Consolidate(w)
    BY <1>1, <1>2, BookConsolidate DEF Before
  <1>3. ASSUME NEW a, work' = [work EXCEPT ![w] = [work[w] EXCEPT !.pc = "check", !.wallet = a]]
        PROVE  BookInv'
    <2> DEFINE k == [work[w] EXCEPT !.pc = "check", !.wallet = a]
    <2>1. k.created = work[w].created /\ k.moved = work[w].moved /\ k.pc = "check"
      BY DEF PlanInv, JobOK, Idle
    <2>2. work' = [work EXCEPT ![w] = k]
      BY <1>3
    <2> HIDE DEF k
    <2> QED
      BY <1>1, <2>1, <2>2, BookEarly DEF Before, Advanced
  <1> QED
    BY <1>1, <1>2, <1>3

LEMMA BookNextSweep ==
    ASSUME PlanInv, BookInv, NEW w \in Workers, NextSweep(w)
    PROVE  BookInv'
  <1>1. /\ work[w].pc = "nextSweep" /\ UNCHANGED <<txs, balance, chain, signed>> /\ ShapesOK
        /\ End(w) \/ \E p, a, q, x : work' = [work EXCEPT ![w] =
              [Idle EXCEPT !.pc = "check", !.pay = p, !.kind = "sweep", !.wallet = a, !.queue = q, !.swept = x]]
    BY DEF NextSweep, At, PlanInv, ledger
  <1>2. CASE End(w)
    BY <1>1, <1>2, BookEnd
  <1>3. ASSUME NEW p, NEW a, NEW q, NEW x, work' = [work EXCEPT ![w] =
              [Idle EXCEPT !.pc = "check", !.pay = p, !.kind = "sweep", !.wallet = a, !.queue = q, !.swept = x]]
        PROVE  BookInv'
    <2> DEFINE k == [Idle EXCEPT !.pc = "check", !.pay = p, !.kind = "sweep", !.wallet = a, !.queue = q, !.swept = x]
    <2>1. NotYet(k) /\ work' = [work EXCEPT ![w] = k]
      BY <1>3 DEF NotYet, Idle, Advanced
    <2> HIDE DEF k
    <2> QED
      BY <1>1, <2>1, BookFresh
  <1> QED
    BY <1>1, <1>2, <1>3, ZenonT(40)

LEMMA BookCheckBalances ==
    ASSUME Inv, PlanInv, BookInv, NEW w \in Workers, CheckBalances(w)
    PROVE  BookInv'
  <1>1. /\ work[w].pc = "check" /\ UNCHANGED <<txs, balance, chain, signed>>
        /\ (\E mark : Undo(w, mark)) \/ \E r : work' = [work EXCEPT ![w] = [work[w] EXCEPT !.pc = "plan", !.rate = r]]
    BY DEF CheckBalances, At, ledger
  <1>2. ASSUME NEW r, work' = [work EXCEPT ![w] = [work[w] EXCEPT !.pc = "plan", !.rate = r]] PROVE BookInv'
    <2> DEFINE k == [work[w] EXCEPT !.pc = "plan", !.rate = r]
    <2>1. k.created = work[w].created /\ k.moved = work[w].moved /\ k.pc = "plan"
      BY DEF PlanInv, JobOK, Idle
    <2>2. work' = [work EXCEPT ![w] = k]
      BY <1>2
    <2> HIDE DEF k
    <2> QED
      BY <1>1, <2>1, <2>2, BookEarly DEF Before, Advanced
  <1> QED
    BY <1>1, <1>2, BookUndo

LEMMA BookPlan ==
    ASSUME Inv, PlanInv, BookInv, NEW w \in Workers, Plan(w)
    PROVE  BookInv'
  <1>1. JobOK(work[w])
    BY DEF PlanInv
  <1>2. /\ work[w].pc = "plan" /\ UNCHANGED <<txs, balance, chain, signed>>
        /\ \/ \E s : work' = [work EXCEPT ![w] = [work[w] EXCEPT !.pc = "reserve", !.sel = s]]
           \/ Consolidate(w) \/ Goto(w, "nextSweep")
    <2>1. work[w].kind \in {"pay", "sweep"}
      BY <1>1 DEF JobOK
    <2> QED
      BY <2>1, PlanFacts DEF At, ledger
  <1>3. ASSUME NEW s, work' = [work EXCEPT ![w] = [work[w] EXCEPT !.pc = "reserve", !.sel = s]] PROVE BookInv'
    <2> DEFINE k == [work[w] EXCEPT !.pc = "reserve", !.sel = s]
    <2>1. k.created = work[w].created /\ k.moved = work[w].moved /\ k.pc = "reserve"
      BY <1>1 DEF JobOK, Idle
    <2>2. work' = [work EXCEPT ![w] = k]
      BY <1>3
    <2> HIDE DEF k
    <2> QED
      BY <1>2, <2>1, <2>2, BookEarly DEF Before, Advanced
  <1>4. CASE Goto(w, "nextSweep")
    BY <1>2, <1>4, BookGotoEarly DEF Before, Advanced
  <1> QED
    BY <1>2, <1>3, <1>4, BookConsolidate DEF Before

LEMMA BookReserve ==
    ASSUME Inv, PlanInv, BookInv, NEW w \in Workers, Reserve(w)
    PROVE  BookInv'
  <1>1. /\ work[w].pc = "reserve" /\ UNCHANGED <<txs, balance, chain, signed>>
        /\ \/ Goto(w, "sign") \/ \E mark : Undo(w, mark)
           \/ \E x : work' = [work EXCEPT ![w] = [work[w] EXCEPT !.pc = "plan", !.attempt = x]]
    BY DEF Reserve, At, ledger
  <1>2. ASSUME NEW x, work' = [work EXCEPT ![w] = [work[w] EXCEPT !.pc = "plan", !.attempt = x]] PROVE BookInv'
    <2> DEFINE k == [work[w] EXCEPT !.pc = "plan", !.attempt = x]
    <2>1. k.created = work[w].created /\ k.moved = work[w].moved /\ k.pc = "plan"
      BY DEF PlanInv, JobOK, Idle
    <2>2. work' = [work EXCEPT ![w] = k]
      BY <1>2
    <2> HIDE DEF k
    <2> QED
      BY <1>1, <2>1, <2>2, BookEarly DEF Before, Advanced
  <1>3. CASE Goto(w, "sign")
    BY <1>1, <1>3, BookGotoEarly DEF Before, Reserving, Advanced
  <1> QED
    BY <1>1, <1>2, <1>3, BookUndo

\* Steps that move a goroutine on with its row, or without one.
LEMMA BookGotoLate ==
    ASSUME Inv, PlanInv, BookInv, NEW w \in Workers, NEW p, Goto(w, p), UNCHANGED <<txs, balance, chain, signed>>,
           \/ work[w].pc = "mark" /\ p = "setHash"
           \/ work[w].pc = "release" /\ p = "undoTx"
           \/ work[w].pc \in {"mark", "done"} /\ p = "undoTx"
    PROVE  BookInv'
  <1> DEFINE k == [work[w] EXCEPT !.pc = p]
  <1>1. work' = [work EXCEPT ![w] = k] /\ JobOK(work[w]) /\ ShapesOK
    BY DEF Goto, PlanInv
  <1>2. SameJob(work[w], k) /\ k.pc = p
    BY <1>1 DEF JobOK, Idle, SameJob
  <1> HIDE DEF k
  <1> QED
    BY <1>1, <1>2, BookOn

LEMMA BookRest ==
    ASSUME Inv, PlanInv, BookInv, NEW w \in Workers,
           MarkBroadcasted(w) \/ Unreserve(w) \/ Release(w) \/ Error(w) \/ MarkInProgress(w) \/ FailPayment(w)
    PROVE  BookInv'
  <1>1. UNCHANGED <<txs, balance, chain, signed>>
    BY DEF MarkBroadcasted, Unreserve, Release, Error, MarkInProgress, FailPayment, ledger
  <1>2. CASE MarkBroadcasted(w)
    BY <1>1, <1>2, BookGotoLate DEF MarkBroadcasted, At
  <1>3. CASE Unreserve(w)
    BY <1>1, <1>3, BookGotoEarly DEF Unreserve, At, Before, Reserving, Advanced
  <1>4. CASE Release(w)
    BY <1>1, <1>4, BookGotoLate DEF Release, At
  <1>5. CASE MarkInProgress(w) \/ FailPayment(w)
    BY <1>1, <1>5, BookEnd DEF MarkInProgress, FailPayment, At
  <1>6. CASE Error(w)
    <2>1. \/ work[w].pc \in {"check", "plan", "reserve", "createTx", "decrement"} /\ \E mark : Undo(w, mark)
          \/ work[w].pc = "sign" /\ Goto(w, "unreserve")
          \/ work[w].pc \in {"mark", "done"} /\ Goto(w, "undoTx")
      BY <1>6 DEF Error, At
    <2>2. CASE work[w].pc = "sign" /\ Goto(w, "unreserve")
      BY <1>1, <2>2, BookGotoEarly DEF Before, Reserving, Advanced
    <2>3. CASE work[w].pc \in {"mark", "done"} /\ Goto(w, "undoTx")
      BY <1>1, <2>3, BookGotoLate
    <2> QED
      BY <1>1, <2>1, <2>2, <2>3, BookUndo
  <1> QED
    BY <1>2, <1>3, <1>4, <1>5, <1>6


-----------------------------------------------------------------------------
(* Steps on the row of a goroutine *)

\* w works on the row t, and changes no other.
OnRow(w, t, k) ==
    /\ work[w].tx = t /\ k.tx = t /\ work' = [work EXCEPT ![w] = k]
    /\ DOMAIN txs' = TxIds /\ \A u \in TxIds : u # t => txs'[u] = txs[u]
    /\ txs[t].status = "canceled" => txs'[t].status = "canceled"
    /\ work[w].pc = "undoTx" /\ work[w].created => txs'[t].status = "canceled"
    /\ UNCHANGED <<chain, signed>>

LEMMA OwnRow ==
    ASSUME Inv, PlanInv, NEW w \in Workers, NEW t \in TxIds, NEW k, OnRow(w, t, k)
    PROVE  work'[w] = k /\ \A v \in Workers : v # w => work'[v] = work[v] /\ work[v].tx # t
  <1>1. work'[w] = k /\ \A v \in Workers : v # w => work'[v] = work[v]
    BY DEF PlanInv, ShapesOK, OnRow
  <1>2. ASSUME NEW v \in Workers, v # w PROVE work[v].tx # t
    <2>1. Apart(work[w], work[v])
      BY <1>2 DEF Inv
    <2>2. work[w].tx # 0
      BY DEF OnRow, TxIds
    <2> QED
      BY <2>1, <2>2 DEF Apart, OnRow
  <1> QED
    BY <1>1, <1>2

TakenBy(l, status) ==
    \/ status = "pending" /\ (l.created => l.moved)
    \/ status = "canceled" /\ l.created /\ l.moved /\ l.pc = "undoBalances"

LEMMA OwnTaken ==
    ASSUME Inv, PlanInv, NEW w \in Workers, NEW t \in TxIds, NEW k, OnRow(w, t, k)
    PROVE  /\ Taken(t) <=> TakenBy(work[w], txs[t].status)
           /\ Taken(t)' <=> TakenBy(k, txs'[t].status)
  <1>1. work'[w] = k /\ \A v \in Workers : v # w => work'[v] = work[v] /\ work[v].tx # t
    BY OwnRow
  <1>2. /\ Has(w, t) <=> work[w].created
        /\ Has(w, t)' <=> k.created
        /\ \A v \in Workers : v # w => ~Has(v, t) /\ ~Has(v, t)'
    BY <1>1 DEF Has, OnRow
  <1>3. Taken(t) <=> TakenBy(work[w], txs[t].status)
    BY <1>2 DEF Taken, TakenBy
  <1>4. Taken(t)' <=> TakenBy(k, txs'[t].status)
    BY <1>1, <1>2 DEF Taken, TakenBy
  <1> QED
    BY <1>3, <1>4

LEMMA OwnEntries ==
    ASSUME Inv, PlanInv, NEW w \in Workers, NEW t \in TxIds, NEW k, OnRow(w, t, k)
    PROVE  /\ Ruined => Ruined'
           /\ \A a : Onchain(a)' = Onchain(a)
           /\ \A a : \A u \in TxIds : u # t => Entry(u, a)' = Entry(u, a)
  <1>1. work'[w] = k /\ \A v \in Workers : v # w => work'[v] = work[v] /\ work[v].tx # t
    BY OwnRow
  <1>2. ASSUME NEW u \in TxIds, u # t, NEW v \in Workers
        PROVE  /\ Has(v, u)' <=> Has(v, u)
               /\ Has(v, u) => work'[v] = work[v]
    BY <1>1, <1>2 DEF Has, OnRow
  <1>3. ASSUME NEW u \in TxIds, u # t PROVE Taken(u)' <=> Taken(u)
    BY <1>2, <1>3 DEF Taken, OnRow
  <1>4. ASSUME NEW u \in TxIds, u # t, NEW a PROVE Entry(u, a)' = Entry(u, a)
    BY <1>3, <1>4 DEF Entry, Booked, RowEffect, Known, OnRow
  <1>5. ASSUME NEW a PROVE Onchain(a)' = Onchain(a)
    BY DEF Onchain, Unspent, Made, Spent, Known, OnRow
  <1>6. Ruined => Ruined'
    <2>1. \A u \in TxIds : Sent(u) => Sent(u)'
      BY DEF Sent, OnRow
    <2>2. \A u \in TxIds : txs[u].status = "canceled" => txs'[u].status = "canceled"
      BY DEF OnRow
    <2>3. ASSUME NEW u \in TxIds, NEW v \in Workers, Has(v, u) /\ work[v].pc = "undoTx"
          PROVE  (Has(v, u)' /\ work'[v].pc = "undoTx") \/ txs'[u].status = "canceled"
      <3>1. CASE v = w
        BY <2>3, <3>1 DEF Has, OnRow
      <3>2. CASE v # w
        BY <1>1, <2>3, <3>2 DEF Has
      <3> QED
        BY <3>1, <3>2
    <2> QED
      BY <2>1, <2>2, <2>3, RuinStays
  <1> QED
    BY <1>4, <1>5, <1>6

LEMMA BookOwn ==
    ASSUME Inv, PlanInv, BookInv, NEW w \in Workers, NEW t \in TxIds, NEW k, OnRow(w, t, k),
           BookRowOK(t)', BookJobOK(k)', Balanced'
    PROVE  BookInv'
  <1>1. work'[w] = k /\ \A v \in Workers : v # w => work'[v] = work[v] /\ work[v].tx # t
    BY OwnRow
  <1>2. ASSUME NEW u \in TxIds PROVE BookRowOK(u)'
    <2>1. CASE u = t
      BY <2>1
    <2>2. CASE u # t
      <3>1. BookRowOK(u) /\ txs'[u] = txs[u]
        BY <2>2 DEF BookInv, OnRow
      <3>2. \A v \in Workers : Has(v, u) => Has(v, u)'
        BY <1>1, <2>2 DEF Has, OnRow
      <3> QED
        BY <3>1, <3>2 DEF BookRowOK, Worth, RowEffect, Known, Sent, Made, OnRow
    <2> QED
      BY <2>1, <2>2
  <1>3. ASSUME NEW v \in Workers PROVE BookJobOK(work[v])'
    <2>1. CASE v = w
      BY <1>1, <2>1
    <2>2. CASE v # w
      <3>1. PICK m : m = work[v] /\ m = work'[v] /\ m.tx # t
        BY <1>1, <2>2
      <3>2. BookJobOK(m)
        BY <3>1 DEF BookInv
      <3>3. m.tx \in TxIds => txs'[m.tx] = txs[m.tx]
        BY <3>1 DEF OnRow
      <3>4. BookJobOK(m)'
        BY <3>2, <3>3 DEF BookJobOK, MatchesRow, Worth, Known, OnRow
      <3> QED
        BY <3>1, <3>4
    <2> QED
      BY <2>1, <2>2
  <1> QED
    BY <1>2, <1>3 DEF BookInv

LEMMA BookCreateTx ==
    ASSUME Inv, PlanInv, BookInv, AmountsOK', NEW w \in Workers, CreateTx(w)
    PROVE  BookInv'
  <1>1. PICK l, t : l = work[w] /\ t = l.tx
    OBVIOUS
  <1>2. /\ l.pc = "createTx" /\ JobOK(l) /\ BookJobOK(l) /\ UNCHANGED <<balance, chain, signed>>
        /\ txs' = [txs EXCEPT ![t] = [status |-> "pending", kind |-> l.kind, pay |-> l.pay,
                                      wallet |-> l.wallet, amount |-> l.sel.amount,
                                      fee |-> l.sel.fee, hash |-> FALSE]]
    BY <1>1 DEF CreateTx, PlanInv, BookInv, At, ledger
  <1>3. /\ t \in TxIds /\ txs[t].status = "none" /\ t <= signed /\ ~l.created /\ ~l.moved /\ l.wallet \in Wallets
        /\ \A a \in Wallets : Worth(t, a) = Effect(l.kind, l.wallet, l.sel.amount, l.sel.fee, a)
    BY <1>1, <1>2 DEF BookJobOK, JobOK, Senders
  <1>4. /\ txs'[t].status = "pending" /\ txs'[t].kind = l.kind /\ txs'[t].wallet = l.wallet
        /\ txs'[t].amount = l.sel.amount /\ txs'[t].fee = l.sel.fee /\ txs'[t].hash = FALSE
        /\ DOMAIN txs' = TxIds /\ \A u \in TxIds : u # t => txs'[u] = txs[u]
    BY <1>2, <1>3 DEF PlanInv, AmountsOK
  <1>5. PICK k : /\ work' = [work EXCEPT ![w] = k]
                 /\ k.tx = t /\ k.pc = "decrement" /\ k.created = TRUE /\ k.moved = l.moved /\ k.kind = l.kind
                 /\ k.wallet = l.wallet /\ k.sel = l.sel
    <2> DEFINE k == [l EXCEPT !.pc = "decrement", !.created = TRUE]
    <2>1. work' = [work EXCEPT ![w] = k]
      BY <1>1 DEF CreateTx
    <2>2. /\ k.tx = t /\ k.pc = "decrement" /\ k.created = TRUE /\ k.moved = l.moved /\ k.kind = l.kind
          /\ k.wallet = l.wallet /\ k.sel = l.sel
      BY <1>1, <1>2 DEF JobOK, Idle
    <2> HIDE DEF k
    <2> QED
      BY <2>1, <2>2
  <1>6. OnRow(w, t, k)
    BY <1>1, <1>2, <1>3, <1>4, <1>5 DEF OnRow
  <1>7. work'[w] = k /\ BookRowOK(t)
    BY <1>3, <1>6, OwnRow DEF BookInv
  <1>8. BookRowOK(t)'
    <2>1. Has(w, t)'
      BY <1>5, <1>7 DEF Has
    <2>2. \A a \in Wallets : Worth(t, a)' = RowEffect(t, a)'
      BY <1>2, <1>3, <1>4 DEF Worth, RowEffect
    <2>3. ~Sent(t)
      BY <1>3, <1>7 DEF BookRowOK
    <2> QED
      BY <1>2, <1>3, <1>4, <1>7, <2>1, <2>2, <2>3 DEF BookRowOK, Sent
  <1>9. BookJobOK(k)'
    <2>1. MatchesRow(k)'
      BY <1>3, <1>4, <1>5 DEF MatchesRow
    <2>2. l.moved \in BOOLEAN
      BY <1>2 DEF BookJobOK
    <2> QED
      BY <1>3, <1>4, <1>5, <2>1, <2>2 DEF BookJobOK, Before, Reserving
  <1>10. Balanced'
    <2>1. ~Taken(t) /\ ~Taken(t)'
      <3>1. ~TakenBy(work[w], txs[t].status) /\ ~TakenBy(k, txs'[t].status)
        BY <1>3, <1>4, <1>5 DEF TakenBy
      <3> QED
        BY <1>3, <1>6, <3>1, OwnTaken
    <2>2. ~Known(t) /\ ~Known(t)'
      BY <1>2, <1>3, <1>7 DEF BookRowOK, Known, Sent
    <2>3. ASSUME NEW a PROVE Entry(t, a)' = Entry(t, a)
      BY <1>3, <1>4, <2>1, <2>2 DEF Entry, Booked
    <2>4. \A a \in Wallets, u \in TxIds : Entry(u, a)' = Entry(u, a)
      BY <1>3, <1>6, <2>3, OwnEntries
    <2>5. (Ruined => Ruined') /\ \A a \in Wallets : Onchain(a)' = Onchain(a)
      BY <1>3, <1>6, OwnEntries
    <2> QED
      BY <1>2, <2>4, <2>5, BalancedStays DEF BookInv
  <1> QED
    BY <1>3, <1>6, <1>8, <1>9, <1>10, BookOwn

LEMMA BookSetHash ==
    ASSUME Inv, PlanInv, BookInv, NEW w \in Workers, SetHash(w)
    PROVE  BookInv'
  <1>1. PICK l, t : l = work[w] /\ t = l.tx
    OBVIOUS
  <1>2. /\ l.pc = "setHash" /\ JobOK(l) /\ BookJobOK(l) /\ UNCHANGED <<balance, chain, signed>>
        /\ txs' = [txs EXCEPT ![t].hash = TRUE]
    BY <1>1 DEF SetHash, PlanInv, BookInv, At, ledger
  <1>3. /\ t \in TxIds /\ txs[t].status = "pending" /\ Known(t) /\ l.created /\ l.moved /\ MatchesRow(l)
    BY <1>1, <1>2 DEF BookJobOK, MatchesRow
  <1>4. /\ txs'[t].status = txs[t].status /\ txs'[t].kind = txs[t].kind /\ txs'[t].wallet = txs[t].wallet
        /\ txs'[t].amount = txs[t].amount /\ txs'[t].fee = txs[t].fee /\ txs'[t].hash = TRUE
        /\ DOMAIN txs' = TxIds /\ \A u \in TxIds : u # t => txs'[u] = txs[u]
    BY <1>2, <1>3 DEF PlanInv, AmountsOK, NoRow
  <1>5. PICK k : /\ work' = [work EXCEPT ![w] = k] /\ SameJob(l, k) /\ k.pc \in {"done", "nextSweep"}
    <2>1. CASE l.kind = "pay"
      <3> DEFINE k == [l EXCEPT !.pc = "done"]
      <3>1. work' = [work EXCEPT ![w] = k]
        BY <1>1, <2>1 DEF SetHash, Goto
      <3>2. SameJob(l, k) /\ k.pc = "done"
        BY <1>2 DEF JobOK, Idle, SameJob
      <3> HIDE DEF k
      <3> QED
        BY <3>1, <3>2
    <2>2. CASE l.kind # "pay"
      <3> DEFINE k == [l EXCEPT !.pc = "nextSweep", !.swept = @ + l.sel.amount]
      <3>1. work' = [work EXCEPT ![w] = k]
        BY <1>1, <2>2 DEF SetHash
      <3>2. SameJob(l, k) /\ k.pc = "nextSweep"
        BY <1>2 DEF JobOK, Idle, SameJob
      <3> HIDE DEF k
      <3> QED
        BY <3>1, <3>2
    <2> QED
      BY <2>1, <2>2
  <1>6. OnRow(w, t, k)
    BY <1>1, <1>2, <1>3, <1>4, <1>5 DEF OnRow, SameJob
  <1>7. work'[w] = k /\ BookRowOK(t)
    BY <1>3, <1>6, OwnRow DEF BookInv
  <1>8. BookRowOK(t)'
    BY <1>2, <1>3, <1>4, <1>7 DEF BookRowOK, Sent, Worth, RowEffect, Known, Made
  <1>9. BookJobOK(k)'
    <2>1. MatchesRow(k)'
      BY <1>3, <1>4, <1>5 DEF MatchesRow, SameJob
    <2>2. Known(t)' /\ l.created \in BOOLEAN /\ l.moved \in BOOLEAN
      BY <1>2, <1>3 DEF BookJobOK, Known
    <2> QED
      BY <1>1, <1>3, <1>4, <1>5, <2>1, <2>2 DEF BookJobOK, Before, Reserving, SameJob
  <1>10. Balanced'
    <2>1. Taken(t)' <=> Taken(t)
      <3>1. TakenBy(work[w], txs[t].status) <=> TakenBy(k, txs'[t].status)
        BY <1>1, <1>3, <1>4, <1>5 DEF TakenBy, SameJob
      <3> QED
        BY <1>3, <1>6, <3>1, OwnTaken
    <2>2. ASSUME NEW a PROVE Entry(t, a)' = Entry(t, a)
      BY <1>2, <1>4, <2>1 DEF Entry, Booked, RowEffect, Known
    <2>3. \A a \in Wallets, u \in TxIds : Entry(u, a)' = Entry(u, a)
      BY <1>3, <1>6, <2>2, OwnEntries
    <2>4. (Ruined => Ruined') /\ \A a \in Wallets : Onchain(a)' = Onchain(a)
      BY <1>3, <1>6, OwnEntries
    <2> QED
      BY <1>2, <2>3, <2>4, BalancedStays DEF BookInv
  <1> QED
    BY <1>3, <1>6, <1>8, <1>9, <1>10, BookOwn


LEMMA BookDecrement ==
    ASSUME Inv, PlanInv, BookInv, AmountsOK', NEW w \in Workers, Decrement(w)
    PROVE  BookInv'
  <1>1. PICK l, t : l = work[w] /\ t = l.tx
    OBVIOUS
  <1>2. /\ l.pc = "decrement" /\ JobOK(l) /\ BookJobOK(l) /\ UNCHANGED <<txs, chain, signed>>
    BY <1>1 DEF Decrement, PlanInv, BookInv, At
  <1>3. CASE UNCHANGED ledger /\ \E mark : Undo(w, mark)
    BY <1>1, <1>2, <1>3, BookUndo DEF ledger
  <1>4. CASE /\ balance' = [balance EXCEPT ![l.wallet] = @ - l.sel.amount]
             /\ work' = [work EXCEPT ![w].pc = "broadcast", ![w].moved = TRUE]
    <2>1. /\ t \in TxIds /\ txs[t].status = "pending" /\ ~txs[t].hash /\ l.created /\ ~l.moved /\ MatchesRow(l)
          /\ l.wallet \in Wallets /\ txs[t].wallet = l.wallet /\ txs[t].amount = l.sel.amount
      BY <1>1, <1>2 DEF BookJobOK, MatchesRow, JobOK, Senders
    <2>2. PICK k : /\ work' = [work EXCEPT ![w] = k]
                   /\ k.tx = t /\ k.pc = "broadcast" /\ k.created = l.created /\ k.moved = TRUE /\ k.kind = l.kind
                   /\ k.wallet = l.wallet /\ k.sel = l.sel
      <3> DEFINE k == [l EXCEPT !.pc = "broadcast", !.moved = TRUE]
      <3>1. work' = [work EXCEPT ![w] = k]
        BY <1>1, <1>4
      <3>2. /\ k.tx = t /\ k.pc = "broadcast" /\ k.created = l.created /\ k.moved = TRUE /\ k.kind = l.kind
            /\ k.wallet = l.wallet /\ k.sel = l.sel
        BY <1>1, <1>2 DEF JobOK, Idle
      <3> HIDE DEF k
      <3> QED
        BY <3>1, <3>2
    <2>3. OnRow(w, t, k)
      BY <1>1, <1>2, <2>1, <2>2 DEF OnRow, PlanInv, AmountsOK
    <2>4. work'[w] = k /\ BookRowOK(t)
      BY <2>1, <2>3, OwnRow DEF BookInv
    <2>5. BookRowOK(t)'
      <3>1. Has(w, t)'
        BY <2>1, <2>2, <2>4 DEF Has
      <3> QED
        BY <1>2, <2>4, <3>1 DEF BookRowOK, Worth, RowEffect, Known, Sent, Made
    <2>6. BookJobOK(k)'
      <3>1. MatchesRow(k)'
        BY <1>1, <1>2, <2>1, <2>2 DEF MatchesRow
      <3>2. l.created \in BOOLEAN
        BY <1>2 DEF BookJobOK
      <3> QED
        BY <1>1, <1>2, <2>1, <2>2, <3>1, <3>2 DEF BookJobOK, Before, Reserving
    <2>7. Balanced'
      <3>1. ~Taken(t) /\ Taken(t)'
        <4>1. ~TakenBy(work[w], txs[t].status) /\ TakenBy(k, txs'[t].status)
          BY <1>1, <1>2, <2>1, <2>2 DEF TakenBy
        <4> QED
          BY <2>1, <2>3, <4>1, OwnTaken
      <3>2. PICK amount \in Nat : amount = l.sel.amount
        BY <1>2 DEF JobOK
      <3>3. ASSUME NEW a \in Wallets PROVE Entry(t, a)' - Entry(t, a) = IF a = l.wallet THEN -amount ELSE 0
        <4>1. Booked(t, a) = 0 /\ Booked(t, a)' = IF a = l.wallet THEN -amount ELSE 0
          BY <1>2, <2>1, <3>1, <3>2 DEF Booked
        <4>2. PICK x \in Int : x = IF Known(t) THEN RowEffect(t, a) ELSE 0
          BY <2>1, EntryType DEF PlanInv
        <4>3. (IF Known(t)' THEN RowEffect(t, a)' ELSE 0) = x
          BY <1>2, <4>2 DEF Known, RowEffect
        <4>4. Entry(t, a) = 0 - x /\ Entry(t, a)' = Booked(t, a)' - x
          BY <4>1, <4>2, <4>3 DEF Entry
        <4> QED
          BY <4>1, <4>4
      <3>4. ASSUME NEW a \in Wallets PROVE balance'[a] - balance[a] = IF a = l.wallet THEN -amount ELSE 0
        <4>1. balance[a] \in Int /\ balance'[a] = IF a = l.wallet THEN balance[a] - amount ELSE balance[a]
          BY <1>4, <3>2 DEF PlanInv, AmountsOK
        <4> QED
          BY <4>1
      <3>5. ASSUME NEW a \in Wallets
            PROVE  Onchain(a)' \in Int /\ balance'[a] - balance[a] = (Onchain(a)' - Onchain(a)) + (Entry(t, a)' - Entry(t, a))
        <4>1. Onchain(a) \in Int /\ Onchain(a)' = Onchain(a)
          BY <2>1, <2>3, OwnEntries, OnchainType
        <4> QED
          BY <3>3, <3>4, <4>1
      <3>6. (Ruined => Ruined') /\ \A a \in Wallets : \A u \in TxIds : u # t => Entry(u, a)' = Entry(u, a)
        BY <2>1, <2>3, OwnEntries
      <3> QED
        BY <2>1, <3>5, <3>6, BalancedMoves DEF BookInv
    <2> QED
      BY <2>1, <2>3, <2>5, <2>6, <2>7, BookOwn
  <1> QED
    BY <1>1, <1>3, <1>4 DEF Decrement

LEMMA BookUndoTx ==
    ASSUME Inv, PlanInv, BookInv, NEW w \in Workers, UndoTx(w)
    PROVE  BookInv'
  <1>1. PICK l, t : l = work[w] /\ t = l.tx
    OBVIOUS
  <1>2. /\ l.pc = "undoTx" /\ JobOK(l) /\ BookJobOK(l) /\ UNCHANGED <<balance, chain, signed>>
        /\ txs' = IF l.created THEN [txs EXCEPT ![t].status = "canceled"] ELSE txs
    BY <1>1 DEF UndoTx, PlanInv, BookInv, At, ledger
  <1>3. PICK k : work' = [work EXCEPT ![w] = k] /\ SameJob(l, k) /\ k.pc = "undoBalances"
    <2> DEFINE k == [l EXCEPT !.pc = "undoBalances"]
    <2>1. work' = [work EXCEPT ![w] = k]
      BY <1>1 DEF UndoTx, Goto
    <2>2. SameJob(l, k) /\ k.pc = "undoBalances"
      BY <1>2 DEF JobOK, Idle, SameJob
    <2> HIDE DEF k
    <2> QED
      BY <2>1, <2>2
  <1>4. CASE ~l.created
    <2>1. NotYet(k)
      BY <1>2, <1>3, <1>4 DEF BookJobOK, NotYet, SameJob, Advanced
    <2>2. UNCHANGED <<txs, balance, chain, signed>> /\ ShapesOK
      BY <1>2, <1>4 DEF PlanInv
    <2> QED
      BY <1>1, <1>3, <1>4, <2>1, <2>2, BookFresh
  <1>5. CASE l.created
    <2>1. MatchesRow(l) /\ t \in TxIds
      BY <1>1, <1>2, <1>5 DEF BookJobOK, MatchesRow
    <2>2. /\ txs'[t].status = "canceled" /\ txs'[t].kind = txs[t].kind /\ txs'[t].wallet = txs[t].wallet
          /\ txs'[t].amount = txs[t].amount /\ txs'[t].fee = txs[t].fee /\ txs'[t].hash = txs[t].hash
          /\ DOMAIN txs' = TxIds /\ \A u \in TxIds : u # t => txs'[u] = txs[u]
      BY <1>2, <1>5, <2>1 DEF PlanInv, AmountsOK, NoRow
    <2>3. OnRow(w, t, k)
      BY <1>1, <1>2, <1>3, <2>2 DEF OnRow, SameJob
    <2>4. work'[w] = k /\ BookRowOK(t)
      BY <2>1, <2>3, OwnRow DEF BookInv
    <2>5. txs[t].status # "none"
      BY <1>1, <1>2, <1>5, <2>4 DEF BookJobOK, BookRowOK, Known, Sent
    <2>6. BookRowOK(t)'
      BY <1>2, <2>2, <2>4, <2>5 DEF BookRowOK, Worth, RowEffect, Known, Sent, Made
    <2>7. BookJobOK(k)'
      <3>1. MatchesRow(k)'
        BY <1>1, <1>3, <2>1, <2>2 DEF MatchesRow, SameJob
      <3> QED
        BY <1>1, <1>2, <1>3, <1>5, <2>2, <3>1 DEF BookJobOK, Before, Reserving, SameJob
    <2>8. Balanced'
      <3>1. CASE Sent(t)
        BY <1>2, <2>1, <2>2, <3>1 DEF Balanced, Ruined, Sent
      <3>2. CASE ~Sent(t)
        <4>1. ~Known(t) /\ ~Known(t)' /\ txs[t].status = "pending"
          BY <1>1, <1>2, <1>5, <3>2 DEF Known, Sent, BookJobOK
        <4>2. Taken(t)' <=> Taken(t)
          <5>1. TakenBy(work[w], txs[t].status) <=> TakenBy(k, txs'[t].status)
            BY <1>1, <1>3, <1>5, <2>2, <4>1 DEF TakenBy, SameJob
          <5> QED
            BY <2>1, <2>3, <5>1, OwnTaken
        <4>3. ASSUME NEW a PROVE Entry(t, a)' = Entry(t, a)
          BY <2>2, <4>1, <4>2 DEF Entry, Booked
        <4>4. \A a \in Wallets, u \in TxIds : Entry(u, a)' = Entry(u, a)
          BY <2>1, <2>3, <4>3, OwnEntries
        <4>5. (Ruined => Ruined') /\ \A a \in Wallets : Onchain(a)' = Onchain(a)
          BY <2>1, <2>3, OwnEntries
        <4> QED
          BY <1>2, <4>4, <4>5, BalancedStays DEF BookInv
      <3> QED
        BY <3>1, <3>2
    <2> QED
      BY <2>1, <2>3, <2>6, <2>7, <2>8, BookOwn
  <1> QED
    BY <1>2, <1>4, <1>5 DEF BookJobOK

LEMMA BookUndoBalances ==
    ASSUME Inv, PlanInv, BookInv, AmountsOK', NEW w \in Workers, UndoBalances(w)
    PROVE  BookInv'
  <1>1. PICK l, t : l = work[w] /\ t = l.tx
    OBVIOUS
  <1>2. /\ l.pc = "undoBalances" /\ JobOK(l) /\ BookJobOK(l) /\ UNCHANGED <<txs, chain, signed>>
        /\ balance' = IF l.moved THEN [balance EXCEPT ![l.wallet] = @ + l.sel.amount] ELSE balance
    BY <1>1 DEF UndoBalances, PlanInv, BookInv, At
  <1>3. PICK k : work' = [work EXCEPT ![w] = k] /\ SameJob(l, k) /\ k.pc \in {"nextSweep", "failPayment"}
    <2>1. PICK p : p \in {"nextSweep", "failPayment"} /\ Goto(w, p)
      BY DEF UndoBalances
    <2> DEFINE k == [l EXCEPT !.pc = p]
    <2>2. work' = [work EXCEPT ![w] = k]
      BY <1>1, <2>1 DEF Goto
    <2>3. SameJob(l, k) /\ k.pc = p
      BY <1>2 DEF JobOK, Idle, SameJob
    <2> HIDE DEF k
    <2> QED
      BY <2>1, <2>2, <2>3
  <1>4. CASE ~l.created
    <2>1. NotYet(k) /\ ~l.moved
      BY <1>2, <1>3, <1>4 DEF BookJobOK, NotYet, SameJob, Advanced
    <2>2. UNCHANGED <<txs, balance, chain, signed>> /\ ShapesOK
      BY <1>2, <2>1 DEF PlanInv
    <2> QED
      BY <1>1, <1>3, <1>4, <2>1, <2>2, BookFresh
  <1>5. CASE l.created
    <2>1. MatchesRow(l) /\ t \in TxIds /\ txs[t].status = "canceled"
      BY <1>1, <1>2, <1>5 DEF BookJobOK, MatchesRow
    <2>2. OnRow(w, t, k)
      BY <1>1, <1>2, <1>3, <2>1 DEF OnRow, SameJob, PlanInv, AmountsOK
    <2>3. work'[w] = k /\ BookRowOK(t)
      BY <2>1, <2>2, OwnRow DEF BookInv
    <2>4. BookRowOK(t)'
      BY <1>2, <2>1, <2>3 DEF BookRowOK, Worth, RowEffect, Known, Sent, Made
    <2>5. BookJobOK(k)'
      <3>1. MatchesRow(k)'
        BY <1>1, <1>2, <1>3, <2>1 DEF MatchesRow, SameJob
      <3> QED
        BY <1>1, <1>2, <1>3, <1>5, <2>1, <3>1 DEF BookJobOK, Before, Reserving, SameJob
    <2>6. Balanced'
      <3>1. (Taken(t) <=> l.moved) /\ ~Taken(t)' /\ l.moved \in BOOLEAN
        <4>1. (TakenBy(work[w], txs[t].status) <=> l.moved) /\ ~TakenBy(k, txs'[t].status) /\ l.moved \in BOOLEAN
          BY <1>1, <1>2, <1>3, <1>5, <2>1 DEF TakenBy, BookJobOK
        <4> QED
          BY <2>1, <2>2, <4>1, OwnTaken
      <3>2. PICK amount \in Nat : amount = l.sel.amount
        BY <1>2 DEF JobOK
      <3>3. txs[t].wallet = l.wallet /\ txs[t].amount = amount /\ l.wallet \in Wallets
        BY <1>1, <2>1, <2>3, <3>2 DEF MatchesRow, BookRowOK
      <3>4. ASSUME NEW a \in Wallets PROVE Entry(t, a)' - Entry(t, a) = IF l.moved /\ a = l.wallet THEN amount ELSE 0
        <4>1. Booked(t, a)' = 0 /\ Booked(t, a) = IF l.moved /\ a = l.wallet THEN -amount ELSE 0
          BY <1>2, <2>1, <3>1, <3>3 DEF Booked
        <4>2. PICK x \in Int : x = IF Known(t) THEN RowEffect(t, a) ELSE 0
          BY <2>1, EntryType DEF PlanInv
        <4>3. (IF Known(t)' THEN RowEffect(t, a)' ELSE 0) = x
          BY <1>2, <4>2 DEF Known, RowEffect
        <4>4. Entry(t, a)' = 0 - x /\ Entry(t, a) = Booked(t, a) - x
          BY <4>1, <4>2, <4>3 DEF Entry
        <4> QED
          BY <4>1, <4>4
      <3>5. ASSUME NEW a \in Wallets PROVE balance'[a] - balance[a] = IF l.moved /\ a = l.wallet THEN amount ELSE 0
        <4>1. balance[a] \in Int /\ balance'[a] = IF l.moved /\ a = l.wallet THEN balance[a] + amount ELSE balance[a]
          BY <1>2, <3>2 DEF PlanInv, AmountsOK
        <4> QED
          BY <4>1
      <3>6. ASSUME NEW a \in Wallets
            PROVE  Onchain(a)' \in Int /\ balance'[a] - balance[a] = (Onchain(a)' - Onchain(a)) + (Entry(t, a)' - Entry(t, a))
        <4>1. Onchain(a) \in Int /\ Onchain(a)' = Onchain(a)
          BY <2>1, <2>2, OwnEntries, OnchainType
        <4> QED
          BY <3>4, <3>5, <4>1
      <3>7. (Ruined => Ruined') /\ \A a \in Wallets : \A u \in TxIds : u # t => Entry(u, a)' = Entry(u, a)
        BY <2>1, <2>2, OwnEntries
      <3> QED
        BY <2>1, <3>6, <3>7, BalancedMoves DEF BookInv
    <2> QED
      BY <2>1, <2>2, <2>4, <2>5, <2>6, BookOwn
  <1> QED
    BY <1>2, <1>4, <1>5 DEF BookJobOK


-----------------------------------------------------------------------------
(* Steps of the chain *)

LEMMA BookSign ==
    ASSUME Inv, PlanInv, BookInv, NEW w \in Workers, Sign(w)
    PROVE  BookInv'
  <1>1. PICK l : l = work[w]
    OBVIOUS
  <1>2. PICK t : t = signed + 1
    OBVIOUS
  <1>3. /\ l.pc = "sign" /\ JobOK(l) /\ BookJobOK(l) /\ signed \in Nat /\ signed' = t /\ t \in TxIds /\ t > signed
        /\ UNCHANGED <<balance, txs>>
    BY <1>1, <1>2 DEF Sign, PlanInv, BookInv, ShapesOK, At, TxIds, ledger
  <1>4. chain' = [chain EXCEPT ![t] = [state |-> "unsent", ins |-> Inputs(l), outs |-> Outputs(l, t)]]
    BY <1>1, <1>2 DEF Sign
  <1>5. /\ chain'[t].state = "unsent" /\ chain'[t].ins = Inputs(l) /\ chain'[t].outs = Outputs(l, t)
        /\ \A u \in TxIds : u # t => chain'[u] = chain[u]
    BY <1>3, <1>4 DEF PlanInv, ShapesOK
  <1>6. ~l.created /\ ~l.moved /\ l.created \in BOOLEAN /\ l.moved \in BOOLEAN
    BY <1>3 DEF BookJobOK, Before, Reserving
  <1>7. PICK k : /\ work' = [work EXCEPT ![w] = k] /\ k.pc \in {"release", "createTx"} /\ k.tx = t
                 /\ k.created = l.created /\ k.moved = l.moved /\ k.kind = l.kind /\ k.wallet = l.wallet /\ k.sel = l.sel
    <2>1. PICK mark, p : /\ p \in {"release", "createTx"}
                         /\ work' = [work EXCEPT ![w].tx = t, ![w].mark = mark, ![w].pc = p]
      BY <1>1, <1>2 DEF Sign
    <2> DEFINE k == [l EXCEPT !.tx = t, !.mark = mark, !.pc = p]
    <2>2. work' = [work EXCEPT ![w] = k]
      BY <1>1, <2>1
    <2>3. /\ k.pc = p /\ k.tx = t
          /\ k.created = l.created /\ k.moved = l.moved /\ k.kind = l.kind /\ k.wallet = l.wallet /\ k.sel = l.sel
      BY <1>3 DEF JobOK, Idle
    <2> HIDE DEF k
    <2> QED
      BY <2>1, <2>2, <2>3
  <1>8. work'[w] = k /\ \A v \in Workers : v # w => work'[v] = work[v]
    BY <1>7 DEF PlanInv, ShapesOK
  <1>9. BookRowOK(t) /\ ~Sent(t) /\ txs[t].status = "none"
    <2>1. BookRowOK(t) /\ ~Sent(t)
      BY <1>3 DEF BookInv, Inv, TablesOK
    <2>2. ~(t <= signed)
      BY <1>2, <1>3
    <2> QED
      BY <2>1, <2>2 DEF BookRowOK
  <1>10. \A u \in TxIds : (Known(u)' <=> Known(u)) /\ (Sent(u)' <=> Sent(u))
    BY <1>5, <1>9 DEF Known, Sent
  <1>11. Pool' = Pool /\ Made(Pool)' = Made(Pool) /\ Spent(Pool)' = Spent(Pool)
    <2>1. Pool' = Pool /\ t \notin Pool /\ Pool \subseteq TxIds
      BY <1>9, <1>10 DEF Pool, Known, Sent
    <2>2. \A u \in Pool : chain'[u] = chain[u]
      BY <1>5, <2>1
    <2> QED
      BY <2>1, <2>2 DEF Made, Spent
  <1>12. ASSUME NEW v \in Workers, NEW u \in TxIds
         PROVE  (Has(v, u)' <=> Has(v, u)) /\ (Has(v, u) => work'[v] = work[v])
    BY <1>1, <1>6, <1>7, <1>8 DEF Has
  <1>13. Balanced'
    <2>1. ASSUME NEW u \in TxIds PROVE Taken(u)' <=> Taken(u)
      BY <1>3, <1>12 DEF Taken
    <2>2. ASSUME NEW u \in TxIds, NEW a PROVE Entry(u, a)' = Entry(u, a)
      BY <1>3, <1>10, <2>1 DEF Entry, Booked, RowEffect
    <2>3. ASSUME NEW a PROVE Onchain(a)' = Onchain(a)
      BY <1>11 DEF Onchain, Unspent, Pool
    <2>4. Ruined => Ruined'
      BY <1>3, <1>10, <1>12, RuinStays
    <2> QED
      BY <1>3, <2>2, <2>3, <2>4, BalancedStays DEF BookInv
  <1>14. GoodPlan(l.sel, Holder(l.wallet), l.rate) /\ \A o \in Holder(l.wallet) : o.wallet = l.wallet /\ o.sats \in Nat
    <2>1. GoodPlan(l.sel, Holder(l.wallet), l.rate)
      BY <1>3 DEF JobOK, Planned
    <2>2. \A o \in Holder(l.wallet) : IsOutput(o)
      BY HolderFacts
    <2> QED
      BY <2>1, <2>2 DEF IsOutput, Holder
  <1>15. /\ Coinage(Inputs(l))
         /\ \A a : Value(Of(Outputs(l, t), a)) - Value(Of(Inputs(l), a)) = Effect(l.kind, l.wallet, l.sel.amount, l.sel.fee, a)
    BY <1>14, SignedWorth
  <1>16. ASSUME NEW u \in TxIds PROVE BookRowOK(u)'
    <2>1. BookRowOK(u)
      BY DEF BookInv
    <2>2. CASE u = t
      BY <1>3, <1>5, <1>9, <1>10, <1>15, <2>2 DEF BookRowOK, Coinage
    <2>3. CASE u # t
      <3>1. chain'[u] = chain[u] /\ (u <= signed => u <= signed')
        BY <1>2, <1>3, <1>5, <2>3 DEF TxIds
      <3>2. \A a \in Wallets : Worth(u, a)' = Worth(u, a) /\ RowEffect(u, a)' = RowEffect(u, a)
        BY <1>3, <3>1 DEF Worth, RowEffect
      <3>3. Sent(u) => chain'[u].ins \subseteq Made({x \in TxIds : Known(x)})'
        BY <1>11, <2>1, <3>1 DEF BookRowOK, Pool
      <3> QED
        BY <1>3, <1>10, <1>12, <2>1, <3>1, <3>2, <3>3 DEF BookRowOK
    <2> QED
      BY <2>2, <2>3
  <1>17. BookJobOK(k)'
    <2>1. \A a \in Wallets : Worth(t, a)' = Effect(k.kind, k.wallet, k.sel.amount, k.sel.fee, a)
      BY <1>5, <1>7, <1>15 DEF Worth
    <2> QED
      BY <1>3, <1>6, <1>7, <1>9, <2>1 DEF BookJobOK, Before, Reserving, TxIds
  <1>18. ASSUME NEW v \in Workers, v # w PROVE BookJobOK(work[v])'
    <2>1. PICK m : m = work[v] /\ m = work'[v]
      BY <1>8, <1>18
    <2>2. BookJobOK(m) /\ m.tx # t
      <3>1. BookJobOK(m) /\ m.tx \in 0..signed
        BY <2>1 DEF BookInv, Inv, LocalOK
      <3> QED
        BY <1>2, <1>3, <3>1
    <2>3. m.tx \in TxIds => chain'[m.tx] = chain[m.tx] /\ (m.tx <= signed => m.tx <= signed')
      BY <1>2, <1>3, <1>5, <2>2 DEF TxIds
    <2>4. MatchesRow(m)' <=> MatchesRow(m)
      BY <1>3 DEF MatchesRow
    <2>5. BookJobOK(m)'
      BY <1>3, <2>2, <2>3, <2>4 DEF BookJobOK, MatchesRow, Worth, Known
    <2> QED
      BY <2>1, <2>5
  <1> QED
    BY <1>8, <1>13, <1>16, <1>17, <1>18 DEF BookInv

LEMMA BookAccept ==
    ASSUME Inv, PlanInv, BookInv, AmountsOK', NEW w \in Workers, At(w, "broadcast"), Accept(work[w].tx), Goto(w, "mark"),
           UNCHANGED <<balance, txs, signed>>
    PROVE  BookInv'
  <1>1. PICK l, t : l = work[w] /\ t = l.tx
    OBVIOUS
  <1>2. /\ l.pc = "broadcast" /\ JobOK(l) /\ BookJobOK(l) /\ LocalOK(l)
    BY <1>1 DEF PlanInv, BookInv, Inv, At
  <1>3. /\ t \in TxIds /\ txs[t].status = "pending" /\ ~txs[t].hash /\ l.created /\ l.moved /\ MatchesRow(l)
        /\ ~Sent(t) /\ Backed(t)
    BY <1>1, <1>2 DEF BookJobOK, MatchesRow, LocalOK, Unsending
  <1>4. \A u \in Pool : u \in TxIds /\ u # t /\ chain[u].ins \cap chain[t].ins = {}
    <2> TAKE u \in Pool
    <2>1. u \in TxIds /\ Sent(u) /\ Backed(u) /\ u # t
      BY <1>3 DEF Pool, Known, Sent, Inv
    <2> QED
      BY <1>3, <2>1 DEF Backed
  <1>5. Rivals(t) = {}
    BY <1>4 DEF Rivals, Pool
  <1>6. chain[t].ins \subseteq Made(Pool)
    BY <1>1 DEF Accept, Pool
  <1>7. /\ \A u \in TxIds : u # t => chain'[u] = chain[u]
        /\ chain'[t].state = "pool" /\ chain'[t].ins = chain[t].ins /\ chain'[t].outs = chain[t].outs
    <2>1. chain' = [u \in TxIds |-> CASE u = t -> [chain[u] EXCEPT !.state = "pool"]
                                      [] u \in Rivals(t) -> [chain[u] EXCEPT !.state = "dropped"]
                                      [] OTHER -> chain[u]]
      BY <1>1 DEF Accept
    <2>2. DOMAIN chain[t] = DOMAIN Unsent
      BY <1>3 DEF PlanInv, ShapesOK
    <2>3. chain'[t] = [chain[t] EXCEPT !.state = "pool"]
      BY <1>3, <1>5, <2>1
    <2>4. ASSUME NEW u \in TxIds, u # t PROVE chain'[u] = chain[u]
      BY <1>5, <2>1, <2>4
    <2> QED
      BY <2>2, <2>3, <2>4 DEF Unsent
  <1>8. /\ \A u \in TxIds : chain'[u].ins = chain[u].ins /\ chain'[u].outs = chain[u].outs
        /\ \A u \in TxIds : u # t => (Known(u)' <=> Known(u)) /\ (Sent(u)' <=> Sent(u))
        /\ ~Known(t) /\ Known(t)' /\ Sent(t)'
    BY <1>3, <1>7 DEF Known, Sent
  <1>9. Pool' = Pool \cup {t} /\ Pool \subseteq TxIds
    BY <1>3, <1>8 DEF Pool
  <1>10. Made(Pool)' = Made(Pool \cup {t}) /\ Spent(Pool)' = Spent(Pool \cup {t})
    <2>1. Pool \cup {t} \subseteq TxIds
      BY <1>3, <1>9
    <2>2. PICK S : S = Pool \cup {t} /\ S \subseteq TxIds
      BY <2>1
    <2>3. Made(S)' = Made(S) /\ Spent(S)' = Spent(S)
      BY <1>8, <2>2 DEF Made, Spent
    <2> QED
      BY <1>9, <2>2, <2>3 DEF Made, Spent
  <1>11. PICK k : work' = [work EXCEPT ![w] = k] /\ SameJob(l, k) /\ k.pc = "mark"
    <2> DEFINE k == [l EXCEPT !.pc = "mark"]
    <2>1. work' = [work EXCEPT ![w] = k]
      BY <1>1 DEF Goto
    <2>2. SameJob(l, k) /\ k.pc = "mark"
      BY <1>2 DEF JobOK, Idle, SameJob
    <2> HIDE DEF k
    <2> QED
      BY <2>1, <2>2
  <1>12. work'[w] = k /\ \A v \in Workers : v # w => work'[v] = work[v]
    BY <1>11 DEF PlanInv, ShapesOK
  <1>13. ASSUME NEW v \in Workers, NEW u
         PROVE  /\ Has(v, u)' <=> Has(v, u)
                /\ work'[v].moved = work[v].moved
                /\ work'[v].pc = "undoBalances" <=> work[v].pc = "undoBalances"
                /\ work'[v].pc = "undoTx" <=> work[v].pc = "undoTx"
    <2>1. CASE v = w
      BY <1>1, <1>2, <1>11, <1>12, <2>1 DEF Has, SameJob
    <2>2. CASE v # w
      BY <1>12, <2>2 DEF Has
    <2> QED
      BY <2>1, <2>2
  <1>14. ASSUME NEW u \in TxIds PROVE Taken(u)' <=> Taken(u)
    BY <1>13 DEF Taken
  <1>15. BookRowOK(t) /\ \A a \in Wallets : Worth(t, a) = RowEffect(t, a)
    BY <1>3 DEF BookInv, BookRowOK
  <1>16. ASSUME NEW u \in TxIds, NEW a PROVE RowEffect(u, a)' = RowEffect(u, a) /\ Booked(u, a)' = Booked(u, a)
    BY <1>14 DEF RowEffect, Booked
  <1>17. Balanced'
    <2>1. ASSUME NEW a \in Wallets, NEW u \in TxIds, u # t PROVE Entry(u, a)' = Entry(u, a)
      BY <1>8, <1>16, <2>1 DEF Entry
    <2>2. ASSUME NEW a \in Wallets
          PROVE  Onchain(a)' \in Int /\ balance'[a] - balance[a] = (Onchain(a)' - Onchain(a)) + (Entry(t, a)' - Entry(t, a))
      <3>1. Value(Unspent(Pool \cup {t}, a)) = Onchain(a) + Worth(t, a)
        BY <1>3, <1>4, <1>6, AcceptedWorth DEF BookInv
      <3>2. Unspent(Pool, a)' = Unspent(Pool \cup {t}, a)
        BY <1>10 DEF Unspent
      <3>3. Onchain(a)' = Value(Unspent(Pool, a)')
        BY DEF Onchain, Pool, Value
      <3>4. PICK x \in Int : x = RowEffect(t, a)
        BY <1>3, EntryType DEF PlanInv
      <3>5. PICK y \in Int : y = Onchain(a)
        BY OnchainType
      <3>6. Onchain(a)' = y + x
        BY <1>15, <3>1, <3>2, <3>3, <3>4, <3>5
      <3>7. Booked(t, a) \in Int /\ Entry(t, a) = Booked(t, a) - 0
        <4>1. Entry(t, a) \in Int /\ txs[t].amount \in Nat
          BY <1>3, EntryType DEF PlanInv, AmountsOK
        <4>2. Booked(t, a) \in Int
          BY <1>3, <4>1 DEF Booked
        <4> QED
          BY <1>8, <4>2 DEF Entry
      <3>8. Entry(t, a)' = Booked(t, a) - x
        BY <1>3, <1>8, <1>16, <3>4 DEF Entry
      <3>9. balance[a] \in Int /\ balance'[a] = balance[a]
        BY DEF PlanInv, AmountsOK
      <3> QED
        BY <3>5, <3>6, <3>7, <3>8, <3>9
    <2>3. Ruined => Ruined'
      BY <1>8, <1>13, RuinStays
    <2> QED
      BY <1>3, <2>1, <2>2, <2>3, BalancedMoves DEF BookInv
  <1>18. ASSUME NEW u \in TxIds PROVE BookRowOK(u)'
    <2>1. BookRowOK(u)
      BY DEF BookInv
    <2>2. \A a \in Wallets : Worth(u, a)' = Worth(u, a)
      BY <1>8 DEF Worth
    <2>3. Made(Pool) \subseteq Made(Pool)'
      BY <1>10 DEF Made
    <2>4. Sent(u)' => chain'[u].ins \subseteq Made({x \in TxIds : Known(x)})'
      <3>1. chain'[u].ins = chain[u].ins /\ (Sent(u) => chain[u].ins \subseteq Made(Pool))
        BY <1>8, <2>1 DEF BookRowOK, Pool
      <3>2. Sent(u)' => chain'[u].ins \subseteq Made(Pool)'
        BY <1>6, <1>8, <2>3, <3>1
      <3> QED
        BY <3>2 DEF Pool
    <2> QED
      BY <1>3, <1>8, <1>13, <1>16, <2>1, <2>2, <2>4 DEF BookRowOK
  <1>19. BookJobOK(k)'
    <2>1. MatchesRow(k)'
      BY <1>3, <1>11 DEF MatchesRow, SameJob
    <2> QED
      BY <1>1, <1>2, <1>3, <1>8, <1>11, <2>1 DEF BookJobOK, SameJob, Before, Reserving
  <1>20. ASSUME NEW v \in Workers, v # w PROVE BookJobOK(work[v])'
    <2>1. PICK m : m = work[v] /\ m = work'[v]
      BY <1>12, <1>20
    <2>2. BookJobOK(m) /\ (MatchesRow(m)' <=> MatchesRow(m))
      BY <2>1 DEF BookInv, MatchesRow
    <2>3. m.tx \in TxIds => (Known(m.tx) => Known(m.tx)') /\ \A a \in Wallets : Worth(m.tx, a)' = Worth(m.tx, a)
      BY <1>8 DEF Worth
    <2>4. BookJobOK(m)'
      BY <2>2, <2>3 DEF BookJobOK, MatchesRow
    <2> QED
      BY <2>1, <2>4
  <1> QED
    BY <1>12, <1>17, <1>18, <1>19, <1>20 DEF BookInv

LEMMA BookBroadcast ==
    ASSUME Inv, PlanInv, BookInv, AmountsOK', NEW w \in Workers, Broadcast(w), "lost" \notin Outcomes
    PROVE  BookInv'
  <1>1. work[w].pc = "broadcast" /\ At(w, "broadcast") /\ UNCHANGED <<balance, txs, signed>>
    BY DEF Broadcast, At, ledger
  <1>2. CASE Accept(work[w].tx) /\ Goto(w, "mark")
    BY <1>1, <1>2, BookAccept
  <1>3. ASSUME NEW mark, Undo(w, mark), UNCHANGED chain PROVE BookInv'
    BY <1>1, <1>3, BookUndo
  <1> QED
    BY <1>2, <1>3 DEF Broadcast


\* A block changes nothing that the books are compared with.
LEMMA BookMine ==
    ASSUME PlanInv, BookInv, NEW t \in TxIds, Mine(t)
    PROVE  BookInv'
  <1>1. /\ chain[t].state = "pool" /\ chain' = [chain EXCEPT ![t].state = "mined"]
        /\ UNCHANGED <<balance, txs, signed, work>>
    BY DEF Mine, ledger
  <1>2. \A u \in TxIds : /\ chain'[u].ins = chain[u].ins /\ chain'[u].outs = chain[u].outs
                         /\ (Known(u)' <=> Known(u)) /\ (Sent(u)' <=> Sent(u))
    BY <1>1 DEF PlanInv, ShapesOK, Unsent, Known, Sent
  <1>3. Pool' = Pool /\ Made(Pool)' = Made(Pool) /\ Spent(Pool)' = Spent(Pool)
    <2>1. Pool' = Pool /\ Pool \subseteq TxIds
      BY <1>2 DEF Pool
    <2> QED
      BY <1>2, <2>1 DEF Made, Spent
  <1>4. Balanced'
    <2>1. ASSUME NEW u \in TxIds, NEW a PROVE Entry(u, a)' = Entry(u, a)
      BY <1>1, <1>2 DEF Entry, Booked, RowEffect, Taken, Has
    <2>2. ASSUME NEW a PROVE Onchain(a)' = Onchain(a)
      BY <1>3 DEF Onchain, Unspent, Pool
    <2>3. Ruined => Ruined'
      BY <1>1, <1>2 DEF Ruined, Has
    <2> QED
      BY <1>1, <2>1, <2>2, <2>3, BalancedStays DEF BookInv
  <1>5. ASSUME NEW u \in TxIds PROVE BookRowOK(u)'
    <2>1. BookRowOK(u) /\ \A a \in Wallets : Worth(u, a)' = Worth(u, a) /\ RowEffect(u, a)' = RowEffect(u, a)
      BY <1>1, <1>2 DEF BookInv, Worth, RowEffect
    <2>2. Sent(u)' => chain'[u].ins \subseteq Made({x \in TxIds : Known(x)})'
      BY <1>2, <1>3, <2>1 DEF BookRowOK, Pool
    <2> QED
      BY <1>1, <1>2, <2>1, <2>2 DEF BookRowOK, Has
  <1>6. ASSUME NEW v \in Workers PROVE BookJobOK(work[v])'
    <2>1. PICK m : m = work[v] /\ m = work'[v]
      BY <1>1
    <2>2. BookJobOK(m) /\ (MatchesRow(m)' <=> MatchesRow(m))
      BY <1>1, <2>1 DEF BookInv, MatchesRow
    <2>3. m.tx \in TxIds => (Known(m.tx)' <=> Known(m.tx)) /\ \A a \in Wallets : Worth(m.tx, a)' = Worth(m.tx, a)
      BY <1>2 DEF Worth
    <2>4. BookJobOK(m)'
      BY <1>1, <2>2, <2>3 DEF BookJobOK, MatchesRow
    <2> QED
      BY <2>1, <2>4
  <1> QED
    BY <1>4, <1>5, <1>6 DEF BookInv

\* A receipt takes the fee, and gives what was swept to the outbound wallet.
LEMMA BookSettle ==
    ASSUME PlanInv, BookInv, AmountsOK', NEW t \in TxIds, Settle(t)
    PROVE  BookInv'
  <1>1. PICK r : r = txs[t]
    OBVIOUS
  <1>2. /\ r.status = "pending" /\ r.hash /\ chain[t].state = "mined" /\ UNCHANGED <<signed, chain, work>>
        /\ txs' = [txs EXCEPT ![t].status = "completed"] /\ BookRowOK(t)
    BY <1>1 DEF Settle, BookInv
  <1>3. Known(t) /\ r.wallet \in Wallets
    BY <1>1, <1>2 DEF BookRowOK
  <1>4. /\ txs'[t].status = "completed" /\ txs'[t].kind = r.kind /\ txs'[t].wallet = r.wallet
        /\ txs'[t].amount = r.amount /\ txs'[t].fee = r.fee /\ txs'[t].hash = r.hash
        /\ DOMAIN txs' = TxIds /\ \A u \in TxIds : u # t => txs'[u] = txs[u]
    BY <1>1, <1>2 DEF PlanInv, AmountsOK, NoRow
  <1>5. PICK amount \in Nat : amount = r.amount
    BY <1>1 DEF PlanInv, AmountsOK
  <1>6. PICK fee \in Nat : fee = r.fee
    BY <1>1 DEF PlanInv, AmountsOK
  <1>7. Taken(t)
    <2>1. ASSUME NEW v \in Workers, Has(v, t) PROVE work[v].moved
      <3>1. BookJobOK(work[v]) /\ work[v].tx = t /\ work[v].created
        BY <2>1 DEF BookInv, Has
      <3> QED
        BY <1>1, <1>2, <3>1 DEF BookJobOK
    <2> QED
      BY <1>1, <1>2, <2>1 DEF Taken
  <1>8. ASSUME NEW a, NEW u \in TxIds, u # t PROVE Entry(u, a)' = Entry(u, a)
    BY <1>2, <1>4, <1>8 DEF Entry, Booked, Taken, Has, RowEffect, Known
  <1>9. ASSUME NEW a \in Wallets
        PROVE  Entry(t, a)' - Entry(t, a) =
                 (IF r.kind = "sweep" /\ a = Outbound THEN amount ELSE 0) - (IF a = r.wallet THEN fee ELSE 0)
    <2>1. PICK x \in Nat : x = IF r.kind = "sweep" /\ a = Outbound THEN amount ELSE 0
      OBVIOUS
    <2>2. RowEffect(t, a) = x - (IF a = r.wallet THEN amount + fee ELSE 0)
      BY <1>1, <1>5, <1>6, <2>1 DEF RowEffect, Effect
    <2>3. RowEffect(t, a)' = RowEffect(t, a)
      BY <1>1, <1>4 DEF RowEffect
    <2>4. Booked(t, a) = IF a = r.wallet THEN -amount ELSE 0
      BY <1>1, <1>2, <1>5, <1>7 DEF Booked
    <2>5. Booked(t, a)' = RowEffect(t, a)
      BY <1>4, <2>3 DEF Booked
    <2>6. PICK y \in Int : y = RowEffect(t, a)
      BY <2>2
    <2>7. Entry(t, a) = Booked(t, a) - y /\ Entry(t, a)' = y - y
      BY <1>2, <1>3, <2>3, <2>5, <2>6 DEF Entry, Known
    <2> QED
      BY <2>1, <2>2, <2>4, <2>6, <2>7
  <1>10. ASSUME NEW a \in Wallets
         PROVE  balance'[a] - balance[a] =
                  (IF r.kind = "sweep" /\ a = Outbound THEN amount ELSE 0) - (IF a = r.wallet THEN fee ELSE 0)
    <2>1. balance \in [Wallets -> Int] /\ Outbound \in Wallets /\ balance[a] \in Int
      BY DEF PlanInv, AmountsOK, Wallets
    <2>2. PICK from : from = [balance EXCEPT ![r.wallet] = @ - fee]
      OBVIOUS
    <2>3. from[a] = (IF a = r.wallet THEN balance[a] - fee ELSE balance[a]) /\ DOMAIN from = Wallets
      BY <2>1, <2>2
    <2>4. balance' = IF r.kind = "sweep" THEN [from EXCEPT ![Outbound] = @ + amount] ELSE from
      BY <1>1, <1>5, <1>6, <2>2 DEF Settle
    <2>5. balance'[a] = IF r.kind = "sweep" /\ a = Outbound THEN from[a] + amount ELSE from[a]
      BY <2>1, <2>3, <2>4
    <2> QED
      BY <2>1, <2>3, <2>5
  <1>11. ASSUME NEW a PROVE Onchain(a)' = Onchain(a)
    BY <1>2 DEF Onchain, Unspent, Made, Spent, Known
  <1>12. Balanced'
    <2>1. ASSUME NEW a \in Wallets
          PROVE  Onchain(a)' \in Int /\ balance'[a] - balance[a] = (Onchain(a)' - Onchain(a)) + (Entry(t, a)' - Entry(t, a))
      <3>1. Onchain(a) \in Int
        BY OnchainType
      <3> QED
        BY <1>9, <1>10, <1>11, <3>1
    <2>2. Ruined => Ruined'
      BY <1>1, <1>2, <1>4 DEF Ruined, Has, Sent
    <2> QED
      BY <1>8, <2>1, <2>2, BalancedMoves DEF BookInv
  <1>13. ASSUME NEW u \in TxIds PROVE BookRowOK(u)'
    <2>1. BookRowOK(u)
      BY DEF BookInv
    <2>2. CASE u = t
      BY <1>1, <1>2, <1>3, <1>4, <2>1, <2>2 DEF BookRowOK, Worth, RowEffect, Known, Sent, Made
    <2>3. CASE u # t
      BY <1>2, <1>4, <2>1, <2>3 DEF BookRowOK, Worth, RowEffect, Known, Sent, Made, Has
    <2> QED
      BY <2>2, <2>3
  <1>14. ASSUME NEW v \in Workers PROVE BookJobOK(work[v])'
    <2>1. PICK m : m = work[v] /\ m = work'[v]
      BY <1>2
    <2>2. BookJobOK(m)
      BY <2>1 DEF BookInv
    <2>3. CASE m.tx = t
      <3>1. MatchesRow(m)' <=> MatchesRow(m)
        BY <1>1, <1>4, <2>3 DEF MatchesRow
      <3>2. m.created => m.pc \notin {"decrement", "broadcast", "release", "mark", "setHash", "undoBalances", "failPayment"}
        BY <1>1, <1>2, <2>2, <2>3 DEF BookJobOK
      <3>3. m.pc # "createTx" /\ Known(t)' /\ txs[t].hash
        BY <1>1, <1>2, <1>3, <2>2, <2>3 DEF BookJobOK, Known
      <3>4. BookJobOK(m)'
        BY <1>1, <1>2, <1>3, <1>4, <2>2, <2>3, <3>1, <3>2, <3>3 DEF BookJobOK
      <3> QED
        BY <2>1, <3>4
    <2>4. CASE m.tx # t
      <3>1. m.tx \in TxIds => txs'[m.tx] = txs[m.tx]
        BY <1>4, <2>4
      <3>2. BookJobOK(m)'
        BY <1>2, <2>2, <3>1 DEF BookJobOK, MatchesRow, Worth, Known
      <3> QED
        BY <2>1, <3>2
    <2> QED
      BY <2>3, <2>4
  <1> QED
    BY <1>12, <1>13, <1>14 DEF BookInv

LEMMA BookStays ==
    ASSUME BookInv, UNCHANGED <<balance, txs, signed, chain, work>>
    PROVE  BookInv'
  <1>1. Balanced'
    BY DEF BookInv, Balanced, Ruined, Onchain, Lag, Entry, Booked, RowEffect, Taken, Has, Known, Sent, Unspent, Made, Spent
  <1>2. ASSUME NEW u \in TxIds PROVE BookRowOK(u)'
    BY DEF BookInv, BookRowOK, Worth, RowEffect, Known, Sent, Made, Has
  <1>3. ASSUME NEW v \in Workers PROVE BookJobOK(work[v])'
    BY DEF BookInv, BookJobOK, MatchesRow, Worth, Known
  <1> QED
    BY <1>1, <1>2, <1>3 DEF BookInv

LEMMA BookInit == Init => BookInv
  <1> SUFFICES ASSUME Init PROVE BookInv
    OBVIOUS
  <1>1. /\ \A t \in TxIds : txs[t] = NoRow /\ chain[t] = Unsent
        /\ \A w \in Workers : work[w] = Idle
        /\ balance = [a \in Wallets |-> Value({o \in Coins : o.wallet = a})]
    BY DEF Init
  <1>2. \A t \in TxIds : ~Known(t) /\ ~Sent(t) /\ txs[t].status = "none" /\ txs[t].hash = FALSE
    BY <1>1 DEF Known, Sent, Unsent, NoRow
  <1>3. ASSUME NEW t \in TxIds PROVE BookRowOK(t)
    BY <1>1, <1>2, FS_EmptySet, SMTT(30) DEF BookRowOK, Unsent
  <1>4. BookJobOK(Idle)
    BY DEF BookJobOK, Idle
  <1>5. ASSUME NEW a \in Wallets PROVE balance[a] = Onchain(a) + Total(Lag(a))
    <2>1. {t \in TxIds : Known(t)} = {}
      BY <1>2
    <2>2. Unspent({}, a) = {o \in Coins : o.wallet = a}
      BY DEF Unspent, Made, Spent
    <2>3. Onchain(a) = balance[a]
      BY <1>1, <2>1, <2>2 DEF Onchain
    <2>4. PICK f : f = Lag(a)
      OBVIOUS
    <2>5. f \in [TxIds -> {0}]
      <3>1. ASSUME NEW t \in TxIds PROVE Entry(t, a) = 0
        BY <1>2 DEF Entry, Booked, Taken
      <3> QED
        BY <2>4, <3>1 DEF Lag
    <2>6. IsFiniteSet(TxIds)
      BY FS_Interval DEF TxIds
    <2>7. Total(f) = 0
      BY <2>5, <2>6, TotalZero
    <2>8. balance[a] \in Int
      BY PlanInit DEF PlanInv, AmountsOK
    <2> QED
      BY <2>3, <2>4, <2>7, <2>8
  <1> QED
    BY <1>1, <1>3, <1>4, <1>5 DEF BookInv, Balanced

LEMMA BookNext ==
    ASSUME "lost" \notin Outcomes, "crash" \notin Faults
    PROVE  Inv /\ PlanInv /\ BookInv /\ [Next]_vars => BookInv'
  <1> SUFFICES ASSUME Inv, PlanInv, BookInv, [Next]_vars PROVE BookInv'
    OBVIOUS
  <1>1. AmountsOK'
    BY PlanNext DEF PlanInv
  <1>2. CASE UNCHANGED vars
    BY <1>2, BookStays DEF vars
  <1>3. ASSUME NEW p \in Withdrawals, CreateWithdrawal(p) PROVE BookInv'
    BY <1>3, BookStays DEF CreateWithdrawal, ledger
  <1>4. ASSUME NEW w \in Workers, NEW p \in Withdrawals, StartWithdrawal(w, p) PROVE BookInv'
    BY <1>4, BookStart
  <1>5. ASSUME NEW w \in Workers, Step(w) PROVE BookInv'
    BY <1>1, <1>5, BookResolve, BookNextSweep, BookCheckBalances, BookPlan, BookReserve, BookSign, BookCreateTx,
       BookDecrement, BookBroadcast, BookSetHash, BookUndoTx, BookUndoBalances, BookRest DEF Step
  <1>6. ASSUME NEW w \in Workers, Error(w) \/ Crash(w) PROVE BookInv'
    BY <1>6, BookRest DEF Crash
  <1>7. ASSUME NEW t \in TxIds, Mine(t) \/ Settle(t) PROVE BookInv'
    BY <1>1, <1>7, BookMine, BookSettle
  <1>8. ASSUME NEW o, Expire(o) PROVE BookInv'
    BY <1>8, BookStays DEF Expire, ledger
  <1> QED
    BY <1>2, <1>3, <1>4, <1>5, <1>6, <1>7, <1>8 DEF Next

\* Between what the books hold and what the chain shows there is exactly what the
\* transactions under way explain, in every reachable state.
THEOREM BooksInvariant ==
    "lost" \notin Outcomes /\ "crash" \notin Faults => (Spec => []BookInv)
  <1> SUFFICES ASSUME "lost" \notin Outcomes, "crash" \notin Faults PROVE Spec => []BookInv
    OBVIOUS
  <1>1. Spec => []Inv
    BY InductiveInvariant
  <1>2. Inv /\ PlanInv /\ BookInv /\ [Next]_vars => BookInv'
    BY BookNext
  <1> QED
    BY <1>1, <1>2, PlansInvariant, BookInit, PTL DEF Spec

\* Once no goroutine is at work and every transaction sent is completed, each wallet's
\* balance is what its outputs are worth: createWithdrawal, the sweeps, their rollbacks
\* and the receipts took every amount and fee exactly once, whichever errors and late
\* listings there were.  A goroutine that dies after it took the amount, and a broadcast
\* whose answer is lost, are left out: the code does not make up for them.
THEOREM BooksAreRight ==
    "lost" \notin Outcomes /\ "crash" \notin Faults => (Spec => []BooksMatchOutputs)
  <1>1. PlanInv /\ BookInv => BooksMatchOutputs
    <2> SUFFICES ASSUME PlanInv, BookInv, Quiet, \A t \in TxIds : (Sent(t) => txs[t].status = "completed"),
                        NEW a \in Wallets
                 PROVE  balance[a] = Onchain(a)
      BY DEF BooksMatchOutputs, Onchain
    <2>1. \A w \in Workers : work[w].created = FALSE /\ work[w].pc = "idle"
      BY DEF Quiet, Idle
    <2>2. \A t \in TxIds, w \in Workers : ~Has(w, t)
      BY <2>1 DEF Has
    <2>3. ~Ruined
      BY <2>2 DEF Ruined
    <2>4. balance[a] = Onchain(a) + Total(Lag(a))
      BY <2>3 DEF BookInv, Balanced
    <2>5. ASSUME NEW t \in TxIds PROVE Entry(t, a) = 0
      <3>1. BookRowOK(t) /\ RowEffect(t, a) \in Int
        BY EntryType DEF BookInv, PlanInv
      <3>2. Known(t) => Sent(t)
        BY DEF Known, Sent
      <3>3. CASE txs[t].status = "completed"
        <4>1. Known(t) /\ Booked(t, a) = RowEffect(t, a)
          BY <3>1, <3>3 DEF BookRowOK, Booked
        <4> QED
          BY <3>1, <4>1 DEF Entry
      <3>4. CASE txs[t].status # "completed"
        <4>1. ~Known(t) /\ txs[t].status # "pending"
          BY <2>2, <3>1, <3>2, <3>4 DEF BookRowOK
        <4>2. ~Taken(t)
          BY <2>2, <4>1 DEF Taken
        <4> QED
          BY <3>4, <4>1, <4>2 DEF Entry, Booked
      <3> QED
        BY <3>3, <3>4
    <2>6. PICK f : f = Lag(a)
      OBVIOUS
    <2>7. f \in [TxIds -> {0}]
      BY <2>5, <2>6 DEF Lag
    <2>8. IsFiniteSet(TxIds)
      BY FS_Interval DEF TxIds
    <2>9. Total(f) = 0 /\ Onchain(a) \in Int
      BY <2>7, <2>8, TotalZero, OnchainType
    <2> QED
      BY <2>4, <2>6, <2>9
  <1> SUFFICES ASSUME "lost" \notin Outcomes, "crash" \notin Faults PROVE Spec => []BooksMatchOutputs
    OBVIOUS
  <1>2. Spec => []BookInv
    BY BooksInvariant
  <1> QED
    BY <1>1, <1>2, PlansInvariant, PTL
=============================================================================
