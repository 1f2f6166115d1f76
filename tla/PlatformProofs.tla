---------------------------- MODULE PlatformProofs ----------------------------
(***************************************************************************)
(* Four of the parts the payments rest on.                                 *)
(*                                                                         *)
(* The system's wallets: whoever makes them, at a time and dying anywhere, *)
(* a row names a key of its own that the KMS has, because the key a        *)
(* process got is in no row and with no other process until it is stored.  *)
(* A listing sees every inbound wallet that was there when it began.       *)
(*                                                                         *)
(* Subscriptions: any configurations, any number of starts, stops and      *)
(* failures between any two steps, and any jobs that subscribe the wallet  *)
(* at a time.  The invariant says what a recorded value is evidence of: a  *)
(* flag in the registry, of a secret that Tatum has; an id, in the table   *)
(* or on its way there, of a subscription.                                 *)
(*                                                                         *)
(* Sweeps and top-ups: any number of wallets, currencies, goroutines and   *)
(* transactions, failing anywhere.  For each wallet and currency what the  *)
(* database says plus what the transactions lag behind is what the chain   *)
(* holds; so the books match once nothing lags, and what the wallets own   *)
(* together is never more than the chain holds and was paid in fees.       *)
(*                                                                         *)
(* Prices and fees: any currencies, rates, amounts and gas prices.  What   *)
(* is cached for a pair is a rate of that very pair, and every quote comes *)
(* with the rate it was made at, so that the rounding can be bounded.      *)
(***************************************************************************)
EXTENDS InternalTransfer, Subscriptions, Pricing, TableTheorems, TLAPS

-----------------------------------------------------------------------------
(* The system's wallets: what the proof rests on *)

\* The rows are such as the program leaves them: the KMS made a key for each.
FirstRows(rows) ==
    /\ rows \in Seq([key: Keys, type: Types]) /\ Len(rows) <= MaxKeys
    /\ rows # <<>> => Chain \in Providers
    /\ \A i \in DOMAIN rows :
         /\ rows[i].key = i
         /\ rows[i].type = "other" => \E c \in Chains : c # Chain

\* The KMS has the key and will sign with it for the blockchain.
Ours(k) == Chain \in Providers /\ k \in Keys /\ keys[k].state = "live" /\ keys[k].chain = Chain

KeysOK ==
    /\ keys = [k \in Keys |-> keys[k]]
    /\ \A k \in Keys : keys[k] = [state |-> keys[k].state, chain |-> keys[k].chain]

WalletOK(x) ==
    /\ x.type # "other" => Ours(x.key)
    /\ x.type = "other" => x.key \in Keys /\ keys[x.key].state = "live" /\ keys[x.key].chain # Chain

RowsOK ==
    /\ wallets \in Seq([key: Keys, type: Types])
    /\ \A i \in Ids : WalletOK(wallets[i])
    /\ \A i, l \in Ids : i # l => wallets[i].key # wallets[l].key

\* A process about to insert a row has a key of its own, which no row has yet.
ProcOK(l) ==
    /\ l.want \in {"inbound", "outbound"}
    /\ IF l.pc = "insert" THEN Ours(l.key) /\ \A i \in Ids : wallets[i].key # l.key
       ELSE l.key = 0
ProcsOK ==
    /\ proc = [j \in Processes |-> proc[j]]
    /\ \A j \in Processes : DOMAIN proc[j] = DOMAIN Resting /\ ProcOK(proc[j])
    /\ \A j, l \in Processes : j # l /\ In(j, "insert") /\ In(l, "insert") => proc[j].key # proc[l].key

WalletsInv == KeysOK /\ RowsOK /\ ProcsOK

USE KeyManagementAssumption, SystemWalletsAssumption

-----------------------------------------------------------------------------
(* Who signs *)

\* A list names each of its parameters once.
Distinct(s) ==
    /\ DOMAIN s \subseteq Int /\ \A i \in DOMAIN s : s[i] # "none"
    /\ \A i, l \in DOMAIN s : s[i] = s[l] => i = l

LEMMA EthDistinct == Distinct(EthTransactionParams)
  <1> DEFINE s == EthTransactionParams
  <1>1. /\ DOMAIN s = 1..7 /\ s[1] = "type" /\ s[2] = "recipient" /\ s[3] = "contract"
        /\ s[4] = "amount" /\ s[5] = "gas" /\ s[6] = "network" /\ s[7] = "nonce"
    BY DEF EthTransactionParams
  <1>2. \A i \in 1..7 : i = 1 \/ i = 2 \/ i = 3 \/ i = 4 \/ i = 5 \/ i = 6 \/ i = 7
    OBVIOUS
  <1> HIDE DEF s
  <1>3. DOMAIN s \subseteq Int /\ \A i \in DOMAIN s : s[i] # "none"
    BY <1>1, <1>2
  <1>4. ASSUME NEW i \in DOMAIN s, NEW l \in DOMAIN s, s[i] = s[l] PROVE i = l
    BY <1>1, <1>2, <1>4
  <1>5. Distinct(s)
    BY <1>3, <1>4 DEF Distinct
  <1> QED
    BY <1>5 DEF s

LEMMA TronDistinct == Distinct(TronTransactionParams)
  <1> DEFINE s == TronTransactionParams
  <1>1. /\ DOMAIN s = 1..5 /\ s[1] = "type" /\ s[2] = "recipient" /\ s[3] = "contract"
        /\ s[4] = "gas" /\ s[5] = "amount"
    BY DEF TronTransactionParams
  <1>2. \A i \in 1..5 : i = 1 \/ i = 2 \/ i = 3 \/ i = 4 \/ i = 5
    OBVIOUS
  <1> HIDE DEF s
  <1>3. DOMAIN s \subseteq Int /\ \A i \in DOMAIN s : s[i] # "none"
    BY <1>1, <1>2
  <1>4. ASSUME NEW i \in DOMAIN s, NEW l \in DOMAIN s, s[i] = s[l] PROVE i = l
    BY <1>1, <1>2, <1>4
  <1>5. Distinct(s)
    BY <1>3, <1>4 DEF Distinct
  <1> QED
    BY <1>5 DEF s

LEMMA BitcoinDistinct == Distinct(BitcoinTransactionParams)
  <1> DEFINE s == BitcoinTransactionParams
  <1>1. /\ DOMAIN s = 1..5 /\ s[1] = "amount" /\ s[2] = "sender" /\ s[3] = "inputs"
        /\ s[4] = "recipient" /\ s[5] = "balance"
    BY DEF BitcoinTransactionParams
  <1>2. \A i \in 1..5 : i = 1 \/ i = 2 \/ i = 3 \/ i = 4 \/ i = 5
    OBVIOUS
  <1> HIDE DEF s
  <1>3. DOMAIN s \subseteq Int /\ \A i \in DOMAIN s : s[i] # "none"
    BY <1>1, <1>2
  <1>4. ASSUME NEW i \in DOMAIN s, NEW l \in DOMAIN s, s[i] = s[l] PROVE i = l
    BY <1>1, <1>2, <1>4
  <1>5. Distinct(s)
    BY <1>3, <1>4 DEF Distinct
  <1> QED
    BY <1>5 DEF s

LEMMA MinOfOne == ASSUME NEW i \in Int PROVE Min({i}) = i
  <1>1. \E x \in {i} : \A y \in {i} : x =< y
    OBVIOUS
  <1> QED
    BY <1>1, Zenon DEF Min

\* There is a defect to report exactly if there is one that applies.
LEMMA OneDefect ==
    ASSUME NEW f \in {"evm", "tron", "utxo"}, NEW token \in BOOLEAN,
           NEW d \in {"none"} \cup ToSet(Validated[f])
    PROVE  validate(f, token, {d}) = "none" <=> (d = "none" \/ ~Applies(d, f, token))
  <1> DEFINE params == Validated[f]
             found == {i \in DOMAIN params : params[i] \in {d} /\ Applies(params[i], f, token)}
  <1>1. Distinct(params)
    <2>1. CASE f = "evm"
      BY <2>1, EthDistinct DEF Validated
    <2>2. CASE f = "tron"
      BY <2>2, TronDistinct DEF Validated
    <2>3. CASE f = "utxo"
      BY <2>3, BitcoinDistinct DEF Validated
    <2> QED
      BY <2>1, <2>2, <2>3
  <1> HIDE DEF params
  <1>3. d # "none" => \E i \in DOMAIN params : params[i] = d
    BY DEF ToSet, params
  <1>4. ASSUME NEW i \in found PROVE Min(found) = i
    <2>1. found = {i} /\ i \in Int
      BY <1>1, <1>4 DEF Distinct
    <2> HIDE DEF found
    <2> QED
      BY <2>1, MinOfOne
  <1>5. found = {} <=> (d = "none" \/ ~Applies(d, f, token))
    BY <1>1, <1>3 DEF Distinct
  <1>6. validate(f, token, {d}) = IF found = {} THEN "none" ELSE params[Min(found)]
    BY DEF validate, params
  <1>7. found # {} => params[Min(found)] # "none"
    <2>1. ASSUME NEW i \in found PROVE params[Min(found)] # "none"
      BY <1>1, <1>4, <2>1 DEF Distinct
    <2> QED
      BY <2>1
  <1> QED
    BY <1>5, <1>6, <1>7

LEMMA OursSign ==
    ASSUME NEW k, Ours(k) PROVE KmsSigns(k)
  <1> SUFFICES ASSUME NEW token \in BOOLEAN, NEW d \in {"none"} \cup ToSet(Validated[Family[Chain]])
               PROVE  CreateTransaction(k, Chain, token, {d}, "ok") = "signed"
                        <=> d = "none" \/ ~Applies(d, Family[Chain], token)
    BY DEF KmsSigns
  <1>1. Family[Chain] \in {"evm", "tron", "utxo"}
    OBVIOUS
  <1>2. Get(k, FALSE) = "wallet"
    BY DEF Get, Ours
  <1>3. newTronTransaction(token, "ok") = "signed"
    BY DEF newTronTransaction
  <1>4. CreateTransaction(k, Chain, token, {d}, "ok") = "signed"
          <=> validate(Family[Chain], token, {d}) = "none"
    BY <1>1, <1>2, <1>3 DEF CreateTransaction, Ours, transactionCreationFailed
  <1> QED
    BY <1>1, <1>4, OneDefect

LEMMA OthersDoNotSign ==
    ASSUME NEW k, keys[k].state = "live", keys[k].chain # Chain PROVE ~KmsSigns(k)
  <1>1. Get(k, FALSE) = "wallet"
    BY DEF Get
  <1>2. CreateTransaction(k, Chain, TRUE, {"none"}, "ok") # "signed"
    BY <1>1 DEF CreateTransaction
  <1> QED
    BY <1>2 DEF KmsSigns

-----------------------------------------------------------------------------
LEMMA WalletsInitInv ==
    ASSUME NEW rows, FirstRows(rows), WalletsInit(rows) PROVE WalletsInv
  <1>1. KeysOK
    BY DEF WalletsInit, KeysOK, NoKey
  <1>2. RowsOK
    <2>1. ASSUME NEW i \in DOMAIN rows
          PROVE  /\ i \in Keys /\ rows[i].key = i /\ ~(i > Len(rows))
                 /\ (rows[i].type # "other" => Chain \in Providers)
      BY DEF FirstRows, Keys
    <2>2. ASSUME NEW i \in DOMAIN rows PROVE WalletOK(rows[i])
      <3>1. keys[i] = [state |-> "live", chain |-> IF rows[i].type # "other" THEN Chain
                                                   ELSE CHOOSE c \in Chains : c # Chain]
        BY <2>1 DEF WalletsInit
      <3> QED
        BY <2>1, <3>1 DEF WalletOK, Ours, FirstRows
    <2> QED
      BY <2>1, <2>2 DEF RowsOK, Ids, WalletsInit, FirstRows
  <1>3. ProcsOK
    BY DEF WalletsInit, ProcsOK, ProcOK, Resting, In
  <1> QED
    BY <1>1, <1>2, <1>3 DEF WalletsInv

\* A process goes on without a key, the tables stay.
LEMMA Keyless ==
    ASSUME WalletsInv, NEW j \in Processes, UNCHANGED walletVars,
           NEW k, proc' = [proc EXCEPT ![j] = k], DOMAIN k = DOMAIN Resting,
           k.want \in {"inbound", "outbound"}, k.pc # "insert", k.key = 0
    PROVE  WalletsInv'
  <1>1. KeysOK' /\ RowsOK'
    BY DEF WalletsInv, KeysOK, RowsOK, WalletOK, Ours, Ids, walletVars
  <1>2. ProcsOK'
    BY DEF WalletsInv, ProcsOK, ProcOK, Ours, Ids, In, walletVars
  <1> QED
    BY <1>1, <1>2 DEF WalletsInv

LEMMA KmsCreateStep ==
    ASSUME WalletsInv, NEW j \in Processes, KmsCreate(j) PROVE WalletsInv'
  <1>1. PICK n \in Keys : /\ In(j, "kms") /\ GenerateKey(n, Chain)
                          /\ proc' = [proc EXCEPT ![j].pc = "insert", ![j].key = n]
                          /\ UNCHANGED wallets
    BY DEF KmsCreate
  <1>2. /\ Chain \in Providers /\ keys[n].state = "none"
        /\ keys' = [keys EXCEPT ![n] = [state |-> "live", chain |-> Chain]]
    BY <1>1 DEF GenerateKey
  <1>3. KeysOK'
    BY <1>2 DEF WalletsInv, KeysOK
  <1>4. \A k \in Keys : keys[k].state = "live" => keys'[k] = keys[k] /\ k # n
    BY <1>2 DEF WalletsInv, KeysOK
  <1>5. \A k : Ours(k) => Ours(k)' /\ k # n
    BY <1>4 DEF Ours
  <1>6. Ours(n)'
    BY <1>2 DEF Ours, WalletsInv, KeysOK
  <1>7. \A i \in Ids : wallets[i].key # n /\ WalletOK(wallets[i])'
    BY <1>1, <1>4, <1>5 DEF WalletsInv, RowsOK, WalletOK
  <1>8. RowsOK'
    BY <1>1, <1>7 DEF WalletsInv, RowsOK, Ids
  <1>9. ProcsOK'
    <2>1. proc' = [proc EXCEPT ![j] = [proc[j] EXCEPT !.pc = "insert", !.key = n]]
      BY <1>1 DEF WalletsInv, ProcsOK, Resting
    <2>2. \A l \in Processes : l # j => proc'[l] = proc[l]
      BY <2>1 DEF WalletsInv, ProcsOK
    <2>3. /\ proc'[j].pc = "insert" /\ proc'[j].key = n /\ proc'[j].want = proc[j].want
          /\ DOMAIN proc'[j] = DOMAIN Resting
      BY <2>1 DEF WalletsInv, ProcsOK, Resting
    <2>4. ASSUME NEW l \in Processes, l # j
          PROVE  ProcOK(proc[l])' /\ (In(l, "insert") => proc[l].key # n)
      BY <1>1, <1>5, <2>2, <2>4 DEF WalletsInv, ProcsOK, ProcOK, Ids, In
    <2>5. ProcOK(proc[j])'
      BY <1>1, <1>6, <1>7, <2>3 DEF WalletsInv, ProcsOK, ProcOK, Ids
    <2>6. proc' = [l \in Processes |-> proc'[l]]
      BY <2>1 DEF WalletsInv, ProcsOK
    <2> QED
      BY <2>2, <2>3, <2>4, <2>5, <2>6 DEF WalletsInv, ProcsOK, In
  <1> QED
    BY <1>3, <1>8, <1>9 DEF WalletsInv

LEMMA CreateWalletStep ==
    ASSUME WalletsInv, NEW j \in Processes, CreateWallet(j) PROVE WalletsInv'
  <1> DEFINE row == [key |-> proc[j].key, type |-> proc[j].want]
  <1>1. /\ In(j, "insert") /\ UNCHANGED keys /\ wallets' = Append(wallets, row)
    BY DEF CreateWallet, Insert
  <1>2. PICK k : /\ proc' = [proc EXCEPT ![j] = k] /\ DOMAIN k = DOMAIN Resting
                 /\ k.pc # "insert" /\ k.key = 0 /\ k.want \in {"inbound", "outbound"}
    <2>1. proc[j].want \in {"inbound", "outbound"} /\ DOMAIN proc[j] = DOMAIN Resting
      BY DEF WalletsInv, ProcsOK, ProcOK
    <2>2. CASE proc[j].more > 0
      <3> DEFINE k == [proc[j] EXCEPT !.pc = "kms", !.more = @ - 1, !.key = 0]
      <3>1. proc' = [proc EXCEPT ![j] = k]
        BY <2>2 DEF CreateWallet, Insert
      <3>2. DOMAIN k = DOMAIN Resting /\ k.pc = "kms" /\ k.key = 0 /\ k.want = proc[j].want
        BY <2>1 DEF Resting
      <3> QED
        BY <2>1, <3>1, <3>2
    <2>3. CASE ~(proc[j].more > 0) /\ proc[j].want = "inbound"
      BY <2>3, ZenonT(40) DEF CreateWallet, Insert, Rest, Resting
    <2>4. CASE ~(proc[j].more > 0) /\ proc[j].want # "inbound"
      <3> DEFINE k == [Resting EXCEPT !.pc = "list", !.first = Len(wallets)]
      <3>1. proc' = [proc EXCEPT ![j] = k]
        BY <2>4 DEF CreateWallet, Insert
      <3>2. DOMAIN k = DOMAIN Resting /\ k.pc = "list" /\ k.key = 0 /\ k.want = "inbound"
        BY DEF Resting
      <3> HIDE DEF k
      <3> QED
        BY <3>1, <3>2
    <2> QED
      BY <2>2, <2>3, <2>4
  <1>3. KeysOK'
    BY <1>1 DEF WalletsInv, KeysOK
  <1>4. /\ Ours(proc[j].key) /\ proc[j].key \in Keys /\ proc[j].want \in {"inbound", "outbound"}
        /\ \A i \in Ids : wallets[i].key # proc[j].key
    BY <1>1 DEF WalletsInv, ProcsOK, ProcOK, In, Ours
  <1>5. /\ wallets' \in Seq([key: Keys, type: Types]) /\ Ids' = Ids \cup {Len(wallets) + 1}
        /\ \A i \in Ids : wallets'[i] = wallets[i]
        /\ wallets'[Len(wallets) + 1] = row /\ Len(wallets) + 1 \notin Ids
    BY <1>1, <1>4 DEF WalletsInv, RowsOK, Ids, Types
  <1>6. RowsOK'
    <2>1. \A i \in Ids : WalletOK(wallets[i])
      BY DEF WalletsInv, RowsOK
    <2>2. \A i \in Ids' : WalletOK(wallets'[i])
      BY <1>4, <1>5, <2>1 DEF WalletOK
    <2>3. \A i \in Ids' : WalletOK(wallets[i])'
      BY <1>1, <2>2 DEF WalletOK, Ours
    <2>4. \A i, l \in Ids' : i # l => wallets'[i].key # wallets'[l].key
      BY <1>4, <1>5 DEF WalletsInv, RowsOK
    <2> QED
      BY <1>5, <2>3, <2>4 DEF RowsOK
  <1>7. ProcsOK'
    <2>1. proc'[j] = k /\ \A l \in Processes : l # j => proc'[l] = proc[l]
      BY <1>2 DEF WalletsInv, ProcsOK
    <2>2. ASSUME NEW l \in Processes, l # j PROVE ProcOK(proc[l])'
      <3>1. In(l, "insert") => proc[l].key # proc[j].key
        BY <1>1, <2>2 DEF WalletsInv, ProcsOK
      <3>2. ProcOK(proc[l])
        BY DEF WalletsInv, ProcsOK
      <3>3. proc[l].pc = "insert" => \A i \in Ids' : wallets'[i].key # proc[l].key
        BY <1>5, <3>1, <3>2 DEF ProcOK, In
      <3> QED
        BY <1>1, <2>1, <2>2, <3>2, <3>3 DEF ProcOK, Ours
    <2>3. ProcOK(proc[j])'
      BY <1>2, <2>1 DEF ProcOK
    <2>4. proc' = [l \in Processes |-> proc'[l]]
      BY <1>2 DEF WalletsInv, ProcsOK
    <2> QED
      BY <1>2, <2>1, <2>2, <2>3, <2>4 DEF WalletsInv, ProcsOK, In
  <1> QED
    BY <1>3, <1>6, <1>7 DEF WalletsInv

LEMMA KmsDeleteStep ==
    ASSUME WalletsInv, NEW k \in Keys, KmsDelete(k) PROVE WalletsInv'
  <1>1. /\ \A i \in Ids : wallets[i].key # k
        /\ \A j \in Processes : proc[j].key # k
        /\ keys' = [keys EXCEPT ![k].state = "deleted"] /\ UNCHANGED <<wallets, proc>>
    BY DEF KmsDelete, SoftDelete
  <1>2. KeysOK' /\ \A n \in Keys : n # k => keys'[n] = keys[n]
    BY <1>1 DEF WalletsInv, KeysOK
  <1>3. \A n : n # k /\ Ours(n) => Ours(n)'
    BY <1>2 DEF Ours
  <1>4. RowsOK'
    BY <1>1, <1>2, <1>3 DEF WalletsInv, RowsOK, WalletOK, Ids
  <1>5. ProcsOK'
    BY <1>1, <1>3 DEF WalletsInv, ProcsOK, ProcOK, Ids, In
  <1> QED
    BY <1>2, <1>4, <1>5 DEF WalletsInv

\* The other steps of a process touch no key.
LEMMA OtherStep ==
    ASSUME WalletsInv, NEW j \in Processes,
           \/ CreateRefused(j) \/ EnsureOutboundWallet(j) \/ List(j) \/ StartJob(j) \/ AbortJob(j)
           \/ \E n \in 1..MaxBulk : BulkCreateWallets(j, n)
    PROVE  WalletsInv'
  <1>1. /\ DOMAIN proc[j] = DOMAIN Resting /\ proc[j].want \in {"inbound", "outbound"}
        /\ proc[j].pc # "insert" => proc[j].key = 0
    BY DEF WalletsInv, ProcsOK, ProcOK
  <1>2. CASE CreateRefused(j) \/ AbortJob(j)
    <2>1. proc' = [proc EXCEPT ![j] = Resting] /\ UNCHANGED walletVars
      BY <1>2 DEF CreateRefused, AbortJob, Rest
    <2>2. Resting.want = "inbound" /\ Resting.pc = "idle" /\ Resting.key = 0
      BY DEF Resting
    <2> QED
      BY <2>1, <2>2, Keyless
  <1>3. CASE EnsureOutboundWallet(j)
    <2> DEFINE k == [proc[j] EXCEPT !.pc = "list", !.first = Len(wallets)]
               m == [proc[j] EXCEPT !.pc = "kms", !.want = "outbound"]
    <2>1. /\ UNCHANGED walletVars /\ proc[j].key = 0
          /\ proc' = [proc EXCEPT ![j] = k] \/ proc' = [proc EXCEPT ![j] = m]
      BY <1>1, <1>3 DEF EnsureOutboundWallet, In, WalletsInv, ProcsOK, Resting
    <2>2. /\ DOMAIN k = DOMAIN Resting /\ k.want = proc[j].want /\ k.pc = "list" /\ k.key = 0
          /\ DOMAIN m = DOMAIN Resting /\ m.want = "outbound" /\ m.pc = "kms" /\ m.key = 0
      BY <1>1, <2>1 DEF Resting
    <2> HIDE DEF k, m
    <2> QED
      BY <1>1, <2>1, <2>2, Keyless
  <1>4. CASE List(j)
    <2> DEFINE page == Page("inbound", proc[j].start)
               rest == {i \in Ids : page # <<>> /\ i >= Last(page) + 1}
               k == [proc[j] EXCEPT !.listed = @ \o page,
                                    !.start = IF rest = {} THEN 1 ELSE Min(rest),
                                    !.pc = IF rest = {} THEN "match" ELSE "list"]
    <2>1. UNCHANGED walletVars /\ proc[j].key = 0
      BY <1>1, <1>4 DEF List, In
    <2>2. proc' = [proc EXCEPT ![j].listed = @ \o page,
                               ![j].start = IF rest = {} THEN 1 ELSE Min(rest),
                               ![j].pc = IF rest = {} THEN "match" ELSE "list"]
      BY <1>4 DEF List
    <2>3. proc' = [proc EXCEPT ![j] = k]
      <3> HIDE DEF page, rest
      <3> QED
        BY <1>1, <2>2 DEF WalletsInv, ProcsOK, Resting
    <2>4. DOMAIN k = DOMAIN Resting /\ k.want = proc[j].want /\ k.pc # "insert" /\ k.key = 0
      <3> HIDE DEF page, rest
      <3> QED
        BY <1>1, <2>1 DEF Resting
    <2> HIDE DEF k
    <2> QED
      BY <1>1, <2>1, <2>3, <2>4, Keyless
  <1>5. CASE StartJob(j)
    <2> DEFINE k == [Resting EXCEPT !.pc = "ensure"]
    <2>1. proc' = [proc EXCEPT ![j] = k] /\ UNCHANGED walletVars
      BY <1>5 DEF StartJob, Go, WalletsInv, ProcsOK
    <2>2. DOMAIN k = DOMAIN Resting /\ k.want = "inbound" /\ k.pc = "ensure" /\ k.key = 0
      BY DEF Resting
    <2> HIDE DEF k
    <2> QED
      BY <2>1, <2>2, Keyless
  <1>6. CASE \E n \in 1..MaxBulk : BulkCreateWallets(j, n)
    <2>1. PICK n \in 1..MaxBulk : BulkCreateWallets(j, n)
      BY <1>6
    <2> DEFINE k == [Resting EXCEPT !.pc = "kms", !.more = n - 1]
    <2>2. proc' = [proc EXCEPT ![j] = k] /\ UNCHANGED walletVars
      BY <2>1 DEF BulkCreateWallets, WalletsInv, ProcsOK
    <2>3. DOMAIN k = DOMAIN Resting /\ k.want = "inbound" /\ k.pc = "kms" /\ k.key = 0
      BY DEF Resting
    <2> HIDE DEF k
    <2> QED
      BY <2>2, <2>3, Keyless
  <1> QED
    BY <1>2, <1>3, <1>4, <1>5, <1>6

LEMMA WalletsNextInv == WalletsInv /\ [WalletsNext]_<<walletVars, proc>> => WalletsInv'
  <1> SUFFICES ASSUME WalletsInv, [WalletsNext]_<<walletVars, proc>> PROVE WalletsInv'
    OBVIOUS
  <1>1. CASE UNCHANGED <<walletVars, proc>>
    BY <1>1 DEF WalletsInv, KeysOK, RowsOK, WalletOK, ProcsOK, ProcOK, Ours, Ids, In, walletVars
  <1>2. CASE WalletsNext
    BY <1>2, KmsCreateStep, CreateWalletStep, KmsDeleteStep, OtherStep DEF WalletsNext
  <1> QED
    BY <1>1, <1>2

\* Each row of the table and each process about to insert one has a key of its own
\* that the KMS has.
THEOREM WalletsInvariant ==
    ASSUME NEW CONSTANT rows, FirstRows(rows)
    PROVE  WalletsSpec(rows) => []WalletsInv
  <1>1. WalletsInit(rows) => WalletsInv
    BY WalletsInitInv
  <1> QED
    BY <1>1, WalletsNextInv, PTL DEF WalletsSpec

\* However many requests and jobs make wallets at a time and wherever they die, every
\* wallet of the blockchain signs, with a key of its own, and no other wallet does.
THEOREM WalletsSign ==
    ASSUME NEW CONSTANT rows, FirstRows(rows)
    PROVE  WalletsSpec(rows) => []EveryWalletSigns
  <1>1. WalletsInv => EveryWalletSigns
    <2> SUFFICES ASSUME WalletsInv, NEW i \in Ids, NEW l \in Ids
                 PROVE  /\ KmsSigns(wallets[i].key) <=> wallets[i].type # "other"
                        /\ i # l => wallets[i].key # wallets[l].key
      BY DEF EveryWalletSigns
    <2>1. WalletOK(wallets[i])
      BY DEF WalletsInv, RowsOK
    <2>2. wallets[i].type # "other" => KmsSigns(wallets[i].key)
      BY <2>1, OursSign DEF WalletOK
    <2>3. wallets[i].type = "other" => ~KmsSigns(wallets[i].key)
      BY <2>1, OthersDoNotSign DEF WalletOK
    <2> QED
      BY <2>2, <2>3 DEF WalletsInv, RowsOK
  <1> QED
    BY <1>1, WalletsInvariant, PTL

-----------------------------------------------------------------------------
(* Listing, between the steps of the others *)

Inbound == {i \in Ids : wallets[i].type = "inbound"}

Listing(l) ==
    /\ l.first \in Nat /\ l.first <= Len(wallets)
    /\ l.pc = "ensure" => l.listed = <<>> /\ l.start = 1
    /\ l.pc = "list" => UpTo(Inbound, l.first, l.start, l.listed)
    /\ l.pc = "match" => Through(Inbound, l.first, l.listed)

ListingInv == WalletsInv /\ \A j \in Processes : Listing(proc[j])

\* Rows are added at the end, after those a listing is about.
LEMMA ListingStays ==
    ASSUME WalletsInv, WalletsInv', NEW l, Listing(l),
           Len(wallets) <= Len(wallets)', \A i \in Ids : wallets'[i] = wallets[i]
    PROVE  Listing(l)'
  <1>1. Len(wallets) \in Nat /\ Len(wallets)' \in Nat /\ Ids = 1..Len(wallets) /\ Ids' = 1..Len(wallets)'
    BY DEF WalletsInv, RowsOK, Ids
  <1>2. l.first \in Nat /\ l.first <= Len(wallets)
    BY DEF Listing
  <1>3. \A i \in Inbound' : i <= l.first => i \in Inbound
    BY <1>1, <1>2 DEF Inbound
  <1>4. UpTo(Inbound, l.first, l.start, l.listed) => UpTo(Inbound', l.first, l.start, l.listed)
    BY <1>3 DEF UpTo
  <1>5. Through(Inbound, l.first, l.listed) => Through(Inbound', l.first, l.listed)
    BY <1>3 DEF Through
  <1>6. l.first <= Len(wallets)'
    BY <1>1, <1>2
  <1> QED
    BY <1>2, <1>4, <1>5, <1>6 DEF Listing

\* A step of one process, which may add a row.
LEMMA ListingStep ==
    ASSUME ListingInv, WalletsInv', NEW j \in Processes, NEW k, proc' = [proc EXCEPT ![j] = k],
           Len(wallets) <= Len(wallets)', \A i \in Ids : wallets'[i] = wallets[i], Listing(k)
    PROVE  ListingInv'
  <1>1. ASSUME NEW l \in Processes PROVE Listing(proc[l])'
    <2>1. PICK m : m = proc'[l]
      OBVIOUS
    <2>2. Listing(m)
      BY <2>1 DEF ListingInv, WalletsInv, ProcsOK
    <2>3. Listing(m)'
      BY <2>2, ListingStays DEF ListingInv
    <2> QED
      BY <2>1, <2>3 DEF Listing
  <1> QED
    BY <1>1 DEF ListingInv

\* A process that does not list, and one that begins to.
LEMMA NotListing ==
    ASSUME WalletsInv, NEW l, l.first \in Nat, l.first <= Len(wallets),
           l.pc \notin {"ensure", "list", "match"}
    PROVE  Listing(l)
  BY DEF Listing

LEMMA BeginsListing ==
    ASSUME WalletsInv, NEW l, l.first \in Nat, l.first <= Len(wallets),
           l.listed = <<>>, l.start = 1, l.pc \in {"ensure", "list"}
    PROVE  Listing(l)
  <1>1. Inbound \subseteq Nat \ {0}
    BY DEF Inbound, Ids, WalletsInv, RowsOK
  <1>2. UpTo(Inbound, l.first, 1, <<>>)
    BY <1>1, NothingListed
  <1> QED
    BY <1>2 DEF Listing

LEMMA ListingInitInv ==
    ASSUME NEW rows, FirstRows(rows), WalletsInit(rows) PROVE ListingInv
  <1>1. WalletsInv
    BY WalletsInitInv
  <1>2. Resting.first = 0 /\ Resting.pc = "idle" /\ Len(wallets) \in Nat
    BY DEF Resting, WalletsInit, FirstRows
  <1>3. Listing(Resting)
    BY <1>1, <1>2, NotListing
  <1>4. \A j \in Processes : proc[j] = Resting
    BY DEF WalletsInit
  <1> QED
    BY <1>1, <1>3, <1>4 DEF ListingInv

LEMMA ListStep ==
    ASSUME ListingInv, WalletsInv', NEW j \in Processes, List(j) PROVE ListingInv'
  <1> DEFINE page == Page("inbound", proc[j].start)
             rest == {i \in Ids : page # <<>> /\ i >= Last(page) + 1}
             k == [proc[j] EXCEPT !.listed = @ \o page,
                                  !.start = IF rest = {} THEN 1 ELSE Min(rest),
                                  !.pc = IF rest = {} THEN "match" ELSE "list"]
  <1>1. /\ UNCHANGED wallets /\ proc[j].pc = "list"
        /\ proc' = [proc EXCEPT ![j].listed = @ \o page,
                                ![j].start = IF rest = {} THEN 1 ELSE Min(rest),
                                ![j].pc = IF rest = {} THEN "match" ELSE "list"]
    BY DEF List, In, walletVars
  <1>2. PICK N, first, start, listed :
          N = Len(wallets) /\ first = proc[j].first /\ start = proc[j].start /\ listed = proc[j].listed
    OBVIOUS
  <1>3. N \in Nat /\ Ids = 1..N /\ Inbound \subseteq 1..N /\ DOMAIN proc[j] = DOMAIN Resting
    BY <1>2 DEF Inbound, Ids, ListingInv, WalletsInv, RowsOK, ProcsOK
  <1>4. first \in Nat /\ first <= N /\ UpTo(Inbound, first, start, listed)
    BY <1>1, <1>2 DEF ListingInv, Listing
  <1>5. page = InOrder(FirstOf({i \in Inbound : i >= start}, PageSize, Ascending), Ascending)
    <2>1. {i \in Ids : i >= proc[j].start /\ wallets[i].type = "inbound"} = {i \in Inbound : i >= start}
      BY <1>2 DEF Inbound
    <2> QED
      BY <2>1 DEF Page
  <1>6. rest = {i \in 1..N : page # <<>> /\ i >= page[Len(page)] + 1}
    <2> HIDE DEF page
    <2> QED
      BY <1>3 DEF Last
  <1> HIDE DEF page, rest
  <1>7. /\ rest = {} => Through(Inbound, first, listed \o page)
        /\ rest # {} => UpTo(Inbound, first, Min(rest), listed \o page)
    BY <1>3, <1>4, <1>5, <1>6, ListedMore
  <1>8. /\ proc' = [proc EXCEPT ![j] = k] /\ k.first = first /\ k.listed = listed \o page
        /\ k.start = (IF rest = {} THEN 1 ELSE Min(rest)) /\ k.pc = (IF rest = {} THEN "match" ELSE "list")
    BY <1>1, <1>2, <1>3 DEF ListingInv, WalletsInv, ProcsOK, Resting
  <1> HIDE DEF k
  <1>9. Listing(k)
    BY <1>2, <1>4, <1>7, <1>8 DEF Listing
  <1> QED
    <2>a. wallets' = wallets
      BY <1>1
    <2>b. Len(wallets) \in Nat
      BY <1>2, <1>3
    <2>1. Len(wallets) <= Len(wallets)' /\ \A i \in Ids : wallets'[i] = wallets[i]
      BY <2>a, <2>b
    <2> QED
      BY <1>8, <1>9, <2>1, ListingStep

LEMMA ListingNextInv == ListingInv /\ [WalletsNext]_<<walletVars, proc>> => ListingInv'
  <1> SUFFICES ASSUME ListingInv, [WalletsNext]_<<walletVars, proc>> PROVE ListingInv'
    OBVIOUS
  <1>1. WalletsInv /\ WalletsInv'
    BY WalletsNextInv DEF ListingInv
  <1>2. /\ wallets \in Seq([key: Keys, type: Types]) /\ Len(wallets) \in Nat /\ Ids = 1..Len(wallets)
        /\ \A j \in Processes : DOMAIN proc[j] = DOMAIN Resting /\ proc[j].first \in Nat
                                /\ proc[j].first <= Len(wallets)
        /\ proc = [j \in Processes |-> proc[j]]
    BY DEF ListingInv, WalletsInv, RowsOK, ProcsOK, Listing, Ids
  <1>3. Listing(Resting)
    <2>1. Resting.first = 0 /\ Resting.pc = "idle"
      BY DEF Resting
    <2> QED
      BY <1>1, <1>2, <2>1, NotListing
  <1>4. ASSUME NEW j \in Processes, NEW k, proc' = [proc EXCEPT ![j] = k], UNCHANGED wallets, Listing(k)
        PROVE  ListingInv'
    BY <1>1, <1>2, <1>4, ListingStep
  <1>5. ASSUME UNCHANGED <<wallets, proc>> PROVE ListingInv'
    BY <1>1, <1>5 DEF ListingInv, Listing, Inbound, Ids
  <1>6. ASSUME NEW j \in Processes, CreateRefused(j) \/ AbortJob(j) PROVE ListingInv'
    BY <1>3, <1>4, <1>6 DEF CreateRefused, AbortJob, Rest, walletVars
  <1>7. ASSUME NEW j \in Processes, KmsCreate(j) PROVE ListingInv'
    <2>1. PICK n \in Keys : proc' = [proc EXCEPT ![j].pc = "insert", ![j].key = n] /\ UNCHANGED wallets
      BY <1>7 DEF KmsCreate
    <2> DEFINE k == [proc[j] EXCEPT !.pc = "insert", !.key = n]
    <2>2. proc' = [proc EXCEPT ![j] = k] /\ k.pc = "insert" /\ k.first = proc[j].first
      BY <1>2, <2>1 DEF Resting
    <2> HIDE DEF k
    <2> QED
      BY <1>1, <1>2, <1>4, <2>1, <2>2, NotListing
  <1>8. ASSUME NEW j \in Processes, CreateWallet(j) PROVE ListingInv'
    <2> DEFINE row == [key |-> proc[j].key, type |-> proc[j].want]
               k == IF proc[j].more > 0 THEN [proc[j] EXCEPT !.pc = "kms", !.more = @ - 1, !.key = 0]
                    ELSE IF proc[j].want = "inbound" THEN Resting
                         ELSE [Resting EXCEPT !.pc = "list", !.first = Len(wallets)]
    <2>1. proc' = [proc EXCEPT ![j] = k] /\ wallets' = Append(wallets, row)
      BY <1>8 DEF CreateWallet, Insert, Rest
    <2>2. Len(wallets)' = Len(wallets) + 1 /\ \A i \in Ids : wallets'[i] = wallets[i]
      <3>1. row \in [key: Keys, type: Types]
        BY <1>1, <1>8 DEF CreateWallet, Insert, In, WalletsInv, ProcsOK, ProcOK, Ours, Types
      <3> HIDE DEF row
      <3> QED
        BY <1>2, <2>1, <3>1
    <2>3. Listing(k)
      <3>1. CASE proc[j].more > 0
        <4>1. k.pc = "kms" /\ k.first = proc[j].first
          BY <1>2, <3>1 DEF Resting
        <4> HIDE DEF k
        <4> QED
          BY <1>1, <1>2, <4>1, NotListing
      <3>2. CASE ~(proc[j].more > 0) /\ proc[j].want = "inbound"
        BY <1>3, <3>2
      <3>3. CASE ~(proc[j].more > 0) /\ proc[j].want # "inbound"
        <4>1. k.pc = "list" /\ k.first = Len(wallets) /\ k.listed = <<>> /\ k.start = 1
          BY <3>3 DEF Resting
        <4> HIDE DEF k
        <4> QED
          BY <1>1, <1>2, <4>1, BeginsListing
      <3> QED
        BY <3>1, <3>2, <3>3
    <2> HIDE DEF k
    <2> QED
      BY <1>1, <1>2, <2>1, <2>2, <2>3, ListingStep
  <1>9. ASSUME NEW j \in Processes, EnsureOutboundWallet(j) PROVE ListingInv'
    <2> DEFINE k == [proc[j] EXCEPT !.pc = "list", !.first = Len(wallets)]
               m == [proc[j] EXCEPT !.pc = "kms", !.want = "outbound"]
    <2>1. /\ UNCHANGED wallets /\ proc[j].pc = "ensure"
          /\ proc' = [proc EXCEPT ![j] = k] \/ proc' = [proc EXCEPT ![j] = m]
      BY <1>2, <1>9 DEF EnsureOutboundWallet, In, Resting, walletVars
    <2>2. /\ k.pc = "list" /\ k.first = Len(wallets) /\ k.listed = proc[j].listed /\ k.start = proc[j].start
          /\ m.pc = "kms" /\ m.first = proc[j].first
      BY <1>2 DEF Resting
    <2>3. proc[j].listed = <<>> /\ proc[j].start = 1
      BY <2>1 DEF ListingInv, Listing
    <2> HIDE DEF k, m
    <2>4. Listing(k) /\ Listing(m)
      BY <1>1, <1>2, <2>2, <2>3, BeginsListing, NotListing
    <2> QED
      BY <1>4, <2>1, <2>4
  <1>10. ASSUME NEW j \in Processes, StartJob(j) PROVE ListingInv'
    <2> DEFINE k == [Resting EXCEPT !.pc = "ensure"]
    <2>1. proc' = [proc EXCEPT ![j] = k] /\ UNCHANGED wallets
      BY <1>2, <1>10 DEF StartJob, Go, walletVars
    <2>2. k.pc = "ensure" /\ k.first = 0 /\ k.listed = <<>> /\ k.start = 1
      BY DEF Resting
    <2> HIDE DEF k
    <2>3. k.first \in Nat /\ k.first <= Len(wallets) /\ k.pc \in {"ensure", "list"}
      BY <1>2, <2>2
    <2>4. Listing(k)
      BY <1>1, <2>2, <2>3, BeginsListing
    <2> QED
      BY <1>4, <2>1, <2>4
  <1>11. ASSUME NEW j \in Processes, NEW n \in 1..MaxBulk, BulkCreateWallets(j, n) PROVE ListingInv'
    <2> DEFINE k == [Resting EXCEPT !.pc = "kms", !.more = n - 1]
    <2>1. proc' = [proc EXCEPT ![j] = k] /\ UNCHANGED wallets
      BY <1>2, <1>11 DEF BulkCreateWallets, walletVars
    <2>2. k.pc = "kms" /\ k.first = 0
      BY DEF Resting
    <2> HIDE DEF k
    <2>3. k.first \in Nat /\ k.first <= Len(wallets) /\ k.pc \notin {"ensure", "list", "match"}
      BY <1>2, <2>2
    <2>4. Listing(k)
      BY <1>1, <2>3, NotListing
    <2> QED
      BY <1>4, <2>1, <2>4
  <1>12. ASSUME NEW k \in Keys, KmsDelete(k) PROVE ListingInv'
    BY <1>5, <1>12 DEF KmsDelete
  <1> QED
    BY <1>1, <1>5, <1>6, <1>7, <1>8, <1>9, <1>10, <1>11, <1>12, ListStep DEF WalletsNext, walletVars

\* However many wallets are made between the pages of a listing, and whatever the size
\* of a page, PerformInternalWalletTransfer sees each inbound wallet that was there when
\* it began to list, and none twice.
THEOREM WalletsAreListed ==
    ASSUME NEW CONSTANT rows, FirstRows(rows)
    PROVE  WalletsSpec(rows) => []ListingIsComplete
  <1>1. WalletsInit(rows) => ListingInv
    BY ListingInitInv
  <1>2. ListingInv => ListingIsComplete
    <2> SUFFICES ASSUME ListingInv, NEW j \in Processes, In(j, "match")
                 PROVE  /\ \A i \in 1..proc[j].first :
                             wallets[i].type = "inbound" => Contains(proc[j].listed, i)
                        /\ IsInjective(proc[j].listed)
      BY DEF ListingIsComplete
    <2>1. PICK s : s = proc[j].listed
      OBVIOUS
    <2>2. Sorted(s, Ascending) /\ \A i \in Inbound : i <= proc[j].first => i \in Elements(s)
      BY <2>1 DEF ListingInv, Listing, In, Through
    <2>3. \A i \in 1..proc[j].first : wallets[i].type = "inbound" => i \in Elements(s)
      <3>1. proc[j].first \in Nat /\ proc[j].first <= Len(wallets) /\ Len(wallets) \in Nat
            /\ Ids = 1..Len(wallets)
        BY DEF ListingInv, Listing, WalletsInv, RowsOK, Ids
      <3> QED
        BY <2>2, <3>1 DEF Inbound
    <2>4. \A i : i \in Elements(s) => Contains(s, i)
      BY DEF Elements, Contains
    <2>5. IsInjective(s)
      <3>1. DOMAIN s = 1..Len(s) /\ Len(s) \in Nat /\ \A n \in 1..Len(s) : s[n] \in Nat
        BY <2>2 DEF Sorted
      <3>2. \A m, n \in 1..Len(s) : m < n => s[m] < s[n]
        BY <2>2, AscendingFacts DEF Sorted
      <3>3. \A m, n \in 1..Len(s) : s[m] = s[n] => m = n
        BY <3>1, <3>2
      <3> QED
        BY <3>1, <3>3 DEF IsInjective
    <2> QED
      BY <2>1, <2>3, <2>4, <2>5
  <1> QED
    BY <1>1, <1>2, ListingNextInv, PTL DEF WalletsSpec

-----------------------------------------------------------------------------
(* Subscriptions: what the proof rests on *)

Stages == {"down", "main", "main sent", "test", "test sent", "up"}
RecordedIds == {None, "live", "disabled"}

SubscriptionsTypeOK ==
    /\ stage \in Stages /\ settings \in Settings
    /\ starts \in Nat /\ used \subseteq Secrets /\ refused \subseteq Mains
    /\ signed \in [Mains -> Secrets \cup {NoSecret}]
    /\ flags \in [Mains -> {None, "true"}]
    /\ ids \in [Mains -> RecordedIds] /\ hooks \in [Mains -> Nat]
    /\ ensure \in [Ensurers -> [pc: {"idle", "test", "main", "update"},
                                read: [Mains -> RecordedIds], write: BOOLEAN]]

\* A start has set up network n, or gone past it.
Passed(n) == stage = "up" \/ (n = "main" /\ stage \in {"test", "test sent"})

\* Tatum signs for network n with the secret in use, unless it refused to, was not
\* asked, or the secret was changed and not forced.
SignsFor(n) ==
    (/\ HasAPIKey(n) /\ n \notin refused
     /\ (settings.force \/ used \subseteq {settings.secret}))
    => signed[n] = settings.secret

SecretsOK ==
    /\ stage \notin {"down", "up"} => settings.secret \in Secrets
    /\ (stage # "down" /\ settings.secret \in Secrets) => settings.secret \in used
    /\ \A n \in Mains :
          /\ signed[n] \in used \cup {NoSecret}
          /\ flags[n] # None => signed[n] \in used
          /\ stage = Asked(n) => signed[n] = settings.secret
          /\ (Passed(n) /\ settings.secret \in Secrets) => SignsFor(n)

IdsOK ==
    \A n \in Mains :
        /\ ids[n] = "live" => hooks[n] > 0
        /\ \A j \in Ensurers : ensure[j].read[n] = "live" => hooks[n] > 0

SubscriptionsInv == SubscriptionsTypeOK /\ SecretsOK /\ IdsOK

USE SubscriptionsAssumption
-----------------------------------------------------------------------------
(* Starting *)

\* The jobs' variables and the ids stay as they are when a start goes on.
LEMMA IdsStay ==
    ASSUME IdsOK, UNCHANGED <<ids, hooks, ensure>> PROVE IdsOK'
  BY DEF IdsOK

LEMMA StartUpStep ==
    ASSUME SubscriptionsInv, NEW s \in Settings, StartUp(s) PROVE SubscriptionsInv'
  <1>1. SubscriptionsTypeOK'
    BY DEF SubscriptionsInv, SubscriptionsTypeOK, StartUp, Stages, isUsableHMACSecret
  <1>2. /\ settings' = s /\ UNCHANGED <<signed, flags>> /\ used \subseteq used'
        /\ s.secret \in Secrets => s.secret \in used'
        /\ s.secret \in Secrets => stage' = "main"
        /\ s.secret \notin Secrets => stage' = "up"
    BY DEF StartUp, isUsableHMACSecret
  <1>3. SecretsOK'
    <2>1. \A n \in Mains : (signed[n] \in used \cup {NoSecret})'
                           /\ (flags[n] # None => signed[n] \in used)'
      BY <1>2 DEF SubscriptionsInv, SecretsOK
    <2>2. \A n \in Mains : stage' # Asked(n)
      BY <1>2 DEF Asked
    <2>3. s.secret \in Secrets => \A n \in Mains : ~Passed(n)'
      BY <1>2 DEF Passed
    <2> QED
      BY <1>2, <2>1, <2>2, <2>3 DEF SecretsOK
  <1> QED
    BY <1>1, <1>3, IdsStay DEF SubscriptionsInv, StartUp

LEMMA EnableStep ==
    ASSUME SubscriptionsInv, NEW n \in Mains, EnableWebHookHmac(n) PROVE SubscriptionsInv'
  <1>1. /\ UNCHANGED <<settings, starts, used, flags, ids, hooks, ensure>>
        /\ stage = n /\ settings.secret \in Secrets /\ settings.secret \in used
    BY DEF EnableWebHookHmac, SubscriptionsInv, SecretsOK, Mains
  <1>2. PICK value \in GetValueSafe(n) :
          \/ /\ ~HasAPIKey(n) \/ (value # None /\ ~settings.force)
             /\ stage' = After(n) /\ UNCHANGED <<signed, refused>>
          \/ /\ signed' = [signed EXCEPT ![n] = settings.secret]
             /\ stage' = Asked(n) /\ UNCHANGED refused
          \/ /\ signed' \in {signed, [signed EXCEPT ![n] = settings.secret]}
             /\ refused' = refused \cup {n} /\ stage' = OnError(n)
    BY DEF EnableWebHookHmac
  <1>3. SubscriptionsTypeOK'
    BY <1>1, <1>2, ZenonT(40) DEF SubscriptionsInv, SubscriptionsTypeOK, Stages, After, Asked, OnError, Mains
  <1>4. \A m \in Mains : signed'[m] = signed[m] \/ (m = n /\ signed'[m] = settings.secret)
    BY <1>2 DEF SubscriptionsInv, SubscriptionsTypeOK
  <1>5. ASSUME NEW m \in Mains
        PROVE  (/\ signed[m] \in used \cup {NoSecret}
                /\ flags[m] # None => signed[m] \in used)'
    BY <1>1, <1>4 DEF SubscriptionsInv, SecretsOK
  <1>6. ASSUME NEW m \in Mains PROVE (stage = Asked(m) => signed[m] = settings.secret)'
    <2>1. stage' = Asked(m) => m = n /\ signed' = [signed EXCEPT ![n] = settings.secret]
      BY <1>2 DEF Asked, After, OnError, Mains
    <2> QED
      BY <1>1, <2>1 DEF SubscriptionsInv, SubscriptionsTypeOK
  <1>7. ASSUME NEW m \in Mains, Passed(m)' PROVE SignsFor(m)'
    <2>1. CASE m # n
      <3>1. Passed(m)
        BY <1>1, <1>2, <1>7, <2>1 DEF Passed, Mains, After, Asked, OnError
      <3>2. SignsFor(m)
        BY <1>1, <3>1 DEF SubscriptionsInv, SecretsOK
      <3>3. signed'[m] = signed[m] /\ (m \notin refused' => m \notin refused)
        BY <1>2, <1>4, <2>1
      <3> QED
        BY <1>1, <3>2, <3>3 DEF SignsFor, HasAPIKey
    <2>2. CASE m = n
      <3>1. CASE n \in refused'
        BY <2>2, <3>1 DEF SignsFor
      <3>2. CASE /\ ~HasAPIKey(n) \/ (value # None /\ ~settings.force)
                 /\ UNCHANGED <<signed, refused>>
        <4>1. value # None => signed[n] \in used
          BY DEF GetValueSafe, SubscriptionsInv, SecretsOK
        <4> QED
          BY <1>1, <2>2, <3>2, <4>1 DEF SignsFor, HasAPIKey
      <3>3. CASE stage' = Asked(n)
        BY <1>1, <1>7, <2>2, <3>3 DEF Passed, Asked, Mains
      <3> QED
        BY <1>2, <3>1, <3>2, <3>3
    <2> QED
      BY <2>1, <2>2
  <1>8. SecretsOK'
    BY <1>1, <1>5, <1>6, <1>7 DEF SecretsOK
  <1> QED
    BY <1>1, <1>3, <1>8, IdsStay DEF SubscriptionsInv

LEMMA SetFlagStep ==
    ASSUME SubscriptionsInv, NEW n \in Mains, SetFlag(n) PROVE SubscriptionsInv'
  <1>1. /\ UNCHANGED <<settings, starts, used, refused, signed, ids, hooks, ensure>>
        /\ stage = Asked(n) /\ stage' = After(n)
        /\ flags' \in {flags, [flags EXCEPT ![n] = "true"]}
    BY DEF SetFlag
  <1>2. /\ signed[n] = settings.secret /\ settings.secret \in Secrets
        /\ settings.secret \in used
    BY <1>1 DEF SubscriptionsInv, SecretsOK, Asked
  <1>3. SubscriptionsTypeOK'
    BY <1>1 DEF SubscriptionsInv, SubscriptionsTypeOK, Stages, After
  <1>4. \A m \in Mains : flags'[m] = flags[m] \/ m = n
    BY <1>1 DEF SubscriptionsInv, SubscriptionsTypeOK
  <1>5. ASSUME NEW m \in Mains
        PROVE  (/\ signed[m] \in used \cup {NoSecret}
                /\ flags[m] # None => signed[m] \in used)'
    BY <1>1, <1>2, <1>4 DEF SubscriptionsInv, SecretsOK
  <1>6. ASSUME NEW m \in Mains PROVE stage' # Asked(m)
    BY <1>1 DEF Asked, After
  <1>7. ASSUME NEW m \in Mains, Passed(m)' PROVE SignsFor(m)'
    <2>1. CASE m = n
      BY <1>1, <1>2, <2>1 DEF SignsFor
    <2>2. CASE m # n
      <3>1. Passed(m)
        <4>1. CASE n = "main"
          <5>1. m = "test"
            BY <2>2, <4>1 DEF Mains
          <5>2. stage' = "test"
            BY <1>1, <4>1 DEF After
          <5> QED
            BY <1>7, <5>1, <5>2 DEF Passed
        <4>2. CASE n = "test"
          <5>1. m = "main"
            BY <2>2, <4>2 DEF Mains
          <5>2. stage = "test sent"
            BY <1>1, <4>2 DEF Asked
          <5> QED
            BY <5>1, <5>2 DEF Passed
        <4> QED
          BY <4>1, <4>2 DEF Mains
      <3>2. SignsFor(m)
        BY <1>2, <3>1 DEF SubscriptionsInv, SecretsOK
      <3> QED
        BY <1>1, <3>2 DEF SignsFor, HasAPIKey
    <2> QED
      BY <2>1, <2>2
  <1>8. SecretsOK'
    BY <1>1, <1>2, <1>5, <1>6, <1>7 DEF SecretsOK
  <1> QED
    BY <1>1, <1>3, <1>8, IdsStay DEF SubscriptionsInv

LEMMA StopStep ==
    ASSUME SubscriptionsInv, Stop PROVE SubscriptionsInv'
  <1>1. SubscriptionsTypeOK'
    BY DEF SubscriptionsInv, SubscriptionsTypeOK, Stop, Stages, Waiting, RecordedIds
  <1>2. SecretsOK'
    BY DEF SubscriptionsInv, SecretsOK, Stop, Asked, Passed
  <1>3. IdsOK'
    BY DEF SubscriptionsInv, IdsOK, Stop, Waiting, None
  <1> QED
    BY <1>1, <1>2, <1>3 DEF SubscriptionsInv

-----------------------------------------------------------------------------
(* Subscribing *)

\* Secrets are none of a job's business.
LEMMA SecretsStay ==
    ASSUME SecretsOK, UNCHANGED <<stage, settings, used, refused, signed, flags>>
    PROVE  SecretsOK'
  BY DEF SecretsOK, Passed, SignsFor, HasAPIKey

Job == [pc: {"idle", "test", "main", "update"}, read: [Mains -> RecordedIds], write: BOOLEAN]

\* A job goes on, with ids that stand for subscriptions, which only become more.
LEMMA JobStep ==
    ASSUME SubscriptionsInv, NEW j \in Ensurers, NEW l \in Job, ensure' = [ensure EXCEPT ![j] = l],
           UNCHANGED <<stage, settings, starts, used, refused, signed, flags>>,
           hooks' \in [Mains -> Nat], \A n \in Mains : hooks[n] <= hooks'[n],
           ids' \in {ids, ensure[j].read},
           \A n \in Mains : l.read[n] = "live" => hooks'[n] > 0
    PROVE  SubscriptionsInv'
  <1>1. ensure[j] \in Job /\ ensure \in [Ensurers -> Job]
    BY DEF SubscriptionsInv, SubscriptionsTypeOK, Job
  <1>2. ids' \in [Mains -> RecordedIds] /\ ensure' \in [Ensurers -> Job]
    <2>1. ensure[j].read \in [Mains -> RecordedIds]
      BY <1>1 DEF Job
    <2> QED
      BY <1>1, <2>1 DEF SubscriptionsInv, SubscriptionsTypeOK
  <1>3. SubscriptionsTypeOK'
    BY <1>2 DEF SubscriptionsInv, SubscriptionsTypeOK, Job
  <1>4. IdsOK'
    <2>1. \A n \in Mains : hooks[n] > 0 => hooks'[n] > 0
      BY DEF SubscriptionsInv, SubscriptionsTypeOK
    <2>2. \A i \in Ensurers : ensure'[i] = IF i = j THEN l ELSE ensure[i]
      BY <1>1
    <2> QED
      BY <2>1, <2>2 DEF SubscriptionsInv, IdsOK
  <1> QED
    BY <1>3, <1>4, SecretsStay DEF SubscriptionsInv

LEMMA StartEnsureStep ==
    ASSUME SubscriptionsInv, NEW j \in Ensurers, StartEnsure(j) PROVE SubscriptionsInv'
  <1> DEFINE l == [pc |-> "test", read |-> ids, write |-> FALSE]
  <1>1. l \in Job /\ l.read = ids
    BY DEF SubscriptionsInv, SubscriptionsTypeOK, Job
  <1>2. \A n \in Mains : l.read[n] = "live" => hooks'[n] > 0
    BY <1>1 DEF SubscriptionsInv, IdsOK, StartEnsure
  <1>3. hooks' \in [Mains -> Nat] /\ \A n \in Mains : hooks[n] <= hooks'[n]
    BY DEF StartEnsure, SubscriptionsInv, SubscriptionsTypeOK
  <1> QED
    BY <1>1, <1>2, <1>3, JobStep DEF StartEnsure

LEMMA SubscribeStep ==
    ASSUME SubscriptionsInv, NEW j \in Ensurers, NEW n \in Mains, Subscribe(j, n) PROVE SubscriptionsInv'
  <1> DEFINE next == [ensure[j] EXCEPT !.pc = IF n = "test" THEN "main" ELSE "update"]
             kept(id) == [next EXCEPT !.read[n] = id, !.write = TRUE]
             gone == [next EXCEPT !.read[n] = noId]
             hooked == IF hooks[n] < MaxHooks THEN [hooks EXCEPT ![n] = @ + 1] ELSE hooks
  <1>1. ensure[j] \in Job /\ hooks \in [Mains -> Nat]
    BY DEF SubscriptionsInv, SubscriptionsTypeOK, Job
  <1>2. \A m \in Mains : ensure[j].read[m] = "live" => hooks[m] > 0
    BY DEF SubscriptionsInv, IdsOK
  <1>3. next \in Job /\ next.read = ensure[j].read
    BY <1>1 DEF Job
  <1>4. \A id \in RecordedIds : kept(id) \in Job /\ kept(id).read = [ensure[j].read EXCEPT ![n] = id]
    BY <1>1, <1>3 DEF Job
  <1>5. gone \in Job /\ gone.read = [ensure[j].read EXCEPT ![n] = None]
    BY <1>1, <1>3 DEF Job, noId, RecordedIds
  <1>6. ensure[j].read \in [Mains -> RecordedIds]
    BY <1>1 DEF Job
  <1>7. /\ hooked \in [Mains -> Nat] /\ hooked[n] > 0
        /\ \A m \in Mains : hooks[m] <= hooked[m]
    BY <1>1
  <1>8. UNCHANGED <<stage, settings, starts, used, refused, signed, flags, ids>>
    BY DEF Subscribe
  <1>9. ASSUME NEW l \in Job, ensure' = [ensure EXCEPT ![j] = l], hooks' \in {hooks, hooked},
               \A m \in Mains : l.read[m] = "live" => hooks'[m] > 0
        PROVE  SubscriptionsInv'
    <2>1. hooks' \in [Mains -> Nat] /\ \A m \in Mains : hooks[m] <= hooks'[m]
      BY <1>1, <1>7, <1>9
    <2> QED
      BY <1>8, <1>9, <2>1, JobStep
  <1>10. CASE ensure' = [ensure EXCEPT ![j] = next] /\ UNCHANGED hooks
    <2> HIDE DEF next, hooked
    <2> QED
      BY <1>2, <1>3, <1>9, <1>10
  <1>11. CASE ensure' = [ensure EXCEPT ![j] = kept("disabled")] /\ UNCHANGED hooks
    <2>1. kept("disabled") \in Job /\ kept("disabled").read = [ensure[j].read EXCEPT ![n] = "disabled"]
      BY <1>4 DEF RecordedIds
    <2>2. \A m \in Mains : kept("disabled").read[m] = "live" => hooks'[m] > 0
      <3> HIDE DEF kept
      <3> QED
        BY <1>2, <1>6, <1>11, <2>1
    <2> HIDE DEF kept, hooked
    <2> QED
      BY <1>9, <1>11, <2>1, <2>2
  <1>12. CASE ensure' = [ensure EXCEPT ![j] = kept("live")] /\ hooks' = hooked
    <2>1. kept("live") \in Job /\ kept("live").read = [ensure[j].read EXCEPT ![n] = "live"]
      BY <1>4 DEF RecordedIds
    <2>2. \A m \in Mains : kept("live").read[m] = "live" => hooks'[m] > 0
      <3>1. \A m \in Mains : hooks[m] > 0 => hooked[m] > 0
        BY <1>1, <1>7
      <3> HIDE DEF kept, hooked
      <3> QED
        BY <1>2, <1>6, <1>7, <1>12, <2>1, <3>1
    <2> HIDE DEF kept, hooked
    <2> QED
      BY <1>9, <1>12, <2>1, <2>2
  <1>13. CASE ensure' = [ensure EXCEPT ![j] = gone] /\ hooks' \in {hooks, hooked}
    <2>1. \A m \in Mains : gone.read[m] = "live" => hooks'[m] > 0
      <3>1. \A m \in Mains : hooks[m] > 0 => hooks'[m] > 0
        BY <1>1, <1>7, <1>13
      <3> HIDE DEF gone, hooked
      <3> QED
        BY <1>2, <1>5, <1>6, <3>1 DEF None
    <2> HIDE DEF gone, hooked
    <2> QED
      BY <1>5, <1>9, <1>13, <2>1
  <1> QED
    BY <1>10, <1>11, <1>12, <1>13 DEF Subscribe

LEMMA UpdateStep ==
    ASSUME SubscriptionsInv, NEW j \in Ensurers, UpdateTatumSubscription(j) PROVE SubscriptionsInv'
  <1>1. Waiting \in Job /\ \A n \in Mains : Waiting.read[n] # "live"
    BY DEF Waiting, Job, RecordedIds, None
  <1>2. hooks' = hooks /\ hooks \in [Mains -> Nat] /\ ids' \in {ids, ensure[j].read}
    BY DEF UpdateTatumSubscription, SubscriptionsInv, SubscriptionsTypeOK
  <1>3. \A n \in Mains : hooks[n] <= hooks'[n]
    BY <1>2
  <1> QED
    BY <1>1, <1>2, <1>3, JobStep DEF UpdateTatumSubscription

-----------------------------------------------------------------------------
LEMMA SubscriptionsInitInv == SubscriptionsInit => SubscriptionsInv
  <1> SUFFICES ASSUME SubscriptionsInit PROVE SubscriptionsInv
    OBVIOUS
  <1>1. settings \in Settings
    BY DEF SubscriptionsInit
  <1>2. SubscriptionsTypeOK
    BY <1>1 DEF SubscriptionsInit, SubscriptionsTypeOK, Stages, RecordedIds, Waiting
  <1>3. SecretsOK
    BY DEF SubscriptionsInit, SecretsOK, Asked, Passed
  <1>4. IdsOK
    BY DEF SubscriptionsInit, IdsOK, Waiting, None
  <1> QED
    BY <1>2, <1>3, <1>4 DEF SubscriptionsInv

LEMMA SubscriptionsNextInv == SubscriptionsInv /\ [SubscriptionsNext]_subsVars => SubscriptionsInv'
  <1> SUFFICES ASSUME SubscriptionsInv, [SubscriptionsNext]_subsVars PROVE SubscriptionsInv'
    OBVIOUS
  <1>1. CASE UNCHANGED subsVars
    BY <1>1, SecretsStay, IdsStay DEF SubscriptionsInv, SubscriptionsTypeOK, subsVars
  <1>2. CASE SubscriptionsNext
    BY <1>2, StartUpStep, EnableStep, SetFlagStep, StopStep, StartEnsureStep, SubscribeStep,
       UpdateStep DEF SubscriptionsNext
  <1> QED
    BY <1>1, <1>2

\* What the registry and the table wallets say stands for what Tatum has.
THEOREM SubscriptionsInvariant == SubscriptionsSpec => []SubscriptionsInv
  BY SubscriptionsInitInv, SubscriptionsNextInv, PTL DEF SubscriptionsSpec

\* Whatever start stopped or request failed before, the webhooks of a network whose
\* secret Tatum took verify once the service is up, if the secret was never changed or
\* its change is forced.
THEOREM WebhooksAreVerified == SubscriptionsSpec => []WebhooksVerify
  <1>1. SubscriptionsInv => WebhooksVerify
    <2> SUFFICES ASSUME SubscriptionsInv, NEW n \in Mains, stage = "up", HasAPIKey(n),
                        settings.secret # Placeholder, n \notin refused,
                        settings.force \/ used \subseteq {settings.secret}
                 PROVE  ValidateHMAC(n)
      BY DEF WebhooksVerify
    <2>1. settings.secret \in Secrets \cup {NoSecret, Placeholder}
      BY DEF SubscriptionsInv, SubscriptionsTypeOK
    <2>2. settings.secret \in Secrets => SignsFor(n)
      BY DEF SubscriptionsInv, SecretsOK, Passed
    <2> QED
      BY <2>1, <2>2 DEF SignsFor, ValidateHMAC
  <1> QED
    BY <1>1, SubscriptionsInvariant, PTL

\* However many jobs subscribe a wallet at a time and write over each other's ids, an
\* id in the table is of a network on which the wallet is subscribed.
THEOREM RecordedIdsAreLive == SubscriptionsSpec => []RecordedIsSubscribed
  <1>1. SubscriptionsInv => RecordedIsSubscribed
    BY DEF SubscriptionsInv, IdsOK, RecordedIsSubscribed
  <1> QED
    BY <1>1, SubscriptionsInvariant, PTL

-----------------------------------------------------------------------------
(* Sweeps: what the proofs rest on *)

TableRows == UNION {[S -> Int] : S \in SUBSET Tickers}

Sending == {"decrement", "broadcast", "undoNonce", "undoTx", "undoBalance"}
Checking == {"confirm", "settle", "cancel", "chargeFee", "failTx", "restore"}

\* Wallets are listed by their ids, of which there are no more than keys.
ListedOK == \A j \in Processes : Elements(proc[j].listed) \subseteq Keys

BalancesOK == balance \in [Entities -> TableRows] /\ funds \in [Keys -> [Tickers -> Int]]

TxRecord == [status: {"none", "pending", "completed", "canceled", "failed"}, from: Entities,
             to: Entities, ticker: Tickers, amount: Int, hash: BOOLEAN]
ChainRecord == [state: {"unsent", "pool", "success", "reverted"}, nonce: Int, fee: Nat]
Pcs == {"idle", "nonce", "sign", "setHash"} \cup Sending \cup Checking
WorkRecord == [pc: Pcs, from: Entities,
               to: Entities, ticker: Tickers, amount: Int, nonce: Int, tx: TxIds \cup {0}, moved: BOOLEAN]

SweepTypes ==
    /\ confirmed \in [Keys -> Int] /\ pending \in [Keys -> Int]
    /\ todo \subseteq [from: Keys, ticker: Tickers, seen: Int]
    /\ txs \in [TxIds -> TxRecord] /\ chain \in [TxIds -> ChainRecord]
    /\ work \in [Workers -> WorkRecord]

(* lent: the transactions whose amount is in no balance, as it was taken   *)
(* from the sender's and is neither given back nor credited; owing: those  *)
(* whose fee, once the chain has charged it, is not yet taken from one.    *)
(* Two cannot be told apart by the tables, so they are said to exist: a    *)
(* transaction whose rollback stopped may or may not be lent.              *)
Under(t, p) == \E w \in Workers : work[w].tx = t /\ work[w].pc = p

TxOK(t, lent, owing) ==
    /\ txs[t].status = "none" => chain[t].state = "unsent" /\ t \notin lent
    /\ txs[t].status # "none" => txs[t].from \in Keys /\ txs[t].to \in Keys
    /\ chain[t].state \in {"unsent", "pool"} => chain[t].fee = 0
    /\ chain[t].state = "pool" => txs[t].status = "pending" /\ t \in lent
    /\ txs[t].status = "pending" => t \in owing \/ Under(t, "failTx")
    /\ t \in owing => txs[t].status = "pending"
    /\ t \in lent => txs[t].status = "pending" \/ Under(t, "restore") \/ Under(t, "undoBalance")
    /\ txs[t].status = "pending" /\ txs[t].hash => t \in lent /\ HasBalance(balance, txs[t].from, txs[t].ticker)

\* A goroutine that makes a transaction, and one that has sent it or checks it.
Making(l, r, c, b, lent) ==
    /\ r.from = l.from /\ r.ticker = l.ticker /\ r.amount = l.amount /\ c.state = "unsent"
    /\ l.moved <=> l.tx \in lent
    /\ l.moved => HasBalance(b, l.from, l.ticker)
    /\ r.status = IF l.pc = "undoBalance" THEN "canceled" ELSE "pending"
    /\ l.pc = "decrement" => ~l.moved
    /\ l.pc = "broadcast" => l.moved
Following(l, r, c, b, lent, owing) ==
    /\ r.status = IF l.pc = "restore" THEN "failed" ELSE "pending"
    /\ l.tx \in lent /\ HasBalance(b, r.from, r.ticker)
    /\ l.pc # "setHash" => /\ c.state = IF l.pc \in {"confirm", "settle"} THEN "success" ELSE "reverted"
                           /\ l.tx \in owing <=> l.pc \notin {"failTx", "restore"}

WorkOK(w, lent, owing) ==
    LET l == work[w] IN
    /\ l.pc \in {"idle", "nonce", "sign"} => l.tx = 0 /\ ~l.moved
    /\ l.pc \in {"nonce", "sign"} \cup Sending => l.from \in Keys /\ l.to \in Keys
    /\ l.pc \in (Sending \ {"undoNonce"}) \cup Checking \cup {"setHash"} => l.tx # 0
    /\ l.pc \in Sending /\ l.tx # 0 => Making(l, txs[l.tx], chain[l.tx], balance, lent)
    /\ l.pc \in Checking \cup {"setHash"} => Following(l, txs[l.tx], chain[l.tx], balance, lent, owing)

OneEach == \A v, w \in Workers : v # w /\ work[v].tx # 0 => work[v].tx # work[w].tx

\* What the chain holds of a wallet beyond its balances, for a transaction.
Lag(t, r, c, lent, owing) ==
    [i \in Keys |-> [k \in Tickers |->
        (IF t \in lent /\ i = (IF c.state = "success" THEN r.to ELSE r.from) /\ k = r.ticker THEN r.amount ELSE 0)
        - (IF t \in owing /\ i = r.from /\ k = Coin THEN c.fee ELSE 0)]]
Lags(lent, owing) == [t \in TxIds |-> Lag(t, txs[t], chain[t], lent, owing)]
Adds(b, f, lags) ==
    \A i \in Keys, k \in Tickers : Amount(b, i, k) + Total([t \in TxIds |-> lags[t][i][k]]) = f[i][k]

TxsOK(lent, owing) ==
    /\ \A t \in TxIds : TxOK(t, lent, owing)
    /\ \A w \in Workers : WorkOK(w, lent, owing)
Booked(lent, owing) == TxsOK(lent, owing) /\ Adds(balance, funds, Lags(lent, owing))

SweepBooks ==
    /\ BalancesOK /\ SweepTypes /\ OneEach
    /\ \E lent, owing \in SUBSET TxIds : Booked(lent, owing)

OperatorOK == operator \in [pc: {"idle", "read", "credit"}, ticker: Tickers, amount: Nat, owed: Int]

SweepInv == ListingInv /\ ListedOK /\ OperatorOK /\ SweepBooks

HIDE SubscriptionsAssumption
USE InternalTransferAssumption

-----------------------------------------------------------------------------
(* Sweeps: balances *)

LEMMA NumbersAreFinite == IsFiniteSet(Keys) /\ IsFiniteSet(TxIds) /\ 0 \notin TxIds /\ 0 \notin Keys
  BY FS_Interval DEF Keys, TxIds

LEMMA RowFacts ==
    ASSUME NEW r \in TableRows
    PROVE  /\ DOMAIN r \subseteq Tickers /\ r = [k \in DOMAIN r |-> r[k]]
           /\ \A k \in DOMAIN r : r[k] \in Int
  BY DEF TableRows

LEMMA RowIs ==
    ASSUME NEW r, NEW S, S \subseteq Tickers, r \in [S -> Int]
    PROVE  r \in TableRows
  BY DEF TableRows

LEMMA WithRowsFacts ==
    ASSUME NEW r \in TableRows, NEW S \in SUBSET Tickers, NEW n \in Int
    PROVE  /\ WithRows(r, S, n) \in TableRows /\ DOMAIN WithRows(r, S, n) = DOMAIN r \cup S
           /\ \A k \in DOMAIN r : WithRows(r, S, n)[k] = r[k]
           /\ \A k \in S \ DOMAIN r : WithRows(r, S, n)[k] = n
  <1>1. WithRows(r, S, n) \in [DOMAIN r \cup S -> Int] /\ DOMAIN r \cup S \subseteq Tickers
    BY RowFacts DEF WithRows
  <1> QED
    BY <1>1, RowIs DEF WithRows

\* A balance grows by an amount.
Grows(b, b2, e, k, delta) ==
    /\ b2 \in [Entities -> TableRows]
    /\ \A x \in Entities, y \in Tickers :
         /\ HasBalance(b, x, y) => HasBalance(b2, x, y)
         /\ Amount(b2, x, y) = Amount(b, x, y) + (IF x = e /\ y = k THEN delta ELSE 0)

LEMMA AmountType ==
    ASSUME NEW b \in [Entities -> TableRows], NEW e \in Entities, NEW k
    PROVE  Amount(b, e, k) \in Int
  <1>1. b[e] \in TableRows
    OBVIOUS
  <1> QED
    BY <1>1, RowFacts DEF Amount, HasBalance

LEMMA UpdateFacts ==
    ASSUME NEW b \in [Entities -> TableRows], NEW e \in Entities, NEW k \in Tickers, NEW d \in Int
    PROVE  /\ HasBalance(b, e, k) => Grows(b, UpdateBalanceByID(b, e, k, d), e, k, d)
           /\ Grows(b, UpdateBalance(b, e, k, d), e, k, d)
           /\ HasBalance(UpdateBalance(b, e, k, d), e, k)
  <1>0. b[e] \in TableRows
    OBVIOUS
  <1>1. ASSUME HasBalance(b, e, k) PROVE Grows(b, UpdateBalanceByID(b, e, k, d), e, k, d)
    <2>1. PICK r : r = [b[e] EXCEPT ![k] = @ + d]
      OBVIOUS
    <2>2. /\ DOMAIN r = DOMAIN b[e] /\ r[k] = b[e][k] + d /\ \A y \in DOMAIN r : y # k => r[y] = b[e][y]
          /\ r \in TableRows
      <3>1. DOMAIN b[e] \subseteq Tickers /\ b[e][k] \in Int /\ \A y \in DOMAIN b[e] : b[e][y] \in Int
        BY <1>0, <1>1, RowFacts DEF HasBalance
      <3>a. PICK q : q = b[e]
        OBVIOUS
      <3>b. q \in [DOMAIN q -> Int] /\ r = [q EXCEPT ![k] = @ + d] /\ q[k] + d \in Int
        BY <1>0, <2>1, <3>1, <3>a, RowFacts
      <3>2. r \in [DOMAIN b[e] -> Int]
        BY <3>a, <3>b
      <3> QED
        BY <1>1, <2>1, <3>1, <3>2, RowIs DEF HasBalance
    <2>3. UpdateBalanceByID(b, e, k, d) = [b EXCEPT ![e] = r]
      BY <2>1 DEF UpdateBalanceByID
    <2>4. PICK b2 : b2 = [b EXCEPT ![e] = r]
      OBVIOUS
    <2>5. b2 \in [Entities -> TableRows] /\ b2[e] = r /\ \A x \in Entities : x # e => b2[x] = b[x]
      BY <2>2, <2>4
    <2>6. ASSUME NEW x \in Entities, NEW y \in Tickers
          PROVE  /\ HasBalance(b, x, y) => HasBalance(b2, x, y)
                 /\ Amount(b2, x, y) = Amount(b, x, y) + (IF x = e /\ y = k THEN d ELSE 0)
      <3>1. CASE x # e
        BY <2>5, <3>1, AmountType DEF HasBalance, Amount
      <3>2. CASE x = e
        BY <1>1, <2>2, <2>5, <3>2, AmountType DEF HasBalance, Amount
      <3> QED
        BY <3>1, <3>2
    <2>7. Grows(b, b2, e, k, d)
      BY <2>5, <2>6 DEF Grows
    <2> QED
      BY <2>3, <2>4, <2>7
  <1>2. ASSUME ~HasBalance(b, e, k)
        PROVE  Grows(b, CreateBalance(b, e, k, d), e, k, d) /\ HasBalance(CreateBalance(b, e, k, d), e, k)
    <2>1. PICK r : r = WithRows(b[e], {k}, d)
      OBVIOUS
    <2>2. /\ r \in TableRows /\ DOMAIN r = DOMAIN b[e] \cup {k} /\ r[k] = d
          /\ \A y \in DOMAIN b[e] : r[y] = b[e][y]
      <3>1. PICK q \in TableRows : q = b[e]
        BY <1>0
      <3>2. {k} \in SUBSET Tickers
        OBVIOUS
      <3>3. /\ WithRows(q, {k}, d) \in TableRows /\ DOMAIN WithRows(q, {k}, d) = DOMAIN q \cup {k}
            /\ \A y \in DOMAIN q : WithRows(q, {k}, d)[y] = q[y]
            /\ \A y \in {k} \ DOMAIN q : WithRows(q, {k}, d)[y] = d
        BY <3>2, WithRowsFacts
      <3> QED
        BY <1>2, <2>1, <3>1, <3>3 DEF HasBalance
    <2>4. PICK b2 : b2 = CreateBalance(b, e, k, d)
      OBVIOUS
    <2>5. b2 \in [Entities -> TableRows] /\ b2[e] = r /\ \A x \in Entities : x # e => b2[x] = b[x]
      BY <2>1, <2>2, <2>4 DEF CreateBalance
    <2>6. ASSUME NEW x \in Entities, NEW y \in Tickers
          PROVE  /\ HasBalance(b, x, y) => HasBalance(b2, x, y)
                 /\ Amount(b2, x, y) = Amount(b, x, y) + (IF x = e /\ y = k THEN d ELSE 0)
      <3>1. CASE x # e
        BY <2>5, <3>1, AmountType DEF HasBalance, Amount
      <3>2. CASE x = e
        BY <1>2, <2>2, <2>5, <3>2, AmountType DEF HasBalance, Amount
      <3> QED
        BY <3>1, <3>2
    <2>7. HasBalance(b2, e, k)
      BY <2>2, <2>5 DEF HasBalance
    <2> QED
      BY <2>4, <2>5, <2>6, <2>7 DEF Grows
  <1>3. HasBalance(b, e, k) => HasBalance(UpdateBalanceByID(b, e, k, d), e, k)
    BY <1>1 DEF Grows
  <1> QED
    BY <1>1, <1>2, <1>3 DEF UpdateBalance

\* As EnsureBalance leaves them: more rows, of nothing.
LEMMA EnsureFacts ==
    ASSUME NEW b \in [Entities -> TableRows], NEW b2,
           b2 = [e \in Entities |-> b2[e]], \A e \in Entities : b2[e] \in {b[e], EnsureBalance(b[e])}
    PROVE  \A e, k : Grows(b, b2, e, k, 0)
  <1>1. ASSUME NEW x \in Entities, NEW y \in Tickers
        PROVE  /\ b2[x] \in TableRows
               /\ HasBalance(b, x, y) => HasBalance(b2, x, y)
               /\ Amount(b2, x, y) = Amount(b, x, y)
    <2>1. b[x] \in TableRows
      OBVIOUS
    <2>2. CASE b2[x] = b[x]
      BY <2>1, <2>2 DEF HasBalance, Amount
    <2>3. CASE b2[x] = EnsureBalance(b[x])
      <3>1. b2[x] \in TableRows /\ DOMAIN b2[x] = DOMAIN b[x] \cup Tickers
            /\ (\A k \in DOMAIN b[x] : b2[x][k] = b[x][k]) /\ \A k \in Tickers \ DOMAIN b[x] : b2[x][k] = 0
        <4>1. PICK r \in TableRows : r = b[x]
          BY <2>1
        <4>2. Tickers \in SUBSET Tickers /\ 0 \in Int
          OBVIOUS
        <4>3. /\ WithRows(r, Tickers, 0) \in TableRows /\ DOMAIN WithRows(r, Tickers, 0) = DOMAIN r \cup Tickers
              /\ \A k \in DOMAIN r : WithRows(r, Tickers, 0)[k] = r[k]
              /\ \A k \in Tickers \ DOMAIN r : WithRows(r, Tickers, 0)[k] = 0
          BY <4>2, WithRowsFacts
        <4> QED
          BY <2>3, <4>1, <4>3 DEF EnsureBalance
      <3> QED
        BY <3>1 DEF HasBalance, Amount
    <2> QED
      BY <2>2, <2>3
  <1>2. b2 \in [Entities -> TableRows]
    <2>1. Coin \in Tickers
      OBVIOUS
    <2> QED
      BY <1>1, <2>1
  <1> QED
    BY <1>1, <1>2, AmountType DEF Grows

-----------------------------------------------------------------------------
(* Sweeps: the wallets they are of *)

\* Each wallet has a key of its own.
LEMMA IdsAreKeys == ASSUME WalletsInv PROVE Ids \subseteq Keys
  <1>1. PICK n \in Nat : Ids = 1..n
    BY DEF WalletsInv, RowsOK, Ids
  <1>2. PICK f : f = [i \in Ids |-> wallets[i].key]
    OBVIOUS
  <1>3. f \in Injection(Ids, Keys)
    <2>1. \A i \in Ids : wallets[i].key \in Keys
      <3>1. PICK T : T = [key: Keys, type: Types]
        OBVIOUS
      <3>2. wallets \in Seq(T)
        BY <3>1 DEF WalletsInv, RowsOK
      <3>3. \A i \in Ids : wallets[i] \in T
        BY <3>2 DEF Ids
      <3> QED
        BY <3>1, <3>3
    <2> QED
      BY <1>2, <2>1 DEF Injection, IsInjective, WalletsInv, RowsOK
  <1>4. Cardinality(Ids) <= Cardinality(Keys)
    BY <1>3, FS_Injection, NumbersAreFinite
  <1>5. Cardinality(Ids) = n /\ Cardinality(Keys) = MaxKeys
    <2>1. ASSUME NEW k \in Nat PROVE Cardinality(1..k) = k
      <3>1. Cardinality(1..k) = IF 1 > k THEN 0 ELSE k - 1 + 1
        BY FS_Interval
      <3> QED
        BY <3>1
    <2> QED
      BY <1>1, <2>1 DEF Keys
  <1> QED
    BY <1>1, <1>4, <1>5 DEF Keys

LEMMA PageIsListed ==
    ASSUME WalletsInv, NEW start
    PROVE  /\ Sorted(Page("inbound", start), Ascending)
           /\ Elements(Page("inbound", start)) \subseteq Keys
  <1>1. PICK S : S = {i \in Ids : i >= start /\ wallets[i].type = "inbound"}
    OBVIOUS
  <1>2. S \subseteq Nat /\ IsFiniteSet(S) /\ S \subseteq Keys /\ PageSize \in Nat
    <2>1. S \subseteq Keys
      BY <1>1, IdsAreKeys
    <2>2. Keys \subseteq Nat
      BY DEF Keys
    <2>3. IsFiniteSet(S)
      BY <2>1, NumbersAreFinite, FS_Subset
    <2> QED
      BY <2>1, <2>2, <2>3
  <1>3. PICK page : page = InOrder(FirstOf(S, PageSize, Ascending), Ascending)
    OBVIOUS
  <1>4. Sorted(page, Ascending) /\ Elements(page) \subseteq S
    <2>1. Ascending \in BOOLEAN
      BY AscendingFacts
    <2>2. Fills(InOrder(FirstOf(S, PageSize, Ascending), Ascending), S, PageSize, Ascending)
      BY <1>2, <2>1, PageFills
    <2> QED
      BY <1>3, <2>2 DEF Fills
  <1> QED
    BY <1>1, <1>2, <1>3, <1>4 DEF Page

LEMMA ElementsConcat ==
    ASSUME NEW s \in Seq(Nat), NEW t \in Seq(Nat), NEW K, Elements(s) \subseteq K, Elements(t) \subseteq K
    PROVE  Elements(s \o t) \subseteq K
  <1>1. /\ Len(s \o t) = Len(s) + Len(t)
        /\ \A n \in 1..Len(s \o t) : (s \o t)[n] = IF n <= Len(s) THEN s[n] ELSE t[n - Len(s)]
    OBVIOUS
  <1>2. ASSUME NEW n \in 1..Len(s \o t) PROVE (s \o t)[n] \in K
    <2>1. CASE n <= Len(s)
      <3>1. n \in 1..Len(s) /\ (s \o t)[n] = s[n]
        BY <1>1, <2>1
      <3> QED
        BY <3>1 DEF Elements
    <2>2. CASE ~(n <= Len(s))
      <3>1. PICK m \in 1..Len(t) : m = n - Len(s)
        BY <1>1, <2>2
      <3>2. (s \o t)[n] = t[m]
        BY <1>1, <2>2, <3>1
      <3> QED
        BY <3>2 DEF Elements
    <2> QED
      BY <2>1, <2>2
  <1> QED
    BY <1>2 DEF Elements

\* Only a page adds to what is listed.
LEMMA ListedStep ==
    ASSUME ListingInv, ListedOK, WalletsNext PROVE ListedOK'
  <1>1. /\ proc = [j \in Processes |-> proc[j]] /\ Elements(<<>>) = {} /\ Resting.listed = <<>>
        /\ \A j \in Processes : DOMAIN proc[j] = DOMAIN Resting
    BY NothingSorted DEF ListingInv, WalletsInv, ProcsOK, Resting
  <1>2. ASSUME NEW j \in Processes, NEW k, proc' = [proc EXCEPT ![j] = k], Elements(k.listed) \subseteq Keys
        PROVE  ListedOK'
    BY <1>1, <1>2 DEF ListedOK
  <1>3. ASSUME NEW j \in Processes, NEW k, proc' = [proc EXCEPT ![j] = k],
               k.listed = proc[j].listed \/ k.listed = <<>>
        PROVE  ListedOK'
    BY <1>1, <1>2, <1>3 DEF ListedOK
  <1>4. ASSUME NEW j \in Processes, KmsCreate(j) PROVE ListedOK'
    <2>1. PICK n \in Keys : proc' = [proc EXCEPT ![j].pc = "insert", ![j].key = n]
      BY <1>4 DEF KmsCreate
    <2>2. PICK k : k = [proc[j] EXCEPT !.pc = "insert", !.key = n]
      OBVIOUS
    <2>3. proc' = [proc EXCEPT ![j] = k] /\ k.listed = proc[j].listed
      BY <1>1, <2>1, <2>2 DEF Resting
    <2> QED
      BY <1>3, <2>3
  <1>5. ASSUME NEW j \in Processes, CreateWallet(j) PROVE ListedOK'
    <2>1. PICK k : k = IF proc[j].more > 0 THEN [proc[j] EXCEPT !.pc = "kms", !.more = @ - 1, !.key = 0]
                       ELSE IF proc[j].want = "inbound" THEN Resting
                            ELSE [Resting EXCEPT !.pc = "list", !.first = Len(wallets)]
      OBVIOUS
    <2>2. proc' = [proc EXCEPT ![j] = k]
      BY <1>5, <2>1 DEF CreateWallet, Insert, Rest
    <2>3. k.listed = proc[j].listed \/ k.listed = <<>>
      BY <1>1, <2>1 DEF Resting
    <2> QED
      BY <1>3, <2>2, <2>3
  <1>6. ASSUME NEW j \in Processes, EnsureOutboundWallet(j) PROVE ListedOK'
    <2>1. PICK k : k = IF \E i \in Ids : wallets[i].type = "outbound"
                       THEN [proc[j] EXCEPT !.pc = "list", !.first = Len(wallets)]
                       ELSE [proc[j] EXCEPT !.pc = "kms", !.want = "outbound"]
      OBVIOUS
    <2>2. proc' = [proc EXCEPT ![j] = k]
      BY <1>1, <1>6, <2>1 DEF EnsureOutboundWallet
    <2>3. k.listed = proc[j].listed
      BY <1>1, <2>1 DEF Resting
    <2> QED
      BY <1>3, <2>2, <2>3
  <1>7. ASSUME NEW j \in Processes, List(j) PROVE ListedOK'
    <2>0. PICK page : page = Page("inbound", proc[j].start)
      OBVIOUS
    <2>1. PICK rest : rest = {i \in Ids : page # <<>> /\ i >= Last(page) + 1}
      OBVIOUS
    <2>2. PICK k : k = [proc[j] EXCEPT !.listed = @ \o page,
                                       !.start = IF rest = {} THEN 1 ELSE Min(rest),
                                       !.pc = IF rest = {} THEN "match" ELSE "list"]
      OBVIOUS
    <2>3. proc' = [proc EXCEPT ![j] = k] /\ k.listed = proc[j].listed \o page
      BY <1>1, <1>7, <2>0, <2>1, <2>2 DEF List, Resting
    <2>4. page \in Seq(Nat) /\ Elements(page) \subseteq Keys
      BY <2>0, PageIsListed, SortedElements DEF ListingInv
    <2>5. proc[j].listed \in Seq(Nat) /\ Elements(proc[j].listed) \subseteq Keys
      BY <1>7, SortedElements DEF List, In, ListingInv, Listing, UpTo, ListedOK
    <2>6. Elements(proc[j].listed \o page) \subseteq Keys
      <3>1. PICK s : s = proc[j].listed
        OBVIOUS
      <3> QED
        BY <2>4, <2>5, <3>1, ElementsConcat
    <2> QED
      BY <1>2, <2>3, <2>6
  <1>8. ASSUME NEW j \in Processes, StartJob(j) \/ CreateRefused(j) \/ AbortJob(j)
        PROVE  ListedOK'
    <2>1. PICK k : k \in {[proc[j] EXCEPT !.pc = "ensure"], Resting} /\ proc' = [proc EXCEPT ![j] = k]
      BY <1>1, <1>8 DEF StartJob, CreateRefused, AbortJob, Go, Rest
    <2>2. k.listed = proc[j].listed \/ k.listed = <<>>
      BY <1>1, <2>1 DEF Resting
    <2> QED
      BY <1>3, <2>1, <2>2
  <1>9. ASSUME NEW j \in Processes, NEW n \in 1..MaxBulk, BulkCreateWallets(j, n) PROVE ListedOK'
    <2>1. PICK k : k = [proc[j] EXCEPT !.pc = "kms", !.more = n - 1]
      OBVIOUS
    <2>2. proc' = [proc EXCEPT ![j] = k] /\ k.listed = proc[j].listed
      BY <1>1, <1>9, <2>1 DEF BulkCreateWallets, Resting
    <2> QED
      BY <1>3, <2>2
  <1>10. ASSUME NEW k \in Keys, KmsDelete(k) PROVE ListedOK'
    BY <1>10 DEF KmsDelete, ListedOK
  <1> QED
    BY <1>4, <1>5, <1>6, <1>7, <1>8, <1>9, <1>10 DEF WalletsNext

\* A job that ends, or goes on to the transfers.
LEMMA RestStep ==
    ASSUME ListingInv, ListedOK, NEW j \in Processes, Rest(j), UNCHANGED walletVars
    PROVE  ListingInv' /\ ListedOK'
  <1>1. /\ proc = [l \in Processes |-> proc[l]] /\ proc' = [proc EXCEPT ![j] = Resting]
        /\ Resting.want = "inbound" /\ Resting.pc = "idle" /\ Resting.key = 0 /\ Resting.first = 0
        /\ Resting.listed = <<>>
    BY DEF ListingInv, WalletsInv, ProcsOK, Resting, Rest
  <1>2. WalletsInv'
    BY <1>1, Keyless DEF ListingInv
  <1>3. wallets' = wallets /\ Len(wallets) \in Nat
    BY DEF walletVars, ListingInv, WalletsInv, RowsOK
  <1>4. Listing(Resting)
    BY <1>1, <1>3, NotListing DEF ListingInv
  <1>5. ListingInv'
    BY <1>1, <1>2, <1>3, <1>4, ListingStep
  <1>6. ListedOK'
    BY <1>1, NothingSorted DEF ListedOK
  <1> QED
    BY <1>5, <1>6

-----------------------------------------------------------------------------
(* Sweeps: the sums *)

LagTypes == [TxIds -> [Keys -> [Tickers -> Int]]]

LEMMA LagType ==
    ASSUME NEW t, NEW r, NEW c, NEW lent, NEW owing, r.amount \in Int, c.fee \in Nat
    PROVE  Lag(t, r, c, lent, owing) \in [Keys -> [Tickers -> Int]]
  BY DEF Lag

LEMMA LagIs ==
    ASSUME NEW t, NEW r, NEW c, NEW lent, NEW owing, NEW i \in Keys, NEW k \in Tickers
    PROVE  Lag(t, r, c, lent, owing)[i][k] =
             (IF t \in lent /\ i = (IF c.state = "success" THEN r.to ELSE r.from) /\ k = r.ticker
              THEN r.amount ELSE 0)
             - (IF t \in owing /\ i = r.from /\ k = Coin THEN c.fee ELSE 0)
  BY DEF Lag

LEMMA LagsType ==
    ASSUME SweepTypes, NEW lent, NEW owing
    PROVE  Lags(lent, owing) \in LagTypes
  <1>1. ASSUME NEW t \in TxIds PROVE Lag(t, txs[t], chain[t], lent, owing) \in [Keys -> [Tickers -> Int]]
    <2>1. txs[t].amount \in Int /\ chain[t].fee \in Nat
      BY DEF SweepTypes, TxRecord, ChainRecord, WorkRecord
    <2> QED
      BY <2>1, LagType
  <1> QED
    BY <1>1 DEF Lags, LagTypes

LEMMA LaggingType ==
    ASSUME NEW g \in LagTypes, NEW i \in Keys, NEW k \in Tickers
    PROVE  [t \in TxIds |-> g[t][i][k]] \in [TxIds -> Int]
  BY DEF LagTypes

BooksOf(b, f) == b \in [Entities -> TableRows] /\ f \in [Keys -> [Tickers -> Int]]

LEMMA AmountOf ==
    ASSUME NEW b, NEW f, BooksOf(b, f), NEW i \in Keys, NEW k \in Tickers
    PROVE  Amount(b, i, k) \in Int /\ f[i][k] \in Int
  BY AmountType DEF BooksOf, Entities

\* Balances, the chain and what lags behind for one transaction move together.
LEMMA AddsStep ==
    ASSUME NEW b, NEW f, NEW g \in LagTypes, NEW b2, NEW f2, NEW g2 \in LagTypes, NEW t \in TxIds,
           BooksOf(b, f), BooksOf(b2, f2), Adds(b, f, g),
           \A u \in TxIds : u # t => g2[u] = g[u],
           \A i \in Keys, k \in Tickers :
               Amount(b2, i, k) + g2[t][i][k] - f2[i][k] = Amount(b, i, k) + g[t][i][k] - f[i][k]
    PROVE  Adds(b2, f2, g2)
  <1> SUFFICES ASSUME NEW i \in Keys, NEW k \in Tickers
               PROVE  Amount(b2, i, k) + Total([u \in TxIds |-> g2[u][i][k]]) = f2[i][k]
    BY DEF Adds
  <1>1. PICK p : p = [u \in TxIds |-> g[u][i][k]]
    OBVIOUS
  <1>2. PICK q : q = [u \in TxIds |-> g2[u][i][k]]
    OBVIOUS
  <1>3. p \in [TxIds -> Int] /\ q \in [TxIds -> Int]
    BY <1>1, <1>2, LaggingType
  <1>4. p[t] = g[t][i][k] /\ q[t] = g2[t][i][k] /\ \A u \in TxIds : u # t => q[u] = p[u]
    BY <1>1, <1>2
  <1>5. Total(q) = Total(p) + q[t] - p[t] /\ Total(p) \in Int
    BY <1>3, <1>4, TotalChange, TotalType, NumbersAreFinite
  <1>6. Amount(b, i, k) + Total(p) = f[i][k]
    BY <1>1 DEF Adds
  <1>7. /\ Amount(b, i, k) \in Int /\ Amount(b2, i, k) \in Int /\ f[i][k] \in Int /\ f2[i][k] \in Int
        /\ p[t] \in Int /\ q[t] \in Int
    BY <1>3, AmountOf
  <1>8. Amount(b2, i, k) + q[t] - f2[i][k] = Amount(b, i, k) + p[t] - f[i][k]
    BY <1>4
  <1>9. Amount(b2, i, k) + Total(q) = f2[i][k]
    BY <1>5, <1>6, <1>7, <1>8
  <1> QED
    BY <1>2, <1>9

LEMMA AddsSame ==
    ASSUME NEW b, NEW f, NEW g, NEW b2, NEW f2, BooksOf(b, f), BooksOf(b2, f2), Adds(b, f, g), g \in LagTypes,
           \A i \in Keys, k \in Tickers : Amount(b2, i, k) - f2[i][k] = Amount(b, i, k) - f[i][k]
    PROVE  Adds(b2, f2, g)
  <1> SUFFICES ASSUME NEW i \in Keys, NEW k \in Tickers
               PROVE  Amount(b2, i, k) + Total([u \in TxIds |-> g[u][i][k]]) = f2[i][k]
    BY DEF Adds
  <1>1. PICK n : n = Total([u \in TxIds |-> g[u][i][k]])
    OBVIOUS
  <1>2. n \in Int
    BY <1>1, LaggingType, TotalType, NumbersAreFinite
  <1>3. Amount(b, i, k) + n = f[i][k]
    BY <1>1 DEF Adds
  <1>4. Amount(b, i, k) \in Int /\ Amount(b2, i, k) \in Int /\ f[i][k] \in Int /\ f2[i][k] \in Int
    BY AmountOf
  <1>5. Amount(b2, i, k) - f2[i][k] = Amount(b, i, k) - f[i][k]
    OBVIOUS
  <1>6. Amount(b2, i, k) + n = f2[i][k]
    BY <1>2, <1>3, <1>4, <1>5
  <1> QED
    BY <1>1, <1>6

-----------------------------------------------------------------------------
(* Sweeps: one goroutine's step *)

\* Rows stay.
Keeps(b, b2) == \A e \in Entities, k \in Tickers : HasBalance(b, e, k) => HasBalance(b2, e, k)

LEMMA MakingStays ==
    ASSUME NEW l, NEW r, NEW c, NEW b, NEW b2, NEW lent, NEW lent2, Keeps(b, b2),
           l.from \in Entities, l.ticker \in Tickers, l.tx \in lent2 <=> l.tx \in lent,
           Making(l, r, c, b, lent)
    PROVE  Making(l, r, c, b2, lent2)
  BY DEF Making, Keeps

LEMMA FollowingStays ==
    ASSUME NEW l, NEW r, NEW c, NEW b, NEW b2, NEW lent, NEW lent2, NEW owing, NEW owing2, Keeps(b, b2),
           r.from \in Entities, r.ticker \in Tickers, l.tx \in lent2 <=> l.tx \in lent,
           l.tx \in owing2 <=> l.tx \in owing, Following(l, r, c, b, lent, owing)
    PROVE  Following(l, r, c, b2, lent2, owing2)
  BY DEF Following, Keeps

\* What a step that concerns no transaction but t leaves to the others.
Elsewhere(t, lent, owing, lent2, owing2) ==
    \A u \in TxIds : u # t => /\ txs'[u] = txs[u] /\ chain'[u] = chain[u]
                              /\ (u \in lent2 <=> u \in lent) /\ (u \in owing2 <=> u \in owing)

LEMMA WorkStays ==
    ASSUME SweepTypes, NEW lent, NEW owing, NEW lent2, NEW owing2, NEW t,
           NEW v \in Workers, WorkOK(v, lent, owing), work'[v] = work[v],
           Keeps(balance, balance'), Elsewhere(t, lent, owing, lent2, owing2), work[v].tx = 0 \/ work[v].tx # t
    PROVE  WorkOK(v, lent2, owing2)'
  <1>1. PICK l : l = work[v]
    OBVIOUS
  <1>2. l.from \in Entities /\ l.ticker \in Tickers /\ l.tx \in TxIds \cup {0}
    BY <1>1 DEF SweepTypes, WorkRecord
  <1>3. CASE l.tx = 0
    BY <1>1, <1>3 DEF WorkOK
  <1>4. CASE l.tx # 0
    <2>1. l.tx \in TxIds /\ l.tx # t
      BY <1>1, <1>2, <1>4
    <2>2. /\ txs'[l.tx] = txs[l.tx] /\ chain'[l.tx] = chain[l.tx]
          /\ (l.tx \in lent2 <=> l.tx \in lent) /\ (l.tx \in owing2 <=> l.tx \in owing)
      BY <2>1 DEF Elsewhere
    <2>3. txs[l.tx].from \in Entities /\ txs[l.tx].ticker \in Tickers
      BY <2>1 DEF SweepTypes, TxRecord, ChainRecord
    <2>4. Making(l, txs[l.tx], chain[l.tx], balance, lent) => Making(l, txs[l.tx], chain[l.tx], balance', lent2)
      BY <1>2, <2>2, MakingStays
    <2>5. Following(l, txs[l.tx], chain[l.tx], balance, lent, owing)
            => Following(l, txs[l.tx], chain[l.tx], balance', lent2, owing2)
      BY <2>2, <2>3, FollowingStays
    <2> QED
      BY <1>1, <2>2, <2>4, <2>5 DEF WorkOK
  <1> QED
    BY <1>3, <1>4

LEMMA TxStays ==
    ASSUME SweepTypes, NEW lent, NEW owing, NEW lent2, NEW owing2, NEW t, NEW u \in TxIds, u # t,
           TxOK(u, lent, owing), Keeps(balance, balance'), Elsewhere(t, lent, owing, lent2, owing2),
           \A v \in Workers : work[v].tx = u => work'[v] = work[v]
    PROVE  TxOK(u, lent2, owing2)'
  <1>1. /\ txs'[u] = txs[u] /\ chain'[u] = chain[u]
        /\ (u \in lent2 <=> u \in lent) /\ (u \in owing2 <=> u \in owing)
    BY DEF Elsewhere
  <1>2. \A p : Under(u, p) => Under(u, p)'
    BY DEF Under
  <1>3. HasBalance(balance, txs[u].from, txs[u].ticker) => HasBalance(balance', txs[u].from, txs[u].ticker)
    <2>1. txs[u].from \in Entities /\ txs[u].ticker \in Tickers
      BY DEF SweepTypes, TxRecord, ChainRecord, WorkRecord
    <2> QED
      BY <2>1 DEF Keeps
  <1> QED
    BY <1>1, <1>2, <1>3 DEF TxOK

\* A goroutine's step, about a transaction of its own or none.
LEMMA TxsStep ==
    ASSUME SweepTypes, OneEach, NEW lent, NEW owing, NEW lent2, NEW owing2, TxsOK(lent, owing),
           NEW w \in Workers, NEW t,
           \A v \in Workers : v # w => work'[v] = work[v] /\ (work[v].tx = 0 \/ work[v].tx # t),
           work[w].tx \in {0, t}, work'[w].tx \in {0, t},
           Keeps(balance, balance'), Elsewhere(t, lent, owing, lent2, owing2),
           t \in TxIds => TxOK(t, lent2, owing2)', WorkOK(w, lent2, owing2)'
    PROVE  TxsOK(lent2, owing2)' /\ OneEach'
  <1>1. ASSUME NEW u \in TxIds PROVE TxOK(u, lent2, owing2)'
    <2>1. CASE u = t
      BY <2>1
    <2>2. CASE u # t
      <3>1. u # 0
        BY NumbersAreFinite
      <3>2. \A v \in Workers : work[v].tx = u => work'[v] = work[v]
        BY <2>2, <3>1
      <3>3. TxOK(u, lent, owing)
        BY DEF TxsOK
      <3> QED
        BY <2>2, <3>2, <3>3, TxStays
    <2> QED
      BY <2>1, <2>2
  <1>2. ASSUME NEW v \in Workers PROVE WorkOK(v, lent2, owing2)'
    <2>1. CASE v # w
      <3>1. WorkOK(v, lent, owing)
        BY DEF TxsOK
      <3> QED
        BY <2>1, <3>1, WorkStays
    <2> QED
      BY <2>1
  <1>3. OneEach'
    BY DEF OneEach
  <1> QED
    BY <1>1, <1>2, <1>3 DEF TxsOK

\* One that changes no balance, nor what a transaction lags behind.
LEMMA QuietStep ==
    ASSUME BalancesOK, SweepTypes, SweepTypes', UNCHANGED <<balance, funds>>,
           NEW lent, NEW owing, NEW lent2, NEW owing2, Adds(balance, funds, Lags(lent, owing)),
           NEW t, Elsewhere(t, lent, owing, lent2, owing2),
           t \in TxIds => Lag(t, txs'[t], chain'[t], lent2, owing2) = Lag(t, txs[t], chain[t], lent, owing)
    PROVE  BalancesOK' /\ Adds(balance, funds, Lags(lent2, owing2))'
  <1>1. BalancesOK'
    BY DEF BalancesOK
  <1>2. Lags(lent2, owing2)' = Lags(lent, owing)
    <2>1. ASSUME NEW u \in TxIds
          PROVE  Lag(u, txs'[u], chain'[u], lent2, owing2) = Lag(u, txs[u], chain[u], lent, owing)
      <3>1. CASE u = t
        BY <3>1
      <3>2. CASE u # t
        BY <3>2 DEF Elsewhere, Lag
      <3> QED
        BY <3>1, <3>2
    <2> QED
      BY <2>1 DEF Lags
  <1>3. PICK g : g = Lags(lent, owing)
    OBVIOUS
  <1>4. Adds(balance, funds, g)' /\ g = Lags(lent2, owing2)'
    BY <1>2, <1>3 DEF Adds, Amount, HasBalance
  <1> QED
    BY <1>1, <1>4 DEF Adds

LEMMA WorkerIs ==
    ASSUME SweepTypes, NEW w \in Workers, NEW l \in WorkRecord, work' = [work EXCEPT ![w] = l]
    PROVE  work' \in [Workers -> WorkRecord] /\ work'[w] = l /\ \A v \in Workers : v # w => work'[v] = work[v]
  BY DEF SweepTypes

LEMMA FreeIs == Free \in WorkRecord /\ ~Free.moved /\ Free.pc = "idle" /\ Free.tx = 0
  BY DEF Free, WorkRecord, Pcs, Entities, Merchant

\* A goroutine goes on to l, with one transaction or none.
Onwards(w, l, t) ==
    /\ l \in WorkRecord /\ work' = [work EXCEPT ![w] = l] /\ l.tx \in {0, t} /\ work[w].tx \in {0, t}
    /\ \A v \in Workers : v # w => work[v].tx = 0 \/ work[v].tx # t

LEMMA OwnTransaction ==
    ASSUME OneEach, NEW w \in Workers, NEW l \in WorkRecord, work' = [work EXCEPT ![w] = l],
           l.tx \in {0, work[w].tx}
    PROVE  Onwards(w, l, work[w].tx)
  BY DEF OneEach, Onwards

LEMMA WorkerStep ==
    ASSUME BalancesOK, SweepTypes, OneEach, NEW lent \in SUBSET TxIds, NEW owing \in SUBSET TxIds,
           Booked(lent, owing), NEW lent2 \in SUBSET TxIds, NEW owing2 \in SUBSET TxIds,
           NEW w \in Workers, NEW l, NEW t, Onwards(w, l, t), SweepTypes', BalancesOK',
           Keeps(balance, balance'), Elsewhere(t, lent, owing, lent2, owing2),
           t \in TxIds => TxOK(t, lent2, owing2)', WorkOK(w, lent2, owing2)',
           Adds(balance, funds, Lags(lent2, owing2))'
    PROVE  SweepBooks'
  <1>1. work'[w] = l /\ \A v \in Workers : v # w => work'[v] = work[v]
    BY WorkerIs DEF Onwards
  <1>2. TxsOK(lent, owing)
    BY DEF Booked
  <1>3. TxsOK(lent2, owing2)' /\ OneEach'
    <2>1. /\ \A v \in Workers : v # w => work'[v] = work[v] /\ (work[v].tx = 0 \/ work[v].tx # t)
          /\ work[w].tx \in {0, t} /\ work'[w].tx \in {0, t}
      BY <1>1 DEF Onwards
    <2> QED
      BY <1>2, <2>1, TxsStep
  <1>4. Booked(lent2, owing2)'
    BY <1>3 DEF Booked
  <1> QED
    BY <1>3, <1>4 DEF SweepBooks

LEMMA QuietWorker ==
    ASSUME BalancesOK, SweepTypes, OneEach, NEW lent \in SUBSET TxIds, NEW owing \in SUBSET TxIds,
           Booked(lent, owing), NEW lent2 \in SUBSET TxIds, NEW owing2 \in SUBSET TxIds,
           NEW w \in Workers, NEW l, NEW t, Onwards(w, l, t), SweepTypes', UNCHANGED <<balance, funds>>,
           Elsewhere(t, lent, owing, lent2, owing2),
           t \in TxIds => TxOK(t, lent2, owing2)', WorkOK(w, lent2, owing2)',
           t \in TxIds => Lag(t, txs'[t], chain'[t], lent2, owing2) = Lag(t, txs[t], chain[t], lent, owing)
    PROVE  SweepBooks'
  <1>1. BalancesOK' /\ Adds(balance, funds, Lags(lent2, owing2))'
    BY QuietStep DEF Booked
  <1>2. Keeps(balance, balance')
    BY DEF Keeps
  <1> QED
    BY <1>1, <1>2, WorkerStep

-----------------------------------------------------------------------------
(* Sweeps: createInternalTransfer *)

LEMMA StartTransferStep ==
    ASSUME SweepBooks, WalletsInv, NEW w \in Workers, NEW b, StartTransfer(w, b) PROVE SweepBooks'
  <1>0. BalancesOK /\ SweepTypes /\ OneEach
    BY DEF SweepBooks
  <1>1. PICK lent \in SUBSET TxIds, owing \in SUBSET TxIds : Booked(lent, owing)
    BY DEF SweepBooks
  <1>2. PICK i \in Ids :
          /\ work[w] = Free /\ b \in todo /\ todo' = todo \ {b}
          /\ work' = [work EXCEPT ![w] =
                        [Free EXCEPT !.pc = "nonce", !.from = b.from, !.to = i, !.ticker = b.ticker,
                                     !.amount = determineInternalTransferAmount(b.ticker, b.seen)]]
          /\ UNCHANGED <<balance, txs, counters, network>>
    BY DEF StartTransfer
  <1>3. i \in Keys /\ b \in [from: Keys, ticker: Tickers, seen: Int]
    BY <1>0, <1>2, IdsAreKeys DEF SweepTypes
  <1>4. PICK n : n = determineInternalTransferAmount(b.ticker, b.seen)
    OBVIOUS
  <1>5. n \in Int
    BY <1>3, <1>4 DEF determineInternalTransferAmount
  <1>6. PICK l : l = [Free EXCEPT !.pc = "nonce", !.from = b.from, !.to = i, !.ticker = b.ticker, !.amount = n]
    OBVIOUS
  <1>7. l \in WorkRecord /\ l.pc = "nonce" /\ l.tx = 0 /\ ~l.moved /\ l.from \in Keys /\ l.to \in Keys
    <2>1. b.from \in Keys /\ b.ticker \in Tickers /\ b.from \in Entities /\ i \in Entities
      BY <1>3 DEF Entities
    <2>2. /\ DOMAIN Free = {"pc", "from", "to", "ticker", "amount", "nonce", "tx", "moved"}
          /\ Free.nonce = 0 /\ Free.tx = 0 /\ Free.moved = FALSE
      BY DEF Free
    <2>3. l = [pc |-> "nonce", from |-> b.from, to |-> i, ticker |-> b.ticker, amount |-> n, nonce |-> 0,
               tx |-> 0, moved |-> FALSE]
      BY <1>6, <2>2 DEF Free
    <2> QED
      BY <1>3, <1>5, <2>1, <2>3 DEF WorkRecord, Pcs
  <1>8. work' = [work EXCEPT ![w] = l] /\ work[w].tx = 0
    BY <1>2, <1>4, <1>6, FreeIs
  <1>9. Onwards(w, l, 0)
    BY <1>7, <1>8 DEF Onwards
  <1>10. work'[w] = l /\ SweepTypes'
    BY <1>0, <1>2, <1>7, <1>8, WorkerIs DEF SweepTypes, counters, network
  <1>11. WorkOK(w, lent, owing)'
    BY <1>7, <1>10 DEF WorkOK, Sending, Checking
  <1>12. Elsewhere(0, lent, owing, lent, owing) /\ UNCHANGED <<balance, funds>>
    BY <1>2 DEF Elsewhere, network
  <1> QED
    BY <1>0, <1>1, <1>9, <1>10, <1>11, <1>12, NumbersAreFinite, QuietWorker

LEMMA TakeNonceStep ==
    ASSUME SweepBooks, NEW w \in Workers, TakeNonce(w) PROVE SweepBooks'
  <1>0. BalancesOK /\ SweepTypes /\ OneEach
    BY DEF SweepBooks
  <1>1. PICK lent \in SUBSET TxIds, owing \in SUBSET TxIds : Booked(lent, owing)
    BY DEF SweepBooks
  <1>2. PICK i : i = work[w].from
    OBVIOUS
  <1>3. /\ work[w].pc = "nonce" /\ pending' = [pending EXCEPT ![i] = @ + 1]
        /\ work' = [work EXCEPT ![w].pc = "sign", ![w].nonce = confirmed[i] + pending[i]]
        /\ UNCHANGED <<balance, todo, txs, confirmed, network>>
    BY <1>2 DEF TakeNonce, Doing
  <1>4. work[w] \in WorkRecord /\ WorkOK(w, lent, owing)
    BY <1>0, <1>1 DEF SweepTypes, Booked, TxsOK
  <1>5. work[w].tx = 0 /\ ~work[w].moved /\ work[w].from \in Keys /\ work[w].to \in Keys
    BY <1>3, <1>4 DEF WorkOK
  <1>6. PICK n \in Int : n = confirmed[i] + pending[i]
    BY <1>0, <1>2, <1>5 DEF SweepTypes
  <1>7. PICK l : l = [work[w] EXCEPT !.pc = "sign", !.nonce = n]
    OBVIOUS
  <1>8. l \in WorkRecord /\ l.pc = "sign" /\ l.tx = 0 /\ ~l.moved /\ l.from \in Keys /\ l.to \in Keys
    BY <1>4, <1>5, <1>7 DEF WorkRecord, Pcs
  <1>9. work' = [work EXCEPT ![w] = l]
    BY <1>0, <1>3, <1>6, <1>7 DEF SweepTypes
  <1>10. Onwards(w, l, 0)
    BY <1>5, <1>8, <1>9 DEF Onwards
  <1>11. work' \in [Workers -> WorkRecord] /\ work'[w] = l
    BY <1>0, <1>8, <1>9, WorkerIs
  <1>12. SweepTypes'
    <2>1. pending' \in [Keys -> Int]
      <3>1. pending \in [Keys -> Int] /\ i \in Keys
        BY <1>0, <1>2, <1>5 DEF SweepTypes
      <3>2. pending[i] + 1 \in Int
        BY <3>1
      <3> QED
        BY <1>3, <3>1, <3>2
    <2> QED
      BY <1>0, <1>3, <1>11, <2>1 DEF SweepTypes, network
  <1>13. WorkOK(w, lent, owing)'
    BY <1>8, <1>11 DEF WorkOK, Sending, Checking
  <1>14. Elsewhere(0, lent, owing, lent, owing) /\ UNCHANGED <<balance, funds>>
    BY <1>3 DEF Elsewhere, network
  <1> QED
    BY <1>0, <1>1, <1>10, <1>12, <1>13, <1>14, NumbersAreFinite, QuietWorker

\* The row is new, so no goroutine has it and nothing is lent or owed.
LEMMA SignStep ==
    ASSUME SweepBooks, NEW w \in Workers, SignAndCreateTx(w) PROVE SweepBooks'
  <1>0. BalancesOK /\ SweepTypes /\ OneEach
    BY DEF SweepBooks
  <1>1. PICK lent \in SUBSET TxIds, owing \in SUBSET TxIds : Booked(lent, owing)
    BY DEF SweepBooks
  <1>2. PICK t \in TxIds :
          /\ work[w].pc = "sign" /\ validTransfer(work[w]) /\ txs[t].status = "none"
          /\ InsertTransaction(t, work[w])
          /\ chain' = [chain EXCEPT ![t].nonce = work[w].nonce]
          /\ work' = [work EXCEPT ![w].pc = "decrement", ![w].tx = t]
          /\ UNCHANGED <<balance, todo, counters, funds>>
    BY DEF SignAndCreateTx, Doing
  <1>3. work[w] \in WorkRecord /\ WorkOK(w, lent, owing) /\ TxOK(t, lent, owing) /\ chain[t] \in ChainRecord
    BY <1>0, <1>1 DEF SweepTypes, Booked, TxsOK
  <1>4. work[w].tx = 0 /\ ~work[w].moved /\ work[w].from \in Keys /\ work[w].to \in Keys
    BY <1>2, <1>3 DEF WorkOK
  <1>5. chain[t].state = "unsent" /\ chain[t].fee = 0 /\ t \notin lent /\ t \notin owing /\ t # 0
    BY <1>2, <1>3, NumbersAreFinite DEF TxOK
  <1>6. PICK l : l = [work[w] EXCEPT !.pc = "decrement", !.tx = t]
    OBVIOUS
  <1>7. /\ l \in WorkRecord /\ l.pc = "decrement" /\ l.tx = t /\ ~l.moved /\ l.from = work[w].from
        /\ l.to = work[w].to /\ l.ticker = work[w].ticker /\ l.amount = work[w].amount
    BY <1>3, <1>4, <1>6 DEF WorkRecord, Pcs, Sending
  <1>8. work' = [work EXCEPT ![w] = l]
    BY <1>0, <1>2, <1>6 DEF SweepTypes
  <1>9. PICK r : r = [status |-> "pending", from |-> l.from, to |-> l.to, ticker |-> l.ticker,
                      amount |-> l.amount, hash |-> FALSE]
    OBVIOUS
  <1>10. /\ r \in TxRecord /\ r.status = "pending" /\ r.from = l.from /\ r.to = l.to /\ r.ticker = l.ticker
         /\ r.amount = l.amount /\ ~r.hash
    BY <1>7, <1>9 DEF WorkRecord, Pcs, TxRecord
  <1>11. txs' = [txs EXCEPT ![t] = r]
    BY <1>2, <1>7, <1>9 DEF InsertTransaction
  <1>12. PICK c : c = [chain[t] EXCEPT !.nonce = work[w].nonce]
    OBVIOUS
  <1>13. c \in ChainRecord /\ c.state = "unsent" /\ c.fee = 0
    BY <1>3, <1>5, <1>12 DEF ChainRecord, WorkRecord
  <1>14. chain' = [chain EXCEPT ![t] = c]
    BY <1>0, <1>2, <1>12 DEF SweepTypes
  <1>15. work' \in [Workers -> WorkRecord] /\ work'[w] = l
    BY <1>0, <1>7, <1>8, WorkerIs
  <1>16. SweepTypes' /\ txs'[t] = r /\ chain'[t] = c
    BY <1>0, <1>2, <1>10, <1>11, <1>13, <1>14, <1>15 DEF SweepTypes, counters
  <1>17. \A v \in Workers : work[v].tx = 0 \/ work[v].tx # t
    <2> SUFFICES ASSUME NEW v \in Workers, work[v].tx = t PROVE FALSE
      OBVIOUS
    <2>1. work[v] \in WorkRecord /\ WorkOK(v, lent, owing)
      BY <1>0, <1>1 DEF SweepTypes, Booked, TxsOK
    <2>2. work[v].pc \in Sending => txs[t].status \in {"pending", "canceled"}
      BY <1>5, <2>1 DEF WorkOK, Making
    <2>3. work[v].pc \in Checking \cup {"setHash"} => txs[t].status \in {"pending", "failed"}
      BY <1>5, <2>1 DEF WorkOK, Following
    <2>4. work[v].pc \in {"idle", "nonce", "sign"}
      BY <1>2, <2>1, <2>2, <2>3 DEF WorkRecord, Pcs
    <2> QED
      BY <1>5, <2>1, <2>4 DEF WorkOK
  <1>18. Onwards(w, l, t)
    BY <1>4, <1>7, <1>8, <1>17 DEF Onwards
  <1>19. PICK owing2 \in SUBSET TxIds : owing2 = owing \cup {t}
    OBVIOUS
  <1>20. Elsewhere(t, lent, owing, lent, owing2) /\ UNCHANGED <<balance, funds>>
    BY <1>0, <1>2, <1>11, <1>14, <1>19 DEF Elsewhere, SweepTypes
  <1>21. TxOK(t, lent, owing2)'
    BY <1>4, <1>5, <1>7, <1>10, <1>13, <1>16, <1>19 DEF TxOK
  <1>22. WorkOK(w, lent, owing2)'
    <2>1. Making(l, r, c, balance', lent)
      BY <1>5, <1>7, <1>10, <1>13 DEF Making
    <2> QED
      BY <1>4, <1>5, <1>7, <1>15, <1>16, <2>1 DEF WorkOK, Sending, Checking
  <1>23. Lag(t, txs'[t], chain'[t], lent, owing2) = Lag(t, txs[t], chain[t], lent, owing)
    BY <1>5, <1>13, <1>16 DEF Lag
  <1> QED
    BY <1>0, <1>1, <1>16, <1>18, <1>19, <1>20, <1>21, <1>22, <1>23, QuietWorker

-----------------------------------------------------------------------------
(* Sweeps: steps about a transaction that there is *)

\* A balance, the chain and what a transaction lags behind move together.
LEMMA BooksStep ==
    ASSUME BalancesOK, SweepTypes, SweepTypes', BalancesOK',
           NEW lent, NEW owing, NEW lent2, NEW owing2, Adds(balance, funds, Lags(lent, owing)),
           NEW t \in TxIds, Elsewhere(t, lent, owing, lent2, owing2),
           \A i \in Keys, k \in Tickers :
               Amount(balance', i, k) + Lag(t, txs'[t], chain'[t], lent2, owing2)[i][k] - funds'[i][k]
                 = Amount(balance, i, k) + Lag(t, txs[t], chain[t], lent, owing)[i][k] - funds[i][k]
    PROVE  Adds(balance, funds, Lags(lent2, owing2))'
  <1>1. PICK g \in LagTypes : g = Lags(lent, owing)
    BY LagsType
  <1>2. PICK g2 \in LagTypes : g2 = Lags(lent2, owing2)'
    <2>1. Lags(lent2, owing2)' \in LagTypes
      <3>1. ASSUME NEW u \in TxIds PROVE Lag(u, txs'[u], chain'[u], lent2, owing2) \in [Keys -> [Tickers -> Int]]
        <4>1. txs'[u].amount \in Int /\ chain'[u].fee \in Nat
          BY DEF SweepTypes, TxRecord, ChainRecord
        <4> QED
          BY <4>1, LagType
      <3> QED
        BY <3>1 DEF Lags, LagTypes
    <2> QED
      BY <2>1
  <1>3. /\ g[t] = Lag(t, txs[t], chain[t], lent, owing) /\ g2[t] = Lag(t, txs'[t], chain'[t], lent2, owing2)
        /\ \A u \in TxIds : u # t => g2[u] = g[u]
    <2>1. ASSUME NEW u \in TxIds, u # t
          PROVE  Lag(u, txs'[u], chain'[u], lent2, owing2) = Lag(u, txs[u], chain[u], lent, owing)
      BY <2>1 DEF Elsewhere, Lag
    <2> QED
      BY <1>1, <1>2, <2>1 DEF Lags
  <1>4. BooksOf(balance, funds) /\ BooksOf(balance', funds')
    BY DEF BooksOf, BalancesOK
  <1>5. \A i \in Keys, k \in Tickers :
          Amount(balance', i, k) + g2[t][i][k] - funds'[i][k] = Amount(balance, i, k) + g[t][i][k] - funds[i][k]
    BY <1>3
  <1>6. Adds(balance, funds, g)
    BY <1>1
  <1>7. Adds(balance', funds', g2)
    BY <1>3, <1>4, <1>5, <1>6, AddsStep
  <1> QED
    BY <1>2, <1>7 DEF Adds, Amount, HasBalance

LEMMA Maker ==
    ASSUME SweepTypes, NEW lent, NEW owing, Booked(lent, owing), NEW w \in Workers,
           work[w].pc \in Sending, work[w].pc = "undoNonce" => work[w].tx # 0
    PROVE  /\ work[w].tx \in TxIds /\ work[w].tx # 0 /\ TxOK(work[w].tx, lent, owing)
           /\ txs[work[w].tx] \in TxRecord /\ chain[work[w].tx] \in ChainRecord /\ work[w] \in WorkRecord
           /\ Making(work[w], txs[work[w].tx], chain[work[w].tx], balance, lent)
           /\ work[w].from \in Keys /\ work[w].to \in Keys
  <1>1. work[w] \in WorkRecord /\ WorkOK(w, lent, owing)
    BY DEF SweepTypes, Booked, TxsOK
  <1>2. work[w].tx \in TxIds /\ work[w].tx # 0
    BY <1>1 DEF WorkRecord, WorkOK
  <1> QED
    BY <1>1, <1>2 DEF SweepTypes, Booked, TxsOK, WorkOK

LEMMA Follower ==
    ASSUME SweepTypes, NEW lent, NEW owing, Booked(lent, owing), NEW w \in Workers,
           work[w].pc \in Checking \cup {"setHash"}
    PROVE  /\ work[w].tx \in TxIds /\ work[w].tx # 0 /\ TxOK(work[w].tx, lent, owing)
           /\ txs[work[w].tx] \in TxRecord /\ chain[work[w].tx] \in ChainRecord /\ work[w] \in WorkRecord
           /\ Following(work[w], txs[work[w].tx], chain[work[w].tx], balance, lent, owing)
  <1>1. work[w] \in WorkRecord /\ WorkOK(w, lent, owing)
    BY DEF SweepTypes, Booked, TxsOK
  <1>2. work[w].tx # 0
    BY <1>1 DEF WorkOK
  <1>3. work[w].tx \in TxIds
    BY <1>1, <1>2 DEF WorkRecord
  <1> QED
    BY <1>1, <1>2, <1>3 DEF SweepTypes, Booked, TxsOK, WorkOK

\* A goroutine goes on, and keeps its variables.
Resumes(w, l, p, m) ==
    /\ Onwards(w, l, work[w].tx) /\ work'[w] = l /\ work' \in [Workers -> WorkRecord]
    /\ l.pc = p /\ l.moved = m /\ l.tx = work[w].tx /\ l.from = work[w].from /\ l.to = work[w].to
    /\ l.ticker = work[w].ticker /\ l.amount = work[w].amount

LEMMA GotoPc ==
    ASSUME SweepTypes, OneEach, NEW w \in Workers, NEW p, p \in Pcs, Goto(w, p)
    PROVE  \E l : Resumes(w, l, p, work[w].moved)
  <1>1. PICK l : l = [work[w] EXCEPT !.pc = p]
    OBVIOUS
  <1>2. work[w] \in WorkRecord
    BY DEF SweepTypes
  <1>3. /\ l \in WorkRecord /\ l.pc = p /\ l.moved = work[w].moved /\ l.from = work[w].from
        /\ l.to = work[w].to /\ l.ticker = work[w].ticker /\ l.amount = work[w].amount
        /\ l.tx = work[w].tx
    BY <1>1, <1>2 DEF WorkRecord
  <1>4. work' = [work EXCEPT ![w] = l]
    BY <1>1 DEF Goto, SweepTypes
  <1> QED
    BY <1>3, <1>4, OwnTransaction, WorkerIs DEF Resumes

LEMMA GotoMoved ==
    ASSUME SweepTypes, OneEach, NEW w \in Workers,
           work' = [work EXCEPT ![w].pc = "broadcast", ![w].moved = TRUE]
    PROVE  \E l : Resumes(w, l, "broadcast", TRUE)
  <1>1. PICK l : l = [work[w] EXCEPT !.pc = "broadcast", !.moved = TRUE]
    OBVIOUS
  <1>2. work[w] \in WorkRecord
    BY DEF SweepTypes
  <1>3. /\ l \in WorkRecord /\ l.pc = "broadcast" /\ l.moved = TRUE /\ l.from = work[w].from
        /\ l.to = work[w].to /\ l.ticker = work[w].ticker /\ l.amount = work[w].amount
        /\ l.tx = work[w].tx
    BY <1>1, <1>2 DEF WorkRecord, Pcs, Sending
  <1>4. work' = [work EXCEPT ![w] = l]
    BY <1>1 DEF SweepTypes
  <1> QED
    BY <1>3, <1>4, OwnTransaction, WorkerIs DEF Resumes

LEMMA EndIs ==
    ASSUME SweepTypes, OneEach, NEW w \in Workers, End(w)
    PROVE  Onwards(w, Free, work[w].tx) /\ work'[w] = Free /\ work' \in [Workers -> WorkRecord]
  <1>1. work' = [work EXCEPT ![w] = Free]
    BY DEF End
  <1> QED
    BY <1>1, FreeIs, WorkerIs, OwnTransaction

-----------------------------------------------------------------------------
(* Sweeps: the steps of createInternalTransfer and of its rollback *)

\* Nothing but the goroutine and its transaction changes.
LEMMA SameElsewhere ==
    ASSUME NEW lent, NEW owing, UNCHANGED <<txs, chain>>, NEW t PROVE Elsewhere(t, lent, owing, lent, owing)
  BY DEF Elsewhere

LEMMA DecrementStep ==
    ASSUME SweepBooks, NEW w \in Workers, Decrement(w) PROVE SweepBooks'
  <1>0. BalancesOK /\ SweepTypes /\ OneEach
    BY DEF SweepBooks
  <1>1. PICK lent \in SUBSET TxIds, owing \in SUBSET TxIds : Booked(lent, owing)
    BY DEF SweepBooks
  <1>2. PICK t : t = work[w].tx
    OBVIOUS
  <1>3. work[w].pc = "decrement" /\ UNCHANGED <<todo, txs, counters, network>>
    BY DEF Decrement, Doing
  <1>4. /\ t \in TxIds /\ t # 0 /\ TxOK(t, lent, owing) /\ txs[t] \in TxRecord /\ chain[t] \in ChainRecord
        /\ work[w] \in WorkRecord /\ Making(work[w], txs[t], chain[t], balance, lent)
        /\ work[w].from \in Keys /\ work[w].to \in Keys
    BY <1>0, <1>1, <1>2, <1>3, Maker DEF Sending
  <1>5. /\ ~work[w].moved /\ t \notin lent /\ txs[t].status = "pending" /\ ~txs[t].hash
        /\ chain[t].state = "unsent" /\ chain[t].fee = 0 /\ txs[t].from = work[w].from
        /\ txs[t].ticker = work[w].ticker /\ txs[t].amount = work[w].amount
    BY <1>2, <1>3, <1>4 DEF Making, TxOK
  <1>6. CASE MayChange(work[w].from, work[w].ticker, -work[w].amount)
    <2>1. /\ HasBalance(balance, work[w].from, work[w].ticker)
          /\ balance' = UpdateBalanceByID(balance, work[w].from, work[w].ticker, -work[w].amount)
          /\ work' = [work EXCEPT ![w].pc = "broadcast", ![w].moved = TRUE]
      BY <1>6 DEF Decrement, MayChange
    <2>2. PICK e \in Keys, k \in Tickers, n \in Int :
            e = work[w].from /\ k = work[w].ticker /\ n = work[w].amount
      BY <1>4 DEF WorkRecord
    <2>3. Grows(balance, balance', e, k, -n)
      <3>1. balance \in [Entities -> TableRows] /\ e \in Entities /\ -n \in Int
        BY <1>0, <2>2 DEF BalancesOK, Entities
      <3> QED
        BY <2>1, <2>2, <3>1, UpdateFacts
    <2>4. PICK l : Resumes(w, l, "broadcast", TRUE)
      BY <1>0, <2>1, GotoMoved
    <2>5. SweepTypes' /\ BalancesOK' /\ Keeps(balance, balance')
      BY <1>0, <1>3, <2>3, <2>4 DEF SweepTypes, BalancesOK, Resumes, Grows, Keeps, counters, network
    <2>6. PICK lent2 \in SUBSET TxIds : lent2 = lent \cup {t}
      BY <1>4
    <2>7. Elsewhere(t, lent, owing, lent2, owing)
      BY <1>3, <2>6 DEF Elsewhere, network
    <2>8. TxOK(t, lent2, owing)'
      <3>1. t \in owing
        <4> SUFFICES ASSUME NEW v \in Workers, work[v].tx = t, work[v].pc = "failTx" PROVE FALSE
          BY <1>4, <1>5 DEF TxOK, Under
        <4> QED
          BY <1>0, <1>2, <1>3, <1>4 DEF OneEach
      <3> QED
        BY <1>3, <1>4, <1>5, <2>6, <3>1 DEF TxOK, network
    <2>9. WorkOK(w, lent2, owing)'
      <3>1. HasBalance(balance', e, k)
        <4>1. e \in Entities
          BY DEF Entities
        <4> QED
          BY <2>1, <2>2, <2>3, <4>1 DEF Grows
      <3>2. Making(l, txs[t], chain[t], balance', lent2)
        BY <1>2, <1>4, <1>5, <2>2, <2>4, <2>6, <3>1 DEF Making, Resumes
      <3> QED
        BY <1>2, <1>3, <1>4, <2>4, <3>2 DEF WorkOK, Resumes, Sending, Checking, network
    <2>10. Adds(balance, funds, Lags(lent2, owing))'
      <3>1. ASSUME NEW i \in Keys, NEW y \in Tickers
            PROVE  Amount(balance', i, y) + Lag(t, txs'[t], chain'[t], lent2, owing)[i][y] - funds'[i][y]
                     = Amount(balance, i, y) + Lag(t, txs[t], chain[t], lent, owing)[i][y] - funds[i][y]
        <4>1. i \in Entities
          BY DEF Entities
        <4>2. Amount(balance', i, y) = Amount(balance, i, y) + (IF i = e /\ y = k THEN -n ELSE 0)
          BY <2>3, <4>1 DEF Grows
        <4>3. Amount(balance, i, y) \in Int /\ funds[i][y] \in Int
          BY <1>0, <4>1, AmountType DEF BalancesOK
        <4>4. /\ Lag(t, txs'[t], chain'[t], lent2, owing)[i][y] = IF i = e /\ y = k THEN n ELSE 0
              /\ Lag(t, txs[t], chain[t], lent, owing)[i][y] = 0
          BY <1>3, <1>4, <1>5, <2>2, <2>6, LagIs DEF network
        <4> QED
          BY <1>3, <4>2, <4>3, <4>4 DEF network
      <3> QED
        BY <1>0, <1>1, <1>4, <2>5, <2>7, <3>1, BooksStep DEF Booked
    <2> QED
      BY <1>0, <1>1, <1>2, <2>4, <2>5, <2>6, <2>7, <2>8, <2>9, <2>10, WorkerStep DEF Resumes
  <1>7. CASE ~MayChange(work[w].from, work[w].ticker, -work[w].amount)
    <2>1. Goto(w, "undoNonce") /\ UNCHANGED balance
      BY <1>7 DEF Decrement
    <2>2. PICK l : Resumes(w, l, "undoNonce", work[w].moved)
      BY <1>0, <2>1, GotoPc DEF Pcs, Sending
    <2>3. SweepTypes'
      BY <1>0, <1>3, <2>2 DEF SweepTypes, Resumes, counters, network
    <2>4. TxOK(t, lent, owing)'
      <3>1. t \in owing
        <4> SUFFICES ASSUME NEW v \in Workers, work[v].tx = t, work[v].pc = "failTx" PROVE FALSE
          BY <1>4, <1>5 DEF TxOK, Under
        <4> QED
          BY <1>0, <1>2, <1>3, <1>4 DEF OneEach
      <3> QED
        BY <1>3, <1>4, <1>5, <2>1, <3>1 DEF TxOK, network
    <2>5. WorkOK(w, lent, owing)'
      <3>1. Making(l, txs[t], chain[t], balance', lent)
        BY <1>2, <1>4, <1>5, <2>2 DEF Making, Resumes
      <3> QED
        BY <1>2, <1>3, <1>4, <2>2, <3>1 DEF WorkOK, Resumes, Sending, Checking, network
    <2>6. Lag(t, txs'[t], chain'[t], lent, owing) = Lag(t, txs[t], chain[t], lent, owing)
      BY <1>3 DEF network
    <2> QED
      BY <1>0, <1>1, <1>2, <1>3, <2>1, <2>2, <2>3, <2>4, <2>5, <2>6, SameElsewhere, QuietWorker
         DEF Resumes, network
  <1> QED
    BY <1>6, <1>7

\* A goroutine goes on, and nothing else changes but counters.
LEMMA PassStep ==
    ASSUME BalancesOK, SweepTypes, OneEach, NEW lent \in SUBSET TxIds, NEW owing \in SUBSET TxIds,
           Booked(lent, owing), NEW w \in Workers, NEW l, Onwards(w, l, work[w].tx),
           work[w].pc \notin {"failTx", "restore", "undoBalance"},
           UNCHANGED <<balance, funds, txs, chain>>, SweepTypes', WorkOK(w, lent, owing)'
    PROVE  SweepBooks'
  <1>1. PICK t : t = work[w].tx
    OBVIOUS
  <1>2. \A v \in Workers : v # w => work'[v] = work[v]
    BY WorkerIs DEF Onwards
  <1>3. \A p \in {"failTx", "restore", "undoBalance"} : Under(t, p) => Under(t, p)'
    BY <1>2 DEF Under
  <1>4. t \in TxIds => TxOK(t, lent, owing)'
    <2>1. t \in TxIds => TxOK(t, lent, owing)
      BY DEF Booked, TxsOK
    <2> QED
      BY <1>3, <2>1 DEF TxOK
  <1>5. Elsewhere(t, lent, owing, lent, owing)
    BY SameElsewhere
  <1>6. Lag(t, txs'[t], chain'[t], lent, owing) = Lag(t, txs[t], chain[t], lent, owing)
    OBVIOUS
  <1> QED
    BY <1>1, <1>4, <1>5, <1>6, QuietWorker

LEMMA ErrorStep ==
    ASSUME SweepBooks, NEW w \in Workers, Error(w) PROVE SweepBooks'
  <1>0. BalancesOK /\ SweepTypes /\ OneEach
    BY DEF SweepBooks
  <1>1. PICK lent \in SUBSET TxIds, owing \in SUBSET TxIds : Booked(lent, owing)
    BY DEF SweepBooks
  <1>2. work[w].pc \in {"sign", "decrement"} /\ Goto(w, "undoNonce")
        /\ UNCHANGED <<balance, todo, txs, counters, network>>
    BY DEF Error, Doing
  <1>3. PICK l : Resumes(w, l, "undoNonce", work[w].moved)
    BY <1>0, <1>2, GotoPc DEF Pcs, Sending
  <1>4. SweepTypes'
    BY <1>0, <1>2, <1>3 DEF SweepTypes, Resumes, counters, network
  <1>5. WorkOK(w, lent, owing)
    BY <1>1 DEF Booked, TxsOK
  <1>6. WorkOK(w, lent, owing)'
    BY <1>2, <1>3, <1>5 DEF WorkOK, Making, Resumes, Sending, Checking, network
  <1> QED
    BY <1>0, <1>1, <1>2, <1>3, <1>4, <1>6, PassStep DEF Resumes, network

LEMMA UndoNonceStep ==
    ASSUME SweepBooks, NEW w \in Workers, UndoNonce(w) PROVE SweepBooks'
  <1>0. BalancesOK /\ SweepTypes /\ OneEach
    BY DEF SweepBooks
  <1>1. PICK lent \in SUBSET TxIds, owing \in SUBSET TxIds : Booked(lent, owing)
    BY DEF SweepBooks
  <1>2. /\ work[w].pc = "undoNonce" /\ UNCHANGED <<balance, todo, txs, confirmed, network>>
        /\ pending' = pending \/ pending' = [pending EXCEPT ![work[w].from] = @ - 1]
        /\ End(w) \/ (work[w].tx # 0 /\ Goto(w, "undoTx"))
    BY DEF UndoNonce, Doing
  <1>3. WorkOK(w, lent, owing)
    BY <1>1 DEF Booked, TxsOK
  <1>4. pending' \in [Keys -> Int]
    <2>1. work[w].from \in Keys
      BY <1>2, <1>3 DEF WorkOK, Sending
    <2>2. pending \in [Keys -> Int] /\ pending[work[w].from] - 1 \in Int
      BY <1>0, <2>1 DEF SweepTypes
    <2> QED
      BY <1>2, <2>1, <2>2
  <1>5. CASE End(w)
    <2>1. Onwards(w, Free, work[w].tx) /\ work'[w] = Free /\ work' \in [Workers -> WorkRecord]
      BY <1>0, <1>5, EndIs
    <2>2. SweepTypes'
      BY <1>0, <1>2, <1>4, <2>1 DEF SweepTypes, network
    <2>3. WorkOK(w, lent, owing)'
      BY <2>1 DEF Free, WorkOK, Sending, Checking
    <2> QED
      BY <1>0, <1>1, <1>2, <2>1, <2>2, <2>3, PassStep DEF network
  <1>6. CASE work[w].tx # 0 /\ Goto(w, "undoTx")
    <2>1. PICK l : Resumes(w, l, "undoTx", work[w].moved)
      BY <1>0, <1>6, GotoPc DEF Pcs, Sending
    <2>2. SweepTypes'
      BY <1>0, <1>2, <1>4, <2>1 DEF SweepTypes, Resumes, network
    <2>3. WorkOK(w, lent, owing)'
      BY <1>2, <1>3, <1>6, <2>1 DEF WorkOK, Making, Resumes, Sending, Checking, network
    <2> QED
      BY <1>0, <1>1, <1>2, <2>1, <2>2, <2>3, PassStep DEF Resumes, network
  <1> QED
    BY <1>2, <1>5, <1>6

LEMMA BroadcastStep ==
    ASSUME SweepBooks, NEW w \in Workers, Broadcast(w) PROVE SweepBooks'
  <1>0. BalancesOK /\ SweepTypes /\ OneEach
    BY DEF SweepBooks
  <1>1. PICK lent \in SUBSET TxIds, owing \in SUBSET TxIds : Booked(lent, owing)
    BY DEF SweepBooks
  <1>2. PICK t : t = work[w].tx
    OBVIOUS
  <1>3. /\ work[w].pc = "broadcast" /\ UNCHANGED <<balance, todo, txs, counters, funds>>
        /\ \/ chain' = [chain EXCEPT ![t].state = "pool"] /\ Goto(w, "setHash")
           \/ Goto(w, "undoNonce") /\ UNCHANGED chain
    BY <1>2 DEF Broadcast, Doing
  <1>4. /\ t \in TxIds /\ t # 0 /\ TxOK(t, lent, owing) /\ txs[t] \in TxRecord /\ chain[t] \in ChainRecord
        /\ work[w] \in WorkRecord /\ Making(work[w], txs[t], chain[t], balance, lent)
        /\ work[w].from \in Keys /\ work[w].to \in Keys
    BY <1>0, <1>1, <1>2, <1>3, Maker DEF Sending
  <1>5. CASE chain' = [chain EXCEPT ![t].state = "pool"] /\ Goto(w, "setHash")
    <2>1. PICK l : Resumes(w, l, "setHash", work[w].moved)
      BY <1>0, <1>5, GotoPc DEF Pcs
    <2>2. PICK c : c = [chain[t] EXCEPT !.state = "pool"]
      OBVIOUS
    <2>3. c \in ChainRecord /\ c.state = "pool" /\ c.fee = chain[t].fee
      BY <1>4, <2>2 DEF ChainRecord
    <2>4. chain' = [chain EXCEPT ![t] = c]
      BY <1>0, <1>5, <2>2 DEF SweepTypes
    <2>5. SweepTypes' /\ chain'[t] = c
      BY <1>0, <1>3, <1>4, <2>1, <2>3, <2>4 DEF SweepTypes, Resumes, counters
    <2>6. Elsewhere(t, lent, owing, lent, owing)
      BY <1>0, <1>3, <2>4 DEF Elsewhere, SweepTypes
    <2>7. /\ t \in lent /\ txs[t].status = "pending" /\ chain[t].fee = 0 /\ chain[t].state = "unsent"
          /\ HasBalance(balance, txs[t].from, txs[t].ticker)
      BY <1>2, <1>3, <1>4 DEF Making, TxOK
    <2>8. TxOK(t, lent, owing)'
      <3>1. \A v \in Workers : v # w => work'[v] = work[v]
        BY <1>0, <2>1, WorkerIs DEF Onwards, Resumes
      <3>2. Under(t, "failTx") => Under(t, "failTx")'
        BY <1>3, <3>1 DEF Under
      <3> QED
        BY <1>3, <1>4, <2>3, <2>5, <2>7, <3>2 DEF TxOK
    <2>9. WorkOK(w, lent, owing)'
      <3>1. Following(l, txs'[t], c, balance', lent, owing)
        BY <1>2, <1>3, <2>1, <2>7 DEF Following, Resumes
      <3> QED
        BY <1>2, <1>4, <2>1, <2>5, <3>1 DEF WorkOK, Resumes, Sending, Checking
    <2>10. Lag(t, txs'[t], chain'[t], lent, owing) = Lag(t, txs[t], chain[t], lent, owing)
      BY <1>3, <2>3, <2>5, <2>7 DEF Lag
    <2> QED
      BY <1>0, <1>1, <1>2, <1>3, <2>1, <2>5, <2>6, <2>8, <2>9, <2>10, QuietWorker DEF Resumes
  <1>6. CASE Goto(w, "undoNonce") /\ UNCHANGED chain
    <2>1. PICK l : Resumes(w, l, "undoNonce", work[w].moved)
      BY <1>0, <1>6, GotoPc DEF Pcs, Sending
    <2>2. SweepTypes'
      BY <1>0, <1>3, <1>6, <2>1 DEF SweepTypes, Resumes, counters
    <2>3. WorkOK(w, lent, owing)'
      <3>1. Making(l, txs[t], chain[t], balance, lent)
        BY <1>2, <1>3, <1>4, <2>1 DEF Making, Resumes
      <3> QED
        BY <1>2, <1>3, <1>4, <1>6, <2>1, <3>1 DEF WorkOK, Resumes, Sending, Checking
    <2> QED
      BY <1>0, <1>1, <1>3, <1>6, <2>1, <2>2, <2>3, PassStep DEF Resumes
  <1> QED
    BY <1>3, <1>5, <1>6

\* A row's status or hash changes, nothing of what is added up.
LEMMA RowIsChanged ==
    ASSUME SweepTypes, NEW t \in TxIds, NEW r \in TxRecord, txs' = [txs EXCEPT ![t] = r], UNCHANGED chain,
           NEW lent, NEW owing, NEW lent2, NEW owing2,
           \A u \in TxIds : u # t => (u \in lent2 <=> u \in lent) /\ (u \in owing2 <=> u \in owing)
    PROVE  txs' \in [TxIds -> TxRecord] /\ txs'[t] = r /\ Elsewhere(t, lent, owing, lent2, owing2)
  BY DEF SweepTypes, Elsewhere

LEMMA SetHashStep ==
    ASSUME SweepBooks, NEW w \in Workers, SetHash(w) PROVE SweepBooks'
  <1>0. BalancesOK /\ SweepTypes /\ OneEach
    BY DEF SweepBooks
  <1>1. PICK lent \in SUBSET TxIds, owing \in SUBSET TxIds : Booked(lent, owing)
    BY DEF SweepBooks
  <1>2. PICK t : t = work[w].tx
    OBVIOUS
  <1>3. /\ work[w].pc = "setHash" /\ UNCHANGED <<balance, todo, counters, network>>
        /\ txs' = [txs EXCEPT ![t].hash = TRUE] /\ End(w)
    BY <1>2 DEF SetHash, Doing
  <1>4. /\ t \in TxIds /\ t # 0 /\ TxOK(t, lent, owing) /\ txs[t] \in TxRecord /\ chain[t] \in ChainRecord
        /\ work[w] \in WorkRecord /\ Following(work[w], txs[t], chain[t], balance, lent, owing)
    BY <1>0, <1>1, <1>2, <1>3, Follower
  <1>5. Onwards(w, Free, t) /\ work'[w] = Free /\ work' \in [Workers -> WorkRecord]
    BY <1>0, <1>2, <1>3, EndIs
  <1>6. PICK r : r = [txs[t] EXCEPT !.hash = TRUE]
    OBVIOUS
  <1>7. /\ r \in TxRecord /\ r.hash /\ r.status = txs[t].status /\ r.from = txs[t].from /\ r.to = txs[t].to
        /\ r.ticker = txs[t].ticker /\ r.amount = txs[t].amount
    BY <1>4, <1>6 DEF TxRecord
  <1>8. txs' = [txs EXCEPT ![t] = r] /\ UNCHANGED <<chain, funds>>
    BY <1>0, <1>3, <1>6 DEF SweepTypes, network
  <1>9. txs' \in [TxIds -> TxRecord] /\ txs'[t] = r /\ Elsewhere(t, lent, owing, lent, owing)
    BY <1>0, <1>4, <1>7, <1>8, RowIsChanged
  <1>10. SweepTypes'
    BY <1>0, <1>3, <1>5, <1>8, <1>9 DEF SweepTypes, counters
  <1>11. TxOK(t, lent, owing)'
    <2>1. \A v \in Workers : v # w => work'[v] = work[v]
      BY <1>0, <1>5, WorkerIs DEF Onwards
    <2>2. Under(t, "failTx") => Under(t, "failTx")'
      BY <1>3, <2>1 DEF Under
    <2>3. txs[t].status = "pending" /\ t \in lent /\ HasBalance(balance, txs[t].from, txs[t].ticker)
      BY <1>2, <1>3, <1>4 DEF Following
    <2> QED
      BY <1>3, <1>4, <1>7, <1>8, <1>9, <2>2, <2>3 DEF TxOK
  <1>12. WorkOK(w, lent, owing)'
    BY <1>5 DEF Free, WorkOK, Sending, Checking
  <1>13. Lag(t, txs'[t], chain'[t], lent, owing) = Lag(t, txs[t], chain[t], lent, owing)
    BY <1>7, <1>8, <1>9 DEF Lag
  <1> QED
    BY <1>0, <1>1, <1>3, <1>5, <1>8, <1>9, <1>10, <1>11, <1>12, <1>13, QuietWorker

LEMMA UndoTxStep ==
    ASSUME SweepBooks, NEW w \in Workers, UndoTx(w) PROVE SweepBooks'
  <1>0. BalancesOK /\ SweepTypes /\ OneEach
    BY DEF SweepBooks
  <1>1. PICK lent \in SUBSET TxIds, owing \in SUBSET TxIds : Booked(lent, owing)
    BY DEF SweepBooks
  <1>2. PICK t : t = work[w].tx
    OBVIOUS
  <1>3. /\ work[w].pc = "undoTx" /\ UNCHANGED <<balance, todo, counters, network>>
        /\ txs' = [txs EXCEPT ![t].status = "canceled"] /\ Goto(w, "undoBalance")
    BY <1>2 DEF UndoTx, Doing, CancelTransaction
  <1>4. /\ t \in TxIds /\ t # 0 /\ TxOK(t, lent, owing) /\ txs[t] \in TxRecord /\ chain[t] \in ChainRecord
        /\ work[w] \in WorkRecord /\ Making(work[w], txs[t], chain[t], balance, lent)
        /\ work[w].from \in Keys /\ work[w].to \in Keys
    BY <1>0, <1>1, <1>2, <1>3, Maker DEF Sending
  <1>5. PICK l : Resumes(w, l, "undoBalance", work[w].moved)
    BY <1>0, <1>3, GotoPc DEF Pcs, Sending
  <1>6. PICK r : r = [txs[t] EXCEPT !.status = "canceled"]
    OBVIOUS
  <1>7. /\ r \in TxRecord /\ r.status = "canceled" /\ r.from = txs[t].from /\ r.to = txs[t].to
        /\ r.ticker = txs[t].ticker /\ r.amount = txs[t].amount
    BY <1>4, <1>6 DEF TxRecord
  <1>8. txs' = [txs EXCEPT ![t] = r] /\ UNCHANGED <<chain, funds>>
    BY <1>0, <1>3, <1>6 DEF SweepTypes, network
  <1>9. PICK owing2 \in SUBSET TxIds : owing2 = owing \ {t}
    OBVIOUS
  <1>10. txs' \in [TxIds -> TxRecord] /\ txs'[t] = r /\ Elsewhere(t, lent, owing, lent, owing2)
    BY <1>0, <1>4, <1>7, <1>8, <1>9, RowIsChanged, ZenonT(40)
  <1>11. SweepTypes'
    BY <1>0, <1>3, <1>5, <1>8, <1>10 DEF SweepTypes, Resumes, counters
  <1>12. chain[t].state = "unsent" /\ chain[t].fee = 0 /\ txs[t].status = "pending"
    BY <1>3, <1>4 DEF Making, TxOK
  <1>13. TxOK(t, lent, owing2)'
    <2>1. Under(t, "undoBalance")'
      BY <1>2, <1>5 DEF Under, Resumes
    <2> QED
      BY <1>3, <1>4, <1>7, <1>8, <1>9, <1>10, <1>12, <2>1 DEF TxOK
  <1>14. WorkOK(w, lent, owing2)'
    <2>1. Making(l, r, chain[t], balance, lent)
      BY <1>2, <1>3, <1>4, <1>5, <1>7 DEF Making, Resumes
    <2> QED
      BY <1>2, <1>3, <1>4, <1>5, <1>8, <1>10, <2>1 DEF WorkOK, Resumes, Sending, Checking
  <1>15. Lag(t, txs'[t], chain'[t], lent, owing2) = Lag(t, txs[t], chain[t], lent, owing)
    BY <1>7, <1>8, <1>9, <1>10, <1>12 DEF Lag
  <1> QED
    BY <1>0, <1>1, <1>2, <1>3, <1>5, <1>8, <1>10, <1>11, <1>13, <1>14, <1>15, QuietWorker DEF Resumes

LEMMA UndoBalanceStep ==
    ASSUME SweepBooks, NEW w \in Workers, UndoBalance(w) PROVE SweepBooks'
  <1>0. BalancesOK /\ SweepTypes /\ OneEach
    BY DEF SweepBooks
  <1>1. PICK lent \in SUBSET TxIds, owing \in SUBSET TxIds : Booked(lent, owing)
    BY DEF SweepBooks
  <1>2. PICK t : t = work[w].tx
    OBVIOUS
  <1>3. /\ work[w].pc = "undoBalance" /\ UNCHANGED <<todo, txs, counters, network>> /\ End(w)
        /\ balance' = IF work[w].moved THEN UpdateBalanceByID(balance, work[w].from, work[w].ticker, work[w].amount)
                      ELSE balance
    BY DEF UndoBalance, Doing
  <1>4. /\ t \in TxIds /\ t # 0 /\ TxOK(t, lent, owing) /\ txs[t] \in TxRecord /\ chain[t] \in ChainRecord
        /\ work[w] \in WorkRecord /\ Making(work[w], txs[t], chain[t], balance, lent)
        /\ work[w].from \in Keys /\ work[w].to \in Keys
    BY <1>0, <1>1, <1>2, <1>3, Maker DEF Sending
  <1>5. Onwards(w, Free, t) /\ work'[w] = Free /\ work' \in [Workers -> WorkRecord]
    BY <1>0, <1>2, <1>3, EndIs
  <1>6. /\ txs[t].status = "canceled" /\ chain[t].state = "unsent" /\ chain[t].fee = 0
        /\ txs[t].from = work[w].from /\ txs[t].ticker = work[w].ticker /\ txs[t].amount = work[w].amount
        /\ work[w].moved <=> t \in lent
        /\ work[w].moved => HasBalance(balance, work[w].from, work[w].ticker)
        /\ t \notin owing
    BY <1>2, <1>3, <1>4 DEF Making, TxOK
  <1>7. PICK e \in Keys, k \in Tickers, n \in Int :
          e = work[w].from /\ k = work[w].ticker /\ n = work[w].amount
    BY <1>4 DEF WorkRecord
  <1>8. PICK d \in Int : d = IF t \in lent THEN n ELSE 0
    OBVIOUS
  <1>9. Grows(balance, balance', e, k, d)
    <2>1. balance \in [Entities -> TableRows] /\ e \in Entities
      BY <1>0 DEF BalancesOK, Entities
    <2>2. CASE t \in lent
      BY <1>3, <1>6, <1>7, <1>8, <2>1, <2>2, UpdateFacts
    <2>3. CASE t \notin lent
      <3>1. balance' = balance /\ d = 0
        BY <1>3, <1>6, <1>8, <2>3
      <3> QED
        BY <2>1, <3>1, AmountType DEF Grows
    <2> QED
      BY <2>2, <2>3
  <1>10. SweepTypes' /\ BalancesOK' /\ Keeps(balance, balance') /\ UNCHANGED <<txs, chain, funds>>
    BY <1>0, <1>3, <1>5, <1>9 DEF SweepTypes, BalancesOK, Grows, Keeps, counters, network
  <1>11. PICK lent2 \in SUBSET TxIds : lent2 = lent \ {t}
    OBVIOUS
  <1>12. Elsewhere(t, lent, owing, lent2, owing)
    BY <1>10, <1>11 DEF Elsewhere
  <1>13. TxOK(t, lent2, owing)'
    BY <1>4, <1>6, <1>10, <1>11 DEF TxOK
  <1>14. WorkOK(w, lent2, owing)'
    BY <1>5 DEF Free, WorkOK, Sending, Checking
  <1>15. Adds(balance, funds, Lags(lent2, owing))'
    <2>1. ASSUME NEW i \in Keys, NEW y \in Tickers
          PROVE  Amount(balance', i, y) + Lag(t, txs'[t], chain'[t], lent2, owing)[i][y] - funds'[i][y]
                   = Amount(balance, i, y) + Lag(t, txs[t], chain[t], lent, owing)[i][y] - funds[i][y]
      <3>1. i \in Entities
        BY DEF Entities
      <3>2. Amount(balance', i, y) = Amount(balance, i, y) + (IF i = e /\ y = k THEN d ELSE 0)
        BY <1>9, <3>1 DEF Grows
      <3>3. Amount(balance, i, y) \in Int /\ funds[i][y] \in Int
        BY <1>0, <3>1, AmountType DEF BalancesOK
      <3>4. /\ Lag(t, txs[t], chain[t], lent, owing)[i][y] = IF i = e /\ y = k THEN d ELSE 0
            /\ Lag(t, txs'[t], chain'[t], lent2, owing)[i][y] = 0
        BY <1>6, <1>7, <1>8, <1>10, <1>11, LagIs
      <3> QED
        BY <1>10, <3>2, <3>3, <3>4
    <2> QED
      BY <1>0, <1>1, <1>4, <1>10, <1>12, <2>1, BooksStep DEF Booked
  <1> QED
    BY <1>0, <1>1, <1>5, <1>10, <1>11, <1>12, <1>13, <1>14, <1>15, WorkerStep

-----------------------------------------------------------------------------
(* Sweeps: checkInternalTransaction *)

LEMMA StartCheckStep ==
    ASSUME SweepBooks, NEW w \in Workers, NEW t \in TxIds, StartCheck(w, t) PROVE SweepBooks'
  <1>0. BalancesOK /\ SweepTypes /\ OneEach
    BY DEF SweepBooks
  <1>1. PICK lent \in SUBSET TxIds, owing \in SUBSET TxIds : Booked(lent, owing)
    BY DEF SweepBooks
  <1>2. PICK p : p = IF chain[t].state = "success" THEN "confirm" ELSE "cancel"
    OBVIOUS
  <1>3. /\ work[w] = Free /\ txs[t].status = "pending" /\ txs[t].hash
        /\ \A v \in Workers : work[v].tx # t
        /\ chain[t].state \in {"success", "reverted"}
        /\ work' = [work EXCEPT ![w] = [Free EXCEPT !.tx = t, !.pc = p]]
        /\ UNCHANGED <<balance, todo, txs, counters, network>>
    BY <1>2 DEF StartCheck, ListByFilter, GetTransactionsByFilter, getByID
  <1>4. PICK l : l = [Free EXCEPT !.tx = t, !.pc = p]
    OBVIOUS
  <1>5. l \in WorkRecord /\ l.pc = p /\ l.tx = t
    <2>1. p \in Pcs
      BY <1>2 DEF Pcs, Checking
    <2> QED
      BY <1>4, <2>1, FreeIs DEF WorkRecord
  <1>6. Onwards(w, l, t)
    BY <1>3, <1>4, <1>5, FreeIs DEF Onwards
  <1>7. work' \in [Workers -> WorkRecord] /\ work'[w] = l
    BY <1>0, <1>5, <1>6, WorkerIs DEF Onwards
  <1>8. SweepTypes'
    BY <1>0, <1>3, <1>7 DEF SweepTypes, counters, network
  <1>9. TxOK(t, lent, owing) /\ t # 0
    BY <1>1, NumbersAreFinite DEF Booked, TxsOK
  <1>10. t \in lent /\ t \in owing /\ HasBalance(balance, txs[t].from, txs[t].ticker)
    BY <1>3, <1>9 DEF TxOK, Under
  <1>11. TxOK(t, lent, owing)'
    BY <1>3, <1>9, <1>10 DEF TxOK, network
  <1>12. WorkOK(w, lent, owing)'
    <2>1. Following(l, txs[t], chain[t], balance, lent, owing)
      BY <1>2, <1>3, <1>5, <1>10 DEF Following
    <2> QED
      BY <1>2, <1>3, <1>5, <1>7, <1>9, <2>1 DEF WorkOK, Sending, Checking, network
  <1>13. /\ Lag(t, txs'[t], chain'[t], lent, owing) = Lag(t, txs[t], chain[t], lent, owing)
         /\ UNCHANGED <<balance, funds>> /\ Elsewhere(t, lent, owing, lent, owing)
    BY <1>3 DEF Elsewhere, network
  <1> QED
    BY <1>0, <1>1, <1>6, <1>8, <1>11, <1>12, <1>13, QuietWorker

LEMMA SettleNonceStep ==
    ASSUME SweepBooks, NEW w \in Workers, SettleNonce(w) PROVE SweepBooks'
  <1>0. BalancesOK /\ SweepTypes /\ OneEach
    BY DEF SweepBooks
  <1>1. PICK lent \in SUBSET TxIds, owing \in SUBSET TxIds : Booked(lent, owing)
    BY DEF SweepBooks
  <1>2. PICK t : t = work[w].tx
    OBVIOUS
  <1>3. work[w].pc \in {"confirm", "cancel"} /\ UNCHANGED <<balance, todo, txs, network>>
    BY DEF SettleNonce
  <1>4. /\ t \in TxIds /\ t # 0 /\ TxOK(t, lent, owing) /\ txs[t] \in TxRecord /\ chain[t] \in ChainRecord
        /\ work[w] \in WorkRecord /\ Following(work[w], txs[t], chain[t], balance, lent, owing)
    BY <1>0, <1>1, <1>2, <1>3, Follower DEF Checking
  <1>5. CASE End(w) /\ UNCHANGED counters
    <2>1. Onwards(w, Free, work[w].tx) /\ work'[w] = Free /\ work' \in [Workers -> WorkRecord]
      BY <1>0, <1>5, EndIs
    <2>2. SweepTypes'
      BY <1>0, <1>3, <1>5, <2>1 DEF SweepTypes, counters, network
    <2>3. WorkOK(w, lent, owing)'
      BY <2>1 DEF Free, WorkOK, Sending, Checking
    <2> QED
      BY <1>0, <1>1, <1>3, <2>1, <2>2, <2>3, PassStep DEF network
  <1>6. CASE ~(End(w) /\ UNCHANGED counters)
    <2>0. PICK i : i = txs[t].from
      OBVIOUS
    <2>1. PICK p : p = IF work[w].pc = "confirm" THEN "settle" ELSE "chargeFee"
      OBVIOUS
    <2>2. /\ confirmed' = [confirmed EXCEPT ![i] = @ + 1] /\ pending' = [pending EXCEPT ![i] = @ - 1]
          /\ Goto(w, p)
      BY <1>2, <1>6, <2>0, <2>1 DEF SettleNonce, Doing
    <2>3. confirmed' \in [Keys -> Int] /\ pending' \in [Keys -> Int]
      <3>1. i \in Keys
        BY <1>3, <1>4, <2>0 DEF Following, TxOK
      <3>2. /\ confirmed \in [Keys -> Int] /\ pending \in [Keys -> Int]
            /\ confirmed[i] + 1 \in Int /\ pending[i] - 1 \in Int
        BY <1>0, <3>1 DEF SweepTypes
      <3> QED
        BY <2>2, <3>1, <3>2
    <2>4. PICK l : Resumes(w, l, p, work[w].moved)
      <3>1. p \in Pcs
        BY <2>1 DEF Pcs, Checking
      <3> QED
        BY <1>0, <2>2, <3>1, GotoPc
    <2>5. SweepTypes'
      BY <1>0, <1>3, <2>3, <2>4 DEF SweepTypes, Resumes, network
    <2>6. WorkOK(w, lent, owing)'
      <3>1. Following(l, txs[t], chain[t], balance, lent, owing)
        BY <1>2, <1>3, <1>4, <2>1, <2>4 DEF Following, Resumes
      <3> QED
        BY <1>2, <1>3, <1>4, <2>1, <2>4, <3>1 DEF WorkOK, Resumes, Sending, Checking, network
    <2> QED
      BY <1>0, <1>1, <1>3, <2>4, <2>5, <2>6, PassStep DEF Resumes, network
  <1> QED
    BY <1>5, <1>6

\* The check ends with nothing done.
LEMMA GivesUp ==
    ASSUME SweepBooks, NEW w \in Workers, work[w].pc \in {"settle", "chargeFee"}, End(w),
           UNCHANGED <<balance, todo, txs, counters, network>>
    PROVE  SweepBooks'
  <1>0. BalancesOK /\ SweepTypes /\ OneEach
    BY DEF SweepBooks
  <1>1. PICK lent \in SUBSET TxIds, owing \in SUBSET TxIds : Booked(lent, owing)
    BY DEF SweepBooks
  <1>2. Onwards(w, Free, work[w].tx) /\ work'[w] = Free /\ work' \in [Workers -> WorkRecord]
    BY <1>0, EndIs
  <1>3. SweepTypes'
    BY <1>0, <1>2 DEF SweepTypes, counters, network
  <1>4. WorkOK(w, lent, owing)'
    BY <1>2 DEF Free, WorkOK, Sending, Checking
  <1> QED
    BY <1>0, <1>1, <1>2, <1>3, <1>4, PassStep DEF network

LEMMA ConfirmStep ==
    ASSUME SweepBooks, NEW w \in Workers, ConfirmTx(w) PROVE SweepBooks'
  <1>0. BalancesOK /\ SweepTypes /\ OneEach
    BY DEF SweepBooks
  <1>1. PICK lent \in SUBSET TxIds, owing \in SUBSET TxIds : Booked(lent, owing)
    BY DEF SweepBooks
  <1>2. PICK t : t = work[w].tx
    OBVIOUS
  <1>3. work[w].pc = "settle" /\ End(w) /\ UNCHANGED <<todo, counters, network>>
    BY DEF ConfirmTx, Doing
  <1>4. /\ t \in TxIds /\ t # 0 /\ TxOK(t, lent, owing) /\ txs[t] \in TxRecord /\ chain[t] \in ChainRecord
        /\ work[w] \in WorkRecord /\ Following(work[w], txs[t], chain[t], balance, lent, owing)
    BY <1>0, <1>1, <1>2, <1>3, Follower DEF Checking
  <1>5. CASE UNCHANGED <<balance, txs>>
    BY <1>3, <1>5, GivesUp
  <1>6. CASE ~UNCHANGED <<balance, txs>>
    <2>1. /\ balance' = UpdateBalance(Credited(t), txs[t].from, Coin, -chain[t].fee)
          /\ txs' = [txs EXCEPT ![t].status = "completed"]
      BY <1>2, <1>6 DEF ConfirmTx, UpdateTransaction
    <2>2. t \in lent /\ t \in owing /\ chain[t].state = "success" /\ txs[t].status = "pending"
      BY <1>2, <1>3, <1>4 DEF Following
    <2>3. PICK from \in Keys, to \in Keys, k \in Tickers, n \in Int, fee \in Nat :
            /\ from = txs[t].from /\ to = txs[t].to /\ k = txs[t].ticker /\ n = txs[t].amount
            /\ fee = chain[t].fee
      BY <1>4, <2>2 DEF TxOK, TxRecord, ChainRecord
    <2>4. PICK b : b = UpdateBalance(balance, to, k, n)
      OBVIOUS
    <2>5. from \in Entities /\ to \in Entities /\ balance \in [Entities -> TableRows] /\ -fee \in Int
      BY <1>0 DEF Entities, BalancesOK
    <2>6. Grows(balance, b, to, k, n)
      BY <2>4, <2>5, UpdateFacts
    <2>7. Grows(b, balance', from, Coin, -fee)
      <3>1. balance' = UpdateBalance(b, from, Coin, -fee)
        BY <2>1, <2>3, <2>4 DEF Credited
      <3>2. b \in [Entities -> TableRows]
        BY <2>6 DEF Grows
      <3> QED
        BY <2>5, <3>1, <3>2, UpdateFacts
    <2>8. PICK r : r = [txs[t] EXCEPT !.status = "completed"]
      OBVIOUS
    <2>9. /\ r \in TxRecord /\ r.status = "completed" /\ r.from = txs[t].from /\ r.to = txs[t].to
          /\ r.ticker = txs[t].ticker /\ r.amount = txs[t].amount
      BY <1>4, <2>8 DEF TxRecord
    <2>10. txs' = [txs EXCEPT ![t] = r] /\ UNCHANGED <<chain, funds>>
      BY <1>0, <1>3, <2>1, <2>8 DEF SweepTypes, network
    <2>11. PICK lent2 \in SUBSET TxIds : lent2 = lent \ {t}
      OBVIOUS
    <2>12. PICK owing2 \in SUBSET TxIds : owing2 = owing \ {t}
      OBVIOUS
    <2>13. txs' \in [TxIds -> TxRecord] /\ txs'[t] = r /\ Elsewhere(t, lent, owing, lent2, owing2)
      BY <1>0, <1>4, <2>9, <2>10, <2>11, <2>12, RowIsChanged
    <2>14. Onwards(w, Free, t) /\ work'[w] = Free /\ work' \in [Workers -> WorkRecord]
      BY <1>0, <1>2, <1>3, EndIs
    <2>15. SweepTypes' /\ BalancesOK' /\ Keeps(balance, balance')
      BY <1>0, <1>3, <2>6, <2>7, <2>10, <2>13, <2>14 DEF SweepTypes, BalancesOK, Grows, Keeps, counters
    <2>16. TxOK(t, lent2, owing2)'
      BY <1>4, <2>2, <2>9, <2>10, <2>11, <2>12, <2>13 DEF TxOK
    <2>17. WorkOK(w, lent2, owing2)'
      BY <2>14 DEF Free, WorkOK, Sending, Checking
    <2>18. Adds(balance, funds, Lags(lent2, owing2))'
      <3>1. ASSUME NEW i \in Keys, NEW y \in Tickers
            PROVE  Amount(balance', i, y) + Lag(t, txs'[t], chain'[t], lent2, owing2)[i][y] - funds'[i][y]
                     = Amount(balance, i, y) + Lag(t, txs[t], chain[t], lent, owing)[i][y] - funds[i][y]
        <4>1. i \in Entities
          BY DEF Entities
        <4>2. Amount(b, i, y) = Amount(balance, i, y) + (IF i = to /\ y = k THEN n ELSE 0)
          BY <2>6, <4>1 DEF Grows
        <4>3. Amount(balance', i, y) = Amount(b, i, y) + (IF i = from /\ y = Coin THEN -fee ELSE 0)
          BY <2>7, <4>1 DEF Grows
        <4>4. Amount(balance, i, y) \in Int /\ funds[i][y] \in Int
          BY <1>0, <4>1, AmountType DEF BalancesOK
        <4>5. /\ Lag(t, txs[t], chain[t], lent, owing)[i][y]
                   = (IF i = to /\ y = k THEN n ELSE 0) - (IF i = from /\ y = Coin THEN fee ELSE 0)
              /\ Lag(t, txs'[t], chain'[t], lent2, owing2)[i][y] = 0
          BY <2>2, <2>3, <2>11, <2>12, LagIs
        <4> QED
          BY <2>10, <4>2, <4>3, <4>4, <4>5
      <3> QED
        BY <1>0, <1>1, <1>4, <2>13, <2>15, <3>1, BooksStep DEF Booked
    <2> QED
      BY <1>0, <1>1, <2>11, <2>12, <2>13, <2>14, <2>15, <2>16, <2>17, <2>18, WorkerStep
  <1> QED
    BY <1>5, <1>6

LEMMA ChargeFeeStep ==
    ASSUME SweepBooks, NEW w \in Workers, ChargeFee(w) PROVE SweepBooks'
  <1>0. BalancesOK /\ SweepTypes /\ OneEach
    BY DEF SweepBooks
  <1>1. PICK lent \in SUBSET TxIds, owing \in SUBSET TxIds : Booked(lent, owing)
    BY DEF SweepBooks
  <1>2. PICK t : t = work[w].tx
    OBVIOUS
  <1>3. work[w].pc = "chargeFee" /\ UNCHANGED <<todo, txs, counters, network>>
    BY DEF ChargeFee, Doing
  <1>4. /\ t \in TxIds /\ t # 0 /\ TxOK(t, lent, owing) /\ txs[t] \in TxRecord /\ chain[t] \in ChainRecord
        /\ work[w] \in WorkRecord /\ Following(work[w], txs[t], chain[t], balance, lent, owing)
    BY <1>0, <1>1, <1>2, <1>3, Follower DEF Checking
  <1>5. CASE End(w) /\ UNCHANGED balance
    BY <1>3, <1>5, GivesUp
  <1>6. CASE ~(End(w) /\ UNCHANGED balance)
    <2>1. balance' = UpdateBalance(balance, txs[t].from, Coin, -chain[t].fee) /\ Goto(w, "failTx")
      BY <1>2, <1>6 DEF ChargeFee
    <2>2. /\ t \in lent /\ t \in owing /\ chain[t].state = "reverted" /\ txs[t].status = "pending"
          /\ HasBalance(balance, txs[t].from, txs[t].ticker)
      BY <1>2, <1>3, <1>4 DEF Following
    <2>3. PICK from \in Keys, k \in Tickers, n \in Int, fee \in Nat :
            from = txs[t].from /\ k = txs[t].ticker /\ n = txs[t].amount /\ fee = chain[t].fee
      BY <1>4, <2>2 DEF TxOK, TxRecord, ChainRecord
    <2>4. from \in Entities /\ balance \in [Entities -> TableRows] /\ -fee \in Int
      BY <1>0 DEF Entities, BalancesOK
    <2>5. Grows(balance, balance', from, Coin, -fee)
      BY <2>1, <2>3, <2>4, UpdateFacts
    <2>6. PICK l : Resumes(w, l, "failTx", work[w].moved)
      BY <1>0, <2>1, GotoPc DEF Pcs, Checking
    <2>7. SweepTypes' /\ BalancesOK' /\ Keeps(balance, balance') /\ UNCHANGED <<txs, chain, funds>>
      BY <1>0, <1>3, <2>5, <2>6 DEF SweepTypes, BalancesOK, Resumes, Grows, Keeps, counters, network
    <2>8. PICK owing2 \in SUBSET TxIds : owing2 = owing \ {t}
      OBVIOUS
    <2>9. Elsewhere(t, lent, owing, lent, owing2)
      BY <2>7, <2>8 DEF Elsewhere
    <2>10. HasBalance(balance', from, k)
      BY <2>2, <2>3, <2>4, <2>5 DEF Grows
    <2>11. TxOK(t, lent, owing2)'
      <3>1. Under(t, "failTx")'
        BY <1>2, <2>6 DEF Under, Resumes
      <3> QED
        BY <1>4, <2>2, <2>3, <2>7, <2>8, <2>10, <3>1 DEF TxOK
    <2>12. WorkOK(w, lent, owing2)'
      <3>1. Following(l, txs[t], chain[t], balance', lent, owing2)
        BY <1>2, <2>2, <2>3, <2>6, <2>8, <2>10 DEF Following, Resumes
      <3> QED
        BY <1>2, <1>4, <2>6, <2>7, <3>1 DEF WorkOK, Resumes, Sending, Checking
    <2>13. Adds(balance, funds, Lags(lent, owing2))'
      <3>1. ASSUME NEW i \in Keys, NEW y \in Tickers
            PROVE  Amount(balance', i, y) + Lag(t, txs'[t], chain'[t], lent, owing2)[i][y] - funds'[i][y]
                     = Amount(balance, i, y) + Lag(t, txs[t], chain[t], lent, owing)[i][y] - funds[i][y]
        <4>1. i \in Entities
          BY DEF Entities
        <4>2. Amount(balance', i, y) = Amount(balance, i, y) + (IF i = from /\ y = Coin THEN -fee ELSE 0)
          BY <2>5, <4>1 DEF Grows
        <4>3. Amount(balance, i, y) \in Int /\ funds[i][y] \in Int
          BY <1>0, <4>1, AmountType DEF BalancesOK
        <4>4. /\ Lag(t, txs[t], chain[t], lent, owing)[i][y]
                   = (IF i = from /\ y = k THEN n ELSE 0) - (IF i = from /\ y = Coin THEN fee ELSE 0)
              /\ Lag(t, txs'[t], chain'[t], lent, owing2)[i][y] = (IF i = from /\ y = k THEN n ELSE 0)
          BY <2>2, <2>3, <2>7, <2>8, LagIs
        <4> QED
          BY <2>7, <4>2, <4>3, <4>4
      <3> QED
        BY <1>0, <1>1, <1>4, <2>7, <2>9, <3>1, BooksStep DEF Booked
    <2> QED
      BY <1>0, <1>1, <1>2, <2>6, <2>7, <2>8, <2>9, <2>11, <2>12, <2>13, WorkerStep DEF Resumes
  <1> QED
    BY <1>5, <1>6

LEMMA FailTxStep ==
    ASSUME SweepBooks, NEW w \in Workers, FailTx(w) PROVE SweepBooks'
  <1>0. BalancesOK /\ SweepTypes /\ OneEach
    BY DEF SweepBooks
  <1>1. PICK lent \in SUBSET TxIds, owing \in SUBSET TxIds : Booked(lent, owing)
    BY DEF SweepBooks
  <1>2. PICK t : t = work[w].tx
    OBVIOUS
  <1>3. /\ work[w].pc = "failTx" /\ UNCHANGED <<balance, todo, counters, network>>
        /\ txs' = [txs EXCEPT ![t].status = "failed"] /\ Goto(w, "restore")
    BY <1>2 DEF FailTx, Doing, CancelTransaction
  <1>4. /\ t \in TxIds /\ t # 0 /\ TxOK(t, lent, owing) /\ txs[t] \in TxRecord /\ chain[t] \in ChainRecord
        /\ work[w] \in WorkRecord /\ Following(work[w], txs[t], chain[t], balance, lent, owing)
    BY <1>0, <1>1, <1>2, <1>3, Follower DEF Checking
  <1>5. PICK l : Resumes(w, l, "restore", work[w].moved)
    BY <1>0, <1>3, GotoPc DEF Pcs, Checking
  <1>6. PICK r : r = [txs[t] EXCEPT !.status = "failed"]
    OBVIOUS
  <1>7. /\ r \in TxRecord /\ r.status = "failed" /\ r.from = txs[t].from /\ r.to = txs[t].to
        /\ r.ticker = txs[t].ticker /\ r.amount = txs[t].amount
    BY <1>4, <1>6 DEF TxRecord
  <1>8. txs' = [txs EXCEPT ![t] = r] /\ UNCHANGED <<chain, funds>>
    BY <1>0, <1>3, <1>6 DEF SweepTypes, network
  <1>9. txs' \in [TxIds -> TxRecord] /\ txs'[t] = r /\ Elsewhere(t, lent, owing, lent, owing)
    BY <1>0, <1>4, <1>7, <1>8, RowIsChanged
  <1>10. SweepTypes'
    BY <1>0, <1>3, <1>5, <1>8, <1>9 DEF SweepTypes, Resumes, counters
  <1>11. /\ t \in lent /\ t \notin owing /\ chain[t].state = "reverted" /\ txs[t].status = "pending"
         /\ HasBalance(balance, txs[t].from, txs[t].ticker)
    BY <1>2, <1>3, <1>4 DEF Following
  <1>12. TxOK(t, lent, owing)'
    <2>1. Under(t, "restore")'
      BY <1>2, <1>5 DEF Under, Resumes
    <2> QED
      BY <1>4, <1>7, <1>8, <1>9, <1>11, <2>1 DEF TxOK
  <1>13. WorkOK(w, lent, owing)'
    <2>1. Following(l, r, chain[t], balance, lent, owing)
      BY <1>2, <1>5, <1>7, <1>11 DEF Following, Resumes
    <2> QED
      BY <1>2, <1>3, <1>4, <1>5, <1>8, <1>9, <2>1 DEF WorkOK, Resumes, Sending, Checking
  <1>14. Lag(t, txs'[t], chain'[t], lent, owing) = Lag(t, txs[t], chain[t], lent, owing)
    BY <1>7, <1>8, <1>9 DEF Lag
  <1> QED
    BY <1>0, <1>1, <1>2, <1>3, <1>5, <1>8, <1>9, <1>10, <1>12, <1>13, <1>14, QuietWorker DEF Resumes

LEMMA RestoreStep ==
    ASSUME SweepBooks, NEW w \in Workers, Restore(w) PROVE SweepBooks'
  <1>0. BalancesOK /\ SweepTypes /\ OneEach
    BY DEF SweepBooks
  <1>1. PICK lent \in SUBSET TxIds, owing \in SUBSET TxIds : Booked(lent, owing)
    BY DEF SweepBooks
  <1>2. PICK t : t = work[w].tx
    OBVIOUS
  <1>3. /\ work[w].pc = "restore" /\ UNCHANGED <<todo, txs, counters, network>> /\ End(w)
        /\ balance' = UpdateBalanceByID(balance, txs[t].from, txs[t].ticker, txs[t].amount)
    BY <1>2 DEF Restore, Doing
  <1>4. /\ t \in TxIds /\ t # 0 /\ TxOK(t, lent, owing) /\ txs[t] \in TxRecord /\ chain[t] \in ChainRecord
        /\ work[w] \in WorkRecord /\ Following(work[w], txs[t], chain[t], balance, lent, owing)
    BY <1>0, <1>1, <1>2, <1>3, Follower DEF Checking
  <1>5. /\ t \in lent /\ t \notin owing /\ chain[t].state = "reverted" /\ txs[t].status = "failed"
        /\ HasBalance(balance, txs[t].from, txs[t].ticker)
    BY <1>2, <1>3, <1>4 DEF Following
  <1>6. PICK from \in Keys, k \in Tickers, n \in Int :
          from = txs[t].from /\ k = txs[t].ticker /\ n = txs[t].amount
    BY <1>4, <1>5 DEF TxOK, TxRecord
  <1>7. Grows(balance, balance', from, k, n)
    <2>1. from \in Entities /\ balance \in [Entities -> TableRows]
      BY <1>0 DEF Entities, BalancesOK
    <2> QED
      BY <1>3, <1>5, <1>6, <2>1, UpdateFacts
  <1>8. Onwards(w, Free, t) /\ work'[w] = Free /\ work' \in [Workers -> WorkRecord]
    BY <1>0, <1>2, <1>3, EndIs
  <1>9. SweepTypes' /\ BalancesOK' /\ Keeps(balance, balance') /\ UNCHANGED <<txs, chain, funds>>
    BY <1>0, <1>3, <1>7, <1>8 DEF SweepTypes, BalancesOK, Grows, Keeps, counters, network
  <1>10. PICK lent2 \in SUBSET TxIds : lent2 = lent \ {t}
    OBVIOUS
  <1>11. Elsewhere(t, lent, owing, lent2, owing)
    BY <1>9, <1>10 DEF Elsewhere
  <1>12. TxOK(t, lent2, owing)'
    BY <1>4, <1>5, <1>9, <1>10 DEF TxOK
  <1>13. WorkOK(w, lent2, owing)'
    BY <1>8 DEF Free, WorkOK, Sending, Checking
  <1>14. Adds(balance, funds, Lags(lent2, owing))'
    <2>1. ASSUME NEW i \in Keys, NEW y \in Tickers
          PROVE  Amount(balance', i, y) + Lag(t, txs'[t], chain'[t], lent2, owing)[i][y] - funds'[i][y]
                   = Amount(balance, i, y) + Lag(t, txs[t], chain[t], lent, owing)[i][y] - funds[i][y]
      <3>1. i \in Entities
        BY DEF Entities
      <3>2. Amount(balance', i, y) = Amount(balance, i, y) + (IF i = from /\ y = k THEN n ELSE 0)
        BY <1>7, <3>1 DEF Grows
      <3>3. Amount(balance, i, y) \in Int /\ funds[i][y] \in Int
        BY <1>0, <3>1, AmountType DEF BalancesOK
      <3>4. /\ Lag(t, txs[t], chain[t], lent, owing)[i][y] = IF i = from /\ y = k THEN n ELSE 0
            /\ Lag(t, txs'[t], chain'[t], lent2, owing)[i][y] = 0
        BY <1>5, <1>6, <1>9, <1>10, LagIs
      <3> QED
        BY <1>9, <3>2, <3>3, <3>4
    <2> QED
      BY <1>0, <1>1, <1>4, <1>9, <1>11, <2>1, BooksStep DEF Booked
  <1> QED
    BY <1>0, <1>1, <1>8, <1>9, <1>10, <1>11, <1>12, <1>13, <1>14, WorkerStep

-----------------------------------------------------------------------------
(* Sweeps: the steps that are about no transaction, and those of the chain *)

LEMMA BalanceStep ==
    ASSUME SweepBooks, SweepTypes', BalancesOK', UNCHANGED <<txs, chain, work>>, Keeps(balance, balance'),
           \A i \in Keys, k \in Tickers :
               Amount(balance', i, k) - funds'[i][k] = Amount(balance, i, k) - funds[i][k]
    PROVE  SweepBooks'
  <1>0. BalancesOK /\ SweepTypes /\ OneEach
    BY DEF SweepBooks
  <1>1. PICK lent \in SUBSET TxIds, owing \in SUBSET TxIds : Booked(lent, owing)
    BY DEF SweepBooks
  <1>2. Elsewhere(0, lent, owing, lent, owing) /\ 0 \notin TxIds
    BY SameElsewhere, NumbersAreFinite
  <1>3. ASSUME NEW u \in TxIds PROVE TxOK(u, lent, owing)'
    <2>1. TxOK(u, lent, owing) /\ u # 0 /\ \A v \in Workers : work[v].tx = u => work'[v] = work[v]
      BY <1>1, <1>2 DEF Booked, TxsOK
    <2> QED
      BY <1>0, <1>2, <2>1, TxStays
  <1>4. ASSUME NEW v \in Workers PROVE WorkOK(v, lent, owing)'
    <2>1. WorkOK(v, lent, owing) /\ work'[v] = work[v] /\ (work[v].tx = 0 \/ work[v].tx # 0)
      BY <1>1 DEF Booked, TxsOK
    <2> QED
      BY <1>0, <1>2, <2>1, WorkStays
  <1>5. OneEach'
    BY <1>0 DEF OneEach
  <1>6. Adds(balance, funds, Lags(lent, owing))'
    <2>1. PICK g \in LagTypes : g = Lags(lent, owing)
      BY <1>0, LagsType
    <2>2. BooksOf(balance, funds) /\ BooksOf(balance', funds') /\ Adds(balance, funds, g)
      BY <1>0, <1>1, <2>1 DEF BooksOf, BalancesOK, Booked
    <2>3. Adds(balance', funds', g)
      BY <2>2, AddsSame
    <2>4. g = Lags(lent, owing)'
      BY <2>1 DEF Lags
    <2> QED
      BY <2>3, <2>4 DEF Adds, Amount, HasBalance
  <1> QED
    BY <1>3, <1>4, <1>5, <1>6 DEF SweepBooks, Booked, TxsOK

LEMMA MatchStep ==
    ASSUME SweepInv, NEW j \in Processes, Match(j) PROVE ListingInv' /\ ListedOK' /\ SweepBooks'
  <1>0. BalancesOK /\ SweepTypes /\ SweepBooks /\ ListingInv /\ ListedOK
    BY DEF SweepInv, SweepBooks
  <1>1. ListingInv' /\ ListedOK'
    BY <1>0, RestStep DEF Match
  <1>2. PICK min \in Minimums :
          /\ todo' \subseteq todo \cup Worth(ToSet(proc[j].listed), min) /\ proc[j].pc = "match"
          /\ UNCHANGED <<balance, txs, counters, work, network>>
    BY DEF Match, In
  <1>3. Worth(ToSet(proc[j].listed), min) \subseteq [from: Keys, ticker: Tickers, seen: Int]
    <2>1. ToSet(proc[j].listed) \subseteq Keys
      <3>1. PICK s : s = proc[j].listed
        OBVIOUS
      <3>2. s \in Seq(Nat) /\ Elements(s) \subseteq Keys
        BY <1>0, <1>2, <3>1 DEF ListingInv, Listing, Through, Sorted, ListedOK
      <3> QED
        BY <3>1, <3>2 DEF ToSet, Elements
    <2>2. ASSUME NEW i \in Keys PROVE ListBalances(i) \subseteq [from: Keys, ticker: Tickers, seen: Int]
      <3>1. PICK r \in TableRows : r = balance[i]
        BY <1>0 DEF BalancesOK, Entities
      <3>2. DOMAIN r \subseteq Tickers /\ \A k \in DOMAIN r : r[k] \in Int
        BY RowFacts
      <3> QED
        BY <3>1, <3>2 DEF ListBalances
    <2>3. \A b \in Worth(ToSet(proc[j].listed), min) : \E i \in Keys : b \in ListBalances(i)
      BY <2>1 DEF Worth
    <2> QED
      BY <2>2, <2>3
  <1>4. SweepTypes' /\ BalancesOK' /\ UNCHANGED <<balance, funds, txs, chain, work>> /\ Keeps(balance, balance')
    BY <1>0, <1>2, <1>3 DEF SweepTypes, BalancesOK, Keeps, counters, network
  <1>5. SweepBooks'
    BY <1>0, <1>4, BalanceStep
  <1> QED
    BY <1>1, <1>5

LEMMA WalletsStep ==
    ASSUME SweepInv, WalletsNext, EnsureBalances, UNCHANGED <<todo, txs, counters, work, network>>
    PROVE  ListingInv' /\ ListedOK' /\ SweepBooks'
  <1>0. BalancesOK /\ SweepTypes /\ SweepBooks /\ ListingInv /\ ListedOK
    BY DEF SweepInv, SweepBooks
  <1>1. ListingInv' /\ ListedOK'
    BY <1>0, ListedStep, ListingNextInv
  <1>2. balance \in [Entities -> TableRows]
    BY <1>0 DEF BalancesOK
  <1>3. /\ balance' = [e \in Entities |-> balance'[e]]
        /\ \A e \in Entities : balance'[e] \in {balance[e], EnsureBalance(balance[e])}
    BY DEF EnsureBalances
  <1>4. PICK b2 : b2 = balance'
    OBVIOUS
  <1>5. \A e, k : Grows(balance, b2, e, k, 0)
    BY <1>2, <1>3, <1>4, EnsureFacts
  <1>6. Grows(balance, balance', 0, Coin, 0)
    BY <1>4, <1>5
  <1>7. \A i \in Keys, k \in Tickers : Amount(balance', i, k) = Amount(balance, i, k)
    <2> SUFFICES ASSUME NEW i \in Keys, NEW k \in Tickers PROVE Amount(balance', i, k) = Amount(balance, i, k)
      OBVIOUS
    <2>1. i \in Entities /\ Amount(balance, i, k) \in Int
      BY <1>2, AmountType DEF Entities
    <2> QED
      BY <1>6, <2>1 DEF Grows
  <1>8. SweepTypes' /\ BalancesOK' /\ UNCHANGED <<funds, txs, chain, work>> /\ Keeps(balance, balance')
    BY <1>0, <1>6 DEF SweepTypes, BalancesOK, Grows, Keeps, counters, network
  <1>9. SweepBooks'
    BY <1>0, <1>7, <1>8, BalanceStep
  <1> QED
    BY <1>1, <1>9

LEMMA ListedStays == ASSUME ListingInv, ListedOK, UNCHANGED <<walletVars, proc>> PROVE ListingInv' /\ ListedOK'
  <1>1. ListingInv'
    BY ListingNextInv
  <1> QED
    BY <1>1 DEF ListedOK

LEMMA PayStep ==
    ASSUME SweepBooks, NEW i \in Keys, NEW k \in DOMAIN Arrives, Pay(i, k) PROVE SweepBooks'
  <1>0. BalancesOK /\ SweepTypes
    BY DEF SweepBooks
  <1>1. /\ balance' = UpdateBalance(UpdateBalance(balance, i, k, Arrives[k]), Merchant, k, Shares[k])
        /\ funds' = [funds EXCEPT ![i][k] = @ + Arrives[k]]
        /\ UNCHANGED <<todo, txs, counters, work, chain>>
    BY DEF Pay
  <1>2. PICK n \in Int, m \in Int : n = Arrives[k] /\ m = Shares[k]
    OBVIOUS
  <1>3. k \in Tickers /\ i \in Entities /\ Merchant \in Entities /\ balance \in [Entities -> TableRows]
    BY <1>0 DEF Entities, BalancesOK
  <1>4. PICK b : b = UpdateBalance(balance, i, k, n)
    OBVIOUS
  <1>5. Grows(balance, b, i, k, n)
    BY <1>3, <1>4, UpdateFacts
  <1>6. Grows(b, balance', Merchant, k, m)
    <2>1. b \in [Entities -> TableRows]
      BY <1>5 DEF Grows
    <2> QED
      BY <1>1, <1>2, <1>3, <1>4, <2>1, UpdateFacts
  <1>7. /\ funds' \in [Keys -> [Tickers -> Int]]
        /\ \A x \in Keys, y \in Tickers : funds'[x][y] = funds[x][y] + (IF x = i /\ y = k THEN n ELSE 0)
    <2>1. funds \in [Keys -> [Tickers -> Int]]
      BY <1>0 DEF BalancesOK
    <2>2. PICK f : f = [funds[i] EXCEPT ![k] = @ + n]
      OBVIOUS
    <2>3. f \in [Tickers -> Int] /\ \A y \in Tickers : f[y] = funds[i][y] + (IF y = k THEN n ELSE 0)
      BY <1>3, <2>1, <2>2
    <2>4. funds' = [funds EXCEPT ![i] = f]
      BY <1>1, <1>2, <2>2
    <2> QED
      BY <2>1, <2>3, <2>4
  <1>8. ASSUME NEW x \in Keys, NEW y \in Tickers
        PROVE  Amount(balance', x, y) - funds'[x][y] = Amount(balance, x, y) - funds[x][y]
    <2>1. x \in Entities /\ x # Merchant
      BY DEF Entities
    <2>2. Amount(balance, x, y) \in Int /\ funds[x][y] \in Int
      BY <1>0, <2>1, AmountType DEF BalancesOK
    <2>3. Amount(b, x, y) = Amount(balance, x, y) + (IF x = i /\ y = k THEN n ELSE 0)
      BY <1>5, <2>1 DEF Grows
    <2>4. Amount(balance', x, y) = Amount(b, x, y) + 0
      BY <1>6, <2>1 DEF Grows
    <2>5. funds'[x][y] = funds[x][y] + (IF x = i /\ y = k THEN n ELSE 0)
      BY <1>7
    <2> QED
      BY <2>2, <2>3, <2>4, <2>5
  <1>9. SweepTypes' /\ BalancesOK' /\ Keeps(balance, balance')
    BY <1>0, <1>1, <1>5, <1>6, <1>7 DEF SweepTypes, BalancesOK, Grows, Keeps, counters
  <1> QED
    BY <1>1, <1>8, <1>9, BalanceStep

LEMMA TopUpStep ==
    ASSUME SweepBooks, (\E t \in TopUps : StartTopUp(t.ticker, t.amount)) \/ CheckSystemBalance
    PROVE  SweepBooks'
  <1>1. UNCHANGED <<balance, todo, txs, counters, work, network>>
    BY DEF StartTopUp, CheckSystemBalance
  <1>2. SweepTypes' /\ BalancesOK' /\ UNCHANGED <<funds, txs, chain, work>> /\ Keeps(balance, balance')
    BY <1>1 DEF SweepBooks, SweepTypes, BalancesOK, Keeps, counters, network
  <1> QED
    BY <1>1, <1>2, BalanceStep

LEMMA TopUpCreditStep ==
    ASSUME SweepBooks, OperatorOK, CreateSystemTopup PROVE SweepBooks'
  <1>0. BalancesOK /\ SweepTypes
    BY DEF SweepBooks
  <1>1. PICK k \in Tickers, n \in Int : k = operator.ticker /\ n = operator.amount
    BY DEF OperatorOK
  <1>2. /\ balance' = UpdateBalance(balance, Merchant, k, n) \/ UNCHANGED balance
        /\ UNCHANGED <<todo, txs, counters, work, network>>
    BY <1>1 DEF CreateSystemTopup
  <1>3. balance \in [Entities -> TableRows] /\ Merchant \in Entities
    BY <1>0 DEF BalancesOK, Entities
  <1>4. PICK d \in Int : Grows(balance, balance', Merchant, k, d)
    <2>1. CASE balance' = UpdateBalance(balance, Merchant, k, n)
      BY <1>3, <2>1, UpdateFacts
    <2>2. CASE UNCHANGED balance
      <3>1. Grows(balance, balance', Merchant, k, 0)
        BY <1>3, <2>2, AmountType DEF Grows
      <3> QED
        BY <3>1
    <2> QED
      BY <1>2, <2>1, <2>2
  <1>5. \A x \in Keys, y \in Tickers : Amount(balance', x, y) = Amount(balance, x, y)
    <2> SUFFICES ASSUME NEW x \in Keys, NEW y \in Tickers PROVE Amount(balance', x, y) = Amount(balance, x, y)
      OBVIOUS
    <2>1. x \in Entities /\ x # Merchant
      BY DEF Entities
    <2>2. Amount(balance, x, y) \in Int
      BY <1>3, <2>1, AmountType
    <2> QED
      BY <1>4, <2>1, <2>2 DEF Grows
  <1>6. SweepTypes' /\ BalancesOK' /\ UNCHANGED <<funds, txs, chain, work>> /\ Keeps(balance, balance')
    BY <1>0, <1>2, <1>4 DEF SweepTypes, BalancesOK, Grows, Keeps, counters, network
  <1> QED
    BY <1>5, <1>6, BalanceStep

FundsType == [Keys -> [Tickers -> Int]]
Moves(f, g, i, k, n) == g = [f EXCEPT ![i][k] = @ + n]
Shifts(f, g, i, k, n) ==
    /\ g \in FundsType
    /\ \A x \in Keys, y \in Tickers : g[x][y] = f[x][y] + (IF x = i /\ y = k THEN n ELSE 0)

LEMMA FundsMove ==
    ASSUME NEW f \in FundsType, NEW i \in Keys, NEW k \in Tickers, NEW n \in Int, NEW g, Moves(f, g, i, k, n)
    PROVE  Shifts(f, g, i, k, n)
  <1>1. PICK h : h = [f[i] EXCEPT ![k] = @ + n]
    OBVIOUS
  <1>2. f[i] \in [Tickers -> Int] /\ f[i][k] \in Int
    BY DEF FundsType
  <1>3. h \in [Tickers -> Int] /\ \A y \in Tickers : h[y] = f[i][y] + (IF y = k THEN n ELSE 0)
    BY <1>1, <1>2
  <1>4. g = [f EXCEPT ![i] = h]
    BY <1>1 DEF Moves
  <1> QED
    BY <1>3, <1>4 DEF FundsType, Shifts

LEMMA TotalShifts ==
    ASSUME NEW f \in FundsType, NEW i \in Keys, NEW k \in Tickers, NEW n \in Int, NEW g, Shifts(f, g, i, k, n),
           NEW y \in Tickers
    PROVE  Total(Column(g, y)) = Total(Column(f, y)) + (IF y = k THEN n ELSE 0)
  <1>1. g \in FundsType
    BY DEF Shifts
  <1>2. PICK p \in [Keys -> Int], q \in [Keys -> Int] : p = Column(f, y) /\ q = Column(g, y)
    BY <1>1, ColumnType DEF FundsType
  <1>3. \A x \in Keys : q[x] = p[x] + (IF x = i /\ y = k THEN n ELSE 0)
    BY <1>1, <1>2 DEF Shifts, Column, FundsType
  <1>4. Total(q) = Total(p) + q[i] - p[i]
    <2>1. \A x \in Keys : x # i => q[x] = p[x]
      BY <1>3
    <2> QED
      BY <2>1, TotalChange, NumbersAreFinite
  <1>5. Total(p) \in Int /\ p[i] \in Int /\ q[i] = p[i] + (IF y = k THEN n ELSE 0)
    BY <1>3, TotalType, NumbersAreFinite
  <1>6. Total(q) = Total(p) + (IF y = k THEN n ELSE 0)
    BY <1>4, <1>5
  <1> QED
    BY <1>2, <1>6

\* What an execution does to the chain: the fee is paid, and the amount moves if it succeeds.
Executes(r, verdict, fee) ==
    /\ funds' \in FundsType
    /\ \A x \in Keys, y \in Tickers :
         funds'[x][y] = funds[x][y] - (IF x = r.from /\ y = Coin THEN fee ELSE 0)
                        - (IF verdict = "success" /\ x = r.from /\ y = r.ticker THEN r.amount ELSE 0)
                        + (IF verdict = "success" /\ x = r.to /\ y = r.ticker THEN r.amount ELSE 0)
    /\ \A y \in Tickers :
         Total(Column(funds', y)) = Total(Column(funds, y)) - (IF y = Coin THEN fee ELSE 0)

LEMMA MineFunds ==
    ASSUME BalancesOK, NEW r, r.from \in Keys, r.to \in Keys, r.ticker \in Tickers, r.amount \in Int,
           NEW verdict \in {"success", "reverted"}, NEW fee \in Nat,
           NEW pays, pays = [funds EXCEPT ![r.from][Coin] = @ - fee],
           NEW sends, sends = [pays EXCEPT ![r.from][r.ticker] = @ - r.amount],
           funds' = IF verdict = "reverted" THEN pays
                    ELSE [sends EXCEPT ![r.to][r.ticker] = @ + r.amount]
    PROVE  Executes(r, verdict, fee)
  <1>1. PICK i \in Keys, to \in Keys, k \in Tickers, n \in Int :
          i = r.from /\ to = r.to /\ k = r.ticker /\ n = r.amount
    OBVIOUS
  <1>2. PICK f \in FundsType : f = funds
    BY DEF BalancesOK, FundsType
  <1>3. PICK g : g = funds'
    OBVIOUS
  <1>4. Shifts(f, pays, i, Coin, -fee)
    <2>1. pays = [f EXCEPT ![i][Coin] = @ - fee] /\ f[i][Coin] \in Int /\ -fee \in Int
      BY <1>1, <1>2 DEF FundsType
    <2>2. Moves(f, pays, i, Coin, -fee)
      BY <2>1 DEF Moves
    <2> QED
      BY <2>1, <2>2, FundsMove
  <1>5. pays \in FundsType
    BY <1>4 DEF Shifts
  <1>6. Shifts(pays, sends, i, k, -n)
    <2>1. sends = [pays EXCEPT ![i][k] = @ - n] /\ pays[i][k] \in Int /\ -n \in Int
      BY <1>1, <1>5 DEF FundsType
    <2>2. Moves(pays, sends, i, k, -n)
      BY <2>1 DEF Moves
    <2> QED
      BY <1>5, <2>1, <2>2, FundsMove
  <1>7. \A x \in Keys, y \in Tickers : f[x][y] \in Int
    BY DEF FundsType
  <1>8. ASSUME NEW y \in Tickers
         PROVE  /\ Total(Column(f, y)) \in Int /\ sends \in FundsType
                /\ Total(Column(pays, y)) = Total(Column(f, y)) + (IF y = Coin THEN -fee ELSE 0)
                /\ Total(Column(sends, y)) = Total(Column(pays, y)) + (IF y = k THEN -n ELSE 0)
    <2>1. sends \in FundsType /\ -fee \in Int /\ -n \in Int
      BY <1>6 DEF Shifts
    <2>2. Column(f, y) \in [Keys -> Int]
      BY ColumnType DEF FundsType
    <2>3. Total(Column(f, y)) \in Int
      BY <2>2, TotalType, NumbersAreFinite
    <2>4. Total(Column(pays, y)) = Total(Column(f, y)) + (IF y = Coin THEN -fee ELSE 0)
      BY <1>4, <2>1, TotalShifts
    <2>5. Total(Column(sends, y)) = Total(Column(pays, y)) + (IF y = k THEN -n ELSE 0)
      BY <1>5, <1>6, <2>1, TotalShifts
    <2> QED
      BY <2>1, <2>3, <2>4, <2>5
  <1>9. CASE verdict = "reverted"
    <2>1. g = pays
      BY <1>3, <1>9
    <2>2. ASSUME NEW y \in Tickers
          PROVE  Total(Column(g, y)) = Total(Column(f, y)) - (IF y = Coin THEN fee ELSE 0)
      <3>1. PICK c \in Int : c = Total(Column(f, y)) /\ Total(Column(g, y)) = c + (IF y = Coin THEN -fee ELSE 0)
        BY <1>8, <2>1
      <3> QED
        BY <3>1
    <2>3. \A x \in Keys, y \in Tickers : g[x][y] = f[x][y] - (IF x = i /\ y = Coin THEN fee ELSE 0)
      BY <1>4, <1>7, <2>1 DEF Shifts
    <2>4. verdict # "success" /\ g \in FundsType
      BY <1>5, <1>9, <2>1
    <2>5. ASSUME NEW x \in Keys, NEW y \in Tickers
          PROVE  funds'[x][y] = funds[x][y] - (IF x = r.from /\ y = Coin THEN fee ELSE 0)
                   - (IF verdict = "success" /\ x = r.from /\ y = r.ticker THEN r.amount ELSE 0)
                   + (IF verdict = "success" /\ x = r.to /\ y = r.ticker THEN r.amount ELSE 0)
      <3>1. PICK c \in Int, a \in Int : c = f[x][y] /\ a = IF x = i /\ y = Coin THEN fee ELSE 0
        BY <1>7
      <3>2. g[x][y] = c - a
        BY <2>3, <3>1
      <3>3. funds'[x][y] = c - a /\ funds[x][y] = c /\ a = IF x = r.from /\ y = Coin THEN fee ELSE 0
        BY <1>1, <1>2, <1>3, <3>1, <3>2
      <3>4. c - a = c - a - 0 + 0
        BY <3>1
      <3> QED
        BY <2>4, <3>3, <3>4
    <2> QED
      BY <1>2, <1>3, <2>2, <2>4, <2>5 DEF Executes
  <1>10. CASE verdict = "success"
    <2>1. Moves(sends, g, to, k, n)
      BY <1>1, <1>3, <1>10 DEF Moves
    <2>2. Shifts(sends, g, to, k, n)
      <3>1. sends \in FundsType
        BY <1>6 DEF Shifts
      <3> QED
        BY <2>1, <3>1, FundsMove
    <2>3. ASSUME NEW x \in Keys, NEW y \in Tickers
          PROVE  g[x][y] = f[x][y] - (IF x = i /\ y = Coin THEN fee ELSE 0)
                           - (IF x = i /\ y = k THEN n ELSE 0) + (IF x = to /\ y = k THEN n ELSE 0)
      <3>1. g[x][y] = sends[x][y] + (IF x = to /\ y = k THEN n ELSE 0)
        BY <2>2 DEF Shifts
      <3>2. sends[x][y] = pays[x][y] + (IF x = i /\ y = k THEN -n ELSE 0)
        BY <1>6 DEF Shifts
      <3>3. pays[x][y] = f[x][y] + (IF x = i /\ y = Coin THEN -fee ELSE 0)
        BY <1>4 DEF Shifts
      <3>4. f[x][y] \in Int
        BY <1>7
      <3> QED
        BY <3>1, <3>2, <3>3, <3>4
    <2>4. g \in FundsType
      BY <2>2 DEF Shifts
    <2>5. ASSUME NEW x \in Keys, NEW y \in Tickers
          PROVE  funds'[x][y] = funds[x][y] - (IF x = r.from /\ y = Coin THEN fee ELSE 0)
                   - (IF verdict = "success" /\ x = r.from /\ y = r.ticker THEN r.amount ELSE 0)
                   + (IF verdict = "success" /\ x = r.to /\ y = r.ticker THEN r.amount ELSE 0)
      <3>1. g[x][y] = f[x][y] - (IF x = i /\ y = Coin THEN fee ELSE 0)
                           - (IF x = i /\ y = k THEN n ELSE 0) + (IF x = to /\ y = k THEN n ELSE 0)
        BY <2>3
      <3> QED
        BY <1>1, <1>2, <1>3, <1>10, <3>1
    <2>6. ASSUME NEW y \in Tickers
          PROVE  Total(Column(g, y)) = Total(Column(f, y)) - (IF y = Coin THEN fee ELSE 0)
      <3>1. sends \in FundsType
        BY <1>8
      <3>2. Total(Column(g, y)) = Total(Column(sends, y)) + (IF y = k THEN n ELSE 0)
        BY <2>2, <3>1, TotalShifts
      <3>3. PICK c \in Int :
              /\ c = Total(Column(f, y))
              /\ Total(Column(sends, y)) = (c + (IF y = Coin THEN -fee ELSE 0)) + (IF y = k THEN -n ELSE 0)
        BY <1>8, ZenonT(40)
      <3> QED
        BY <3>2, <3>3
    <2> QED
      BY <1>2, <1>3, <2>4, <2>5, <2>6 DEF Executes
  <1> QED
    BY <1>9, <1>10

LEMMA MineTx ==
    ASSUME SweepTypes, NEW lent, NEW owing, Booked(lent, owing), NEW t \in TxIds, chain[t].state = "pool",
           NEW v \in Workers, work[v].tx = t
    PROVE  work[v].pc = "setHash"
  <1>1. WorkOK(v, lent, owing) /\ work[v] \in WorkRecord /\ t # 0
    BY NumbersAreFinite DEF Booked, TxsOK, SweepTypes
  <1>2. work[v].pc \in Pcs
    BY <1>1 DEF WorkRecord
  <1>3. work[v].pc \notin {"idle", "nonce", "sign"} \cup Sending
    BY <1>1 DEF WorkOK, Making
  <1>4. ASSUME work[v].pc \in Checking PROVE FALSE
    <2>1. Following(work[v], txs[t], chain[t], balance, lent, owing) /\ work[v].pc # "setHash"
      BY <1>1, <1>4 DEF WorkOK, Checking
    <2> QED
      BY <2>1 DEF Following
  <1> QED
    BY <1>2, <1>3, <1>4 DEF Pcs

LEMMA MineStep == ASSUME SweepBooks, NEW t \in TxIds, Mine(t) PROVE SweepBooks'
  <1>0. BalancesOK /\ SweepTypes /\ OneEach
    BY DEF SweepBooks
  <1>1. PICK lent \in SUBSET TxIds, owing \in SUBSET TxIds : Booked(lent, owing)
    BY DEF SweepBooks
  <1>2. PICK r \in TxRecord, c \in ChainRecord : r = txs[t] /\ c = chain[t]
    BY <1>0 DEF SweepTypes
  <1>3. PICK verdict \in {"success", "reverted"}, fee \in Nat :
          LET pays == [funds EXCEPT ![r.from][Coin] = @ - fee]
              sends == [pays EXCEPT ![r.from][r.ticker] = @ - r.amount]
          IN  /\ chain' = [chain EXCEPT ![t].state = verdict, ![t].fee = fee]
              /\ funds' = IF verdict = "reverted" THEN pays
                          ELSE [sends EXCEPT ![r.to][r.ticker] = @ + r.amount]
    BY <1>2 DEF Mine
  <1>4. c.state = "pool" /\ UNCHANGED <<balance, todo, txs, counters, work>>
    BY <1>2 DEF Mine
  <1>5. TxOK(t, lent, owing) /\ t # 0
    BY <1>1, NumbersAreFinite DEF Booked, TxsOK
  <1>6. /\ r.status = "pending" /\ t \in lent /\ r.from \in Keys /\ r.to \in Keys /\ c.fee = 0
        /\ r.ticker \in Tickers /\ r.amount \in Int
    BY <1>2, <1>4, <1>5 DEF TxOK, TxRecord
  <1>7. \A v \in Workers : work[v].tx = t => work[v].pc = "setHash"
    BY <1>0, <1>1, <1>2, <1>4, MineTx
  <1>8. t \in owing
    BY <1>2, <1>5, <1>6, <1>7 DEF TxOK, Under
  <1>9. Executes(r, verdict, fee)
    BY <1>0, <1>3, <1>6, MineFunds
  <1>10. PICK d : d = [c EXCEPT !.state = verdict, !.fee = fee]
    OBVIOUS
  <1>11. d \in ChainRecord /\ d.state = verdict /\ d.fee = fee
    BY <1>10 DEF ChainRecord
  <1>12. chain' = [chain EXCEPT ![t] = d]
    BY <1>2, <1>3, <1>10
  <1>13. chain' \in [TxIds -> ChainRecord] /\ chain'[t] = d /\ \A u \in TxIds : u # t => chain'[u] = chain[u]
    BY <1>0, <1>11, <1>12 DEF SweepTypes
  <1>14. SweepTypes' /\ BalancesOK'
    BY <1>0, <1>4, <1>9, <1>13 DEF SweepTypes, BalancesOK, Executes, FundsType, counters
  <1>15. Elsewhere(t, lent, owing, lent, owing) /\ Keeps(balance, balance')
    BY <1>4, <1>13 DEF Elsewhere, Keeps
  <1>16. ASSUME NEW u \in TxIds PROVE TxOK(u, lent, owing)'
    <2>1. TxOK(u, lent, owing) /\ \A v \in Workers : work'[v] = work[v]
      BY <1>1, <1>4 DEF Booked, TxsOK
    <2>2. CASE u = t
      BY <1>2, <1>4, <1>6, <1>8, <1>11, <1>13, <2>1, <2>2 DEF TxOK
    <2>3. CASE u # t
      BY <1>0, <1>15, <2>1, <2>3, TxStays
    <2> QED
      BY <2>2, <2>3
  <1>17. ASSUME NEW v \in Workers PROVE WorkOK(v, lent, owing)'
    <2>1. WorkOK(v, lent, owing) /\ work'[v] = work[v]
      BY <1>1, <1>4 DEF Booked, TxsOK
    <2>2. CASE work[v].tx = t
      <3>1. work[v].pc = "setHash"
        BY <1>7, <2>2
      <3>2. Following(work[v], txs[t], chain[t], balance, lent, owing)
        BY <2>1, <2>2, <3>1 DEF WorkOK
      <3>3. Following(work[v], txs[t], d, balance, lent, owing)
        BY <3>1, <3>2 DEF Following
      <3> QED
        BY <1>4, <1>5, <1>13, <2>1, <2>2, <3>1, <3>3 DEF WorkOK, Sending, Checking
    <2>3. CASE work[v].tx # t
      BY <1>0, <1>15, <2>1, <2>3, WorkStays
    <2> QED
      BY <2>2, <2>3
  <1>18. ASSUME NEW i \in Keys, NEW k \in Tickers
         PROVE  Amount(balance', i, k) + Lag(t, txs'[t], chain'[t], lent, owing)[i][k] - funds'[i][k]
                  = Amount(balance, i, k) + Lag(t, txs[t], chain[t], lent, owing)[i][k] - funds[i][k]
    <2>1. Amount(balance, i, k) \in Int /\ funds[i][k] \in Int
      BY <1>0, AmountOf DEF BooksOf, BalancesOK
    <2>2. Lag(t, r, c, lent, owing)[i][k] = IF i = r.from /\ k = r.ticker THEN r.amount ELSE 0
      BY <1>4, <1>6, LagIs
    <2>3. Lag(t, r, d, lent, owing)[i][k] =
            (IF i = (IF verdict = "success" THEN r.to ELSE r.from) /\ k = r.ticker THEN r.amount ELSE 0)
            - (IF i = r.from /\ k = Coin THEN fee ELSE 0)
      BY <1>6, <1>8, <1>11, LagIs
    <2>4. funds'[i][k] = funds[i][k] - (IF i = r.from /\ k = Coin THEN fee ELSE 0)
                         - (IF verdict = "success" /\ i = r.from /\ k = r.ticker THEN r.amount ELSE 0)
                         + (IF verdict = "success" /\ i = r.to /\ k = r.ticker THEN r.amount ELSE 0)
      BY <1>9 DEF Executes
    <2>5. Lag(t, r, d, lent, owing)[i][k] - funds'[i][k] = Lag(t, r, c, lent, owing)[i][k] - funds[i][k]
      BY <1>6, <2>1, <2>2, <2>3, <2>4
    <2>6. Lag(t, r, d, lent, owing)[i][k] \in Int /\ Lag(t, r, c, lent, owing)[i][k] \in Int /\ funds'[i][k] \in Int
      BY <1>6, <2>1, <2>2, <2>3, <2>4
    <2>7. Amount(balance', i, k) = Amount(balance, i, k)
      BY <1>4
    <2> QED
      BY <1>2, <1>4, <1>13, <2>1, <2>5, <2>6, <2>7
  <1>19. Adds(balance, funds, Lags(lent, owing))'
    BY <1>0, <1>1, <1>14, <1>15, <1>18, BooksStep DEF Booked
  <1>20. OneEach'
    BY <1>0, <1>4 DEF OneEach
  <1> QED
    BY <1>14, <1>16, <1>17, <1>19, <1>20 DEF SweepBooks, Booked, TxsOK

-----------------------------------------------------------------------------
(* Sweeps: every step *)

LEMMA SweepInitInv ==
    ASSUME NEW rows, FirstRows(rows), WalletsInit(rows), TransferInit PROVE SweepInv
  <1>1. ListingInv
    BY ListingInitInv
  <1>2. ListedOK
    BY DEF ListedOK, WalletsInit, Resting, Elements
  <1>3. OperatorOK
    BY DEF OperatorOK, TransferInit, NoTopUp
  <1>4. BalancesOK
    <2>1. ASSUME NEW i \in Keys PROVE Deposits[i] \in TableRows
      BY DEF TableRows
    <2>2. <<>> \in TableRows
      <3>1. <<>> = [k \in {} |-> 0]
        OBVIOUS
      <3>2. [k \in {} |-> 0] \in [{} -> Int] /\ {} \in SUBSET Tickers
        OBVIOUS
      <3> QED
        BY <3>1, <3>2, ZenonT(40) DEF TableRows
    <2>3. ASSUME NEW i \in Keys, NEW k \in DOMAIN Deposits[i] PROVE Deposits[i][k] \in Int
      OBVIOUS
    <2> QED
      BY <2>1, <2>2, <2>3 DEF BalancesOK, TransferInit, Entities
  <1>5. SweepTypes
    <2>1. NoTx \in TxRecord
      BY DEF NoTx, TxRecord, Entities, Merchant
    <2>2. NotSent \in ChainRecord
      BY DEF NotSent, ChainRecord
    <2>3. Free \in WorkRecord
      BY FreeIs
    <2>4. /\ txs = [t \in TxIds |-> NoTx] /\ chain = [t \in TxIds |-> NotSent]
          /\ work = [w \in Workers |-> Free] /\ todo = {}
      BY DEF TransferInit
    <2>5. confirmed \in [Keys -> Int] /\ pending \in [Keys -> Int]
      BY DEF TransferInit
    <2> QED
      BY <2>1, <2>2, <2>3, <2>4, <2>5 DEF SweepTypes
  <1>6. OneEach
    BY DEF OneEach, TransferInit, Free
  <1>7. TxsOK({}, {})
    BY DEF TxsOK, TxOK, WorkOK, TransferInit, NoTx, NotSent, Free, Sending, Checking
  <1>8. Adds(balance, funds, Lags({}, {}))
    <2> SUFFICES ASSUME NEW i \in Keys, NEW k \in Tickers
                 PROVE  Amount(balance, i, k) + Total([t \in TxIds |-> Lags({}, {})[t][i][k]]) = funds[i][k]
      BY DEF Adds
    <2>1. PICK f : f = [t \in TxIds |-> Lags({}, {})[t][i][k]]
      OBVIOUS
    <2>2. ASSUME NEW t \in TxIds PROVE f[t] = 0
      BY <2>1, LagIs DEF Lags
    <2>3. f \in [TxIds -> {0}]
      BY <2>1, <2>2
    <2>4. Total(f) = 0
      BY <2>2, <2>3, TotalZero, NumbersAreFinite
    <2>5. balance[i] = Deposits[i] /\ i \in Entities
      BY DEF TransferInit, Entities
    <2>6. Amount(balance, i, k) = funds[i][k] /\ funds[i][k] \in Int
      BY <2>5, <1>4 DEF Amount, HasBalance, TransferInit, BalancesOK
    <2> QED
      BY <2>1, <2>4, <2>6
  <1> QED
    BY <1>1, <1>2, <1>3, <1>4, <1>5, <1>6, <1>7, <1>8 DEF SweepInv, SweepBooks, Booked

LEMMA OperatorStep == ASSUME SweepInv, [TransferNext]_sweepVars PROVE OperatorOK'
  <1>0. OperatorOK /\ BalancesOK
    BY DEF SweepInv, SweepBooks
  <1>1. CASE UNCHANGED operator
    BY <1>0, <1>1 DEF OperatorOK
  <1>2. ASSUME NEW t \in TopUps, StartTopUp(t.ticker, t.amount) PROVE OperatorOK'
    <2>1. ListAllBalancesByType({Merchant}, t.ticker) \in Int
      <3>1. [e \in {Merchant} |-> Amount(balance, e, t.ticker)] \in [{Merchant} -> Int]
        BY <1>0, AmountType DEF BalancesOK, Entities
      <3>2. IsFiniteSet({Merchant})
        BY FS_Singleton
      <3> QED
        BY <3>1, <3>2, TotalType DEF ListAllBalancesByType
    <2> QED
      BY <1>2, <2>1 DEF StartTopUp, OperatorOK
  <1>3. CASE CheckSystemBalance
    <2>1. operator' \in {[operator EXCEPT !.pc = "credit"], NoTopUp}
      BY <1>3 DEF CheckSystemBalance
    <2> QED
      BY <1>0, <2>1 DEF OperatorOK, NoTopUp
  <1>4. CASE CreateSystemTopup
    BY <1>4 DEF CreateSystemTopup, OperatorOK, NoTopUp
  <1>5. CASE \E j \in Processes : Match(j)
    BY <1>1, <1>5 DEF Match
  <1>6. ASSUME NEW w \in Workers,
               \/ \E b \in todo : StartTransfer(w, b)
               \/ TakeNonce(w) \/ SignAndCreateTx(w) \/ Decrement(w) \/ Broadcast(w) \/ SetHash(w)
               \/ Error(w) \/ UndoNonce(w) \/ UndoTx(w) \/ UndoBalance(w)
               \/ \E t \in TxIds : StartCheck(w, t)
               \/ SettleNonce(w) \/ ConfirmTx(w) \/ ChargeFee(w) \/ FailTx(w) \/ Restore(w)
        PROVE  UNCHANGED operator
    BY <1>6 DEF StartTransfer, TakeNonce, SignAndCreateTx, Decrement, Broadcast, SetHash, Error, UndoNonce,
                UndoTx, UndoBalance, StartCheck, SettleNonce, ConfirmTx, ChargeFee, FailTx, Restore
  <1>7. CASE (\E i \in Keys, k \in DOMAIN Arrives : Pay(i, k)) \/ \E t \in TxIds : Mine(t)
    BY <1>1, <1>7 DEF Pay, Mine
  <1> QED
    BY <1>1, <1>2, <1>3, <1>4, <1>5, <1>6, <1>7 DEF TransferNext, sweepVars, transferVars

LEMMA SweepNextInv == ASSUME SweepInv, [TransferNext]_sweepVars PROVE SweepInv'
  <1>0. SweepBooks /\ ListingInv /\ ListedOK /\ OperatorOK /\ WalletsInv
    BY DEF SweepInv, ListingInv
  <1>1. OperatorOK'
    BY OperatorStep
  <1>2. ASSUME UNCHANGED <<walletVars, proc>>, SweepBooks' PROVE SweepInv'
    BY <1>0, <1>1, <1>2, ListedStays DEF SweepInv
  <1>3. CASE UNCHANGED sweepVars
    <2>1. UNCHANGED <<walletVars, proc>> /\ UNCHANGED <<balance, todo, txs, counters, work, network>>
      BY <1>3 DEF sweepVars, transferVars
    <2>2. SweepTypes' /\ BalancesOK' /\ UNCHANGED <<funds, txs, chain, work>> /\ Keeps(balance, balance')
      BY <1>0, <2>1 DEF SweepBooks, SweepTypes, BalancesOK, Keeps, counters, network
    <2>3. SweepBooks'
      BY <1>0, <2>1, <2>2, BalanceStep
    <2> QED
      BY <1>2, <2>1, <2>3
  <1>4. ASSUME WalletsNext /\ EnsureBalances /\ UNCHANGED <<todo, txs, counters, work, operator, network>>
        PROVE  SweepInv'
    BY <1>1, <1>4, WalletsStep DEF SweepInv
  <1>5. ASSUME NEW j \in Processes, Match(j) PROVE SweepInv'
    BY <1>1, <1>5, MatchStep DEF SweepInv
  <1>6. ASSUME NEW w \in Workers,
               \/ \E b \in todo : StartTransfer(w, b)
               \/ TakeNonce(w) \/ SignAndCreateTx(w) \/ Decrement(w) \/ Broadcast(w) \/ SetHash(w)
               \/ Error(w) \/ UndoNonce(w) \/ UndoTx(w) \/ UndoBalance(w)
               \/ \E t \in TxIds : StartCheck(w, t)
               \/ SettleNonce(w) \/ ConfirmTx(w) \/ ChargeFee(w) \/ FailTx(w) \/ Restore(w)
        PROVE  SweepInv'
    <2>1. UNCHANGED <<walletVars, proc>>
      BY <1>6 DEF StartTransfer, TakeNonce, SignAndCreateTx, Decrement, Broadcast, SetHash, Error, UndoNonce,
                  UndoTx, UndoBalance, StartCheck, SettleNonce, ConfirmTx, ChargeFee, FailTx, Restore
    <2>2. SweepBooks'
      BY <1>0, <1>6, StartTransferStep, TakeNonceStep, SignStep, DecrementStep, BroadcastStep, SetHashStep,
         ErrorStep, UndoNonceStep, UndoTxStep, UndoBalanceStep, StartCheckStep, SettleNonceStep, ConfirmStep,
         ChargeFeeStep, FailTxStep, RestoreStep
    <2> QED
      BY <1>2, <2>1, <2>2
  <1>7. ASSUME (\E t \in TopUps : StartTopUp(t.ticker, t.amount)) \/ CheckSystemBalance \/ CreateSystemTopup
        PROVE  SweepInv'
    <2>1. UNCHANGED <<walletVars, proc>>
      BY <1>7 DEF StartTopUp, CheckSystemBalance, CreateSystemTopup
    <2>2. SweepBooks'
      BY <1>0, <1>7, TopUpStep, TopUpCreditStep
    <2> QED
      BY <1>2, <2>1, <2>2
  <1>8. ASSUME NEW i \in Keys, NEW k \in DOMAIN Arrives, Pay(i, k) PROVE SweepInv'
    <2>1. UNCHANGED <<walletVars, proc>> /\ SweepBooks'
      BY <1>0, <1>8, PayStep DEF Pay
    <2> QED
      BY <1>2, <2>1
  <1>9. ASSUME NEW t \in TxIds, Mine(t) PROVE SweepInv'
    <2>1. UNCHANGED <<walletVars, proc>> /\ SweepBooks'
      BY <1>0, <1>9, MineStep DEF Mine
    <2> QED
      BY <1>2, <2>1
  <1> QED
    BY <1>3, <1>4, <1>5, <1>6, <1>7, <1>8, <1>9 DEF TransferNext

\* Between any two steps of PerformInternalWalletTransfer, its goroutines, the checks of
\* their transactions, the top-up and the chain, the invariant holds: the listed wallets
\* have keys, each transaction is in the hands of one goroutine at most, and balances,
\* lags and the chain add up.
THEOREM SweepInvariant ==
    ASSUME NEW CONSTANT rows, FirstRows(rows)
    PROVE  TransferSpec(rows) => []SweepInv
  <1>1. WalletsInit(rows) /\ TransferInit => SweepInv
    BY SweepInitInv
  <1>2. SweepInv /\ [TransferNext]_sweepVars => SweepInv'
    BY SweepNextInv
  <1> QED
    BY <1>1, <1>2, PTL DEF TransferSpec

\* Every sweep, whatever goroutines overlap and wherever they fail, keeps the books: once
\* none is under way and what was sent is settled, the wallets' balances are what the
\* chain holds, but for the amounts of stranded transactions.  In between, the chain is
\* ahead or behind by what each transaction lags.
THEOREM LedgersMatch ==
    ASSUME NEW CONSTANT rows, FirstRows(rows)
    PROVE  TransferSpec(rows) => []LedgerMatchesChain
  <1>1. SweepInv => LedgerMatchesChain
    <2> SUFFICES ASSUME SweepInv, \A w \in Workers : work[w] = Free,
                        \A t \in TxIds : WasSent(t) => txs[t].status # "pending"
                 PROVE  \E lost \in SUBSET Stranded : \A i \in Keys, k \in Tickers :
                            Amount(balance, i, k) + Total([t \in lost |-> Takes(t, i, k)]) = funds[i][k]
      BY DEF LedgerMatchesChain
    <2>0. BalancesOK /\ SweepTypes /\ OneEach
      BY DEF SweepInv, SweepBooks
    <2>1. PICK lent \in SUBSET TxIds, owing \in SUBSET TxIds : Booked(lent, owing)
      BY DEF SweepInv, SweepBooks
    <2>2. ASSUME NEW t \in TxIds
          PROVE  /\ t \in lent => t \in Stranded /\ chain[t].state = "unsent"
                 /\ t \in owing => chain[t].state = "unsent" /\ chain[t].fee = 0
      <3>1. TxOK(t, lent, owing)
        BY <2>1 DEF Booked, TxsOK
      <3>2. \A p : Under(t, p) => p = "idle"
        BY FreeIs DEF Under
      <3>3. t \in lent \/ t \in owing => txs[t].status = "pending"
        BY <3>1, <3>2 DEF TxOK
      <3> QED
        BY <3>1, <3>3 DEF TxOK, Stranded, WasSent
    <2>3. ASSUME NEW i \in Keys, NEW k \in Tickers
          PROVE  Amount(balance, i, k) + Total([t \in lent |-> Takes(t, i, k)]) = funds[i][k]
      <3>1. PICK f : f = [t \in TxIds |-> Lags(lent, owing)[t][i][k]]
        OBVIOUS
      <3>2. f \in [TxIds -> Int]
        BY <2>0, <3>1, LagsType, LaggingType
      <3>3. ASSUME NEW t \in TxIds PROVE f[t] = IF t \in lent THEN Takes(t, i, k) ELSE 0
        <4>1. PICK r \in TxRecord, c \in ChainRecord : r = txs[t] /\ c = chain[t]
          BY <2>0 DEF SweepTypes
        <4>2. f[t] = (IF t \in lent /\ i = (IF c.state = "success" THEN r.to ELSE r.from) /\ k = r.ticker
                      THEN r.amount ELSE 0)
                     - (IF t \in owing /\ i = r.from /\ k = Coin THEN c.fee ELSE 0)
          BY <3>1, <4>1, LagIs DEF Lags
        <4>3. r.amount \in Int /\ (t \in owing => c.fee = 0) /\ (t \in lent => c.state = "unsent")
          BY <2>2, <4>1 DEF TxRecord
        <4>4. f[t] = IF t \in lent /\ i = r.from /\ k = r.ticker THEN r.amount ELSE 0
          BY <4>2, <4>3
        <4> QED
          BY <4>1, <4>4 DEF Takes
      <3>4. Total(f) = Total([t \in lent |-> f[t]])
        BY <3>2, <3>3, TotalOfPart, NumbersAreFinite
      <3>5. [t \in lent |-> f[t]] = [t \in lent |-> Takes(t, i, k)]
        BY <3>3
      <3>6. Amount(balance, i, k) + Total(f) = funds[i][k]
        BY <2>1, <3>1 DEF Booked, Adds
      <3> QED
        BY <3>4, <3>5, <3>6
    <2>4. lent \in SUBSET Stranded
      BY <2>2
    <2> QED
      BY <2>3, <2>4
  <1> QED
    BY <1>1, SweepInvariant, PTL

-----------------------------------------------------------------------------
(* Top-ups: what the proof rests on *)

\* What the chain holds of a currency, and what it has been paid.
Held(k) == Total([i \in Keys |-> funds[i][k]])
           + (IF k = Coin THEN Total([t \in TxIds |-> chain[t].fee]) ELSE 0)

\* A top-up under way counts what the merchants own as it is, and what it gives is there.
MerchantOK ==
    /\ \A t \in TxIds : txs[t].amount \in Nat
    /\ \A k \in Tickers : Amount(balance, Merchant, k) <= Held(k)
    /\ operator.pc = "read" => operator.owed = Amount(balance, Merchant, operator.ticker)
    /\ operator.pc = "credit" =>
         Amount(balance, Merchant, operator.ticker) + operator.amount <= Held(operator.ticker)

LEMMA FeesType == ASSUME SweepTypes PROVE [t \in TxIds |-> chain[t].fee] \in [TxIds -> Int]
  BY DEF SweepTypes, ChainRecord

LEMMA HeldType == ASSUME BalancesOK, SweepTypes, NEW k \in Tickers PROVE Held(k) \in Int
  <1>1. [i \in Keys |-> funds[i][k]] \in [Keys -> Int]
    BY DEF BalancesOK
  <1>2. [t \in TxIds |-> chain[t].fee] \in [TxIds -> Int]
    BY FeesType
  <1>3. Total([i \in Keys |-> funds[i][k]]) \in Int /\ Total([t \in TxIds |-> chain[t].fee]) \in Int
    BY <1>1, <1>2, TotalType, NumbersAreFinite
  <1> QED
    BY <1>3 DEF Held

\* For a transaction, the wallets' balances are ahead of the chain by its fee at most.
LEMMA LagsLittle ==
    ASSUME SweepTypes, NEW lent, NEW owing, NEW t \in TxIds, txs[t].amount \in Nat, NEW k \in Tickers,
           NEW h \in [Keys -> Int], \A i \in Keys : h[i] = Lags(lent, owing)[t][i][k]
    PROVE  -(IF k = Coin THEN chain[t].fee ELSE 0) <= Total(h)
  <1>1. PICK r \in TxRecord, c \in ChainRecord : r = txs[t] /\ c = chain[t]
    BY DEF SweepTypes
  <1>2. PICK n \in Nat : n = IF k = Coin THEN c.fee ELSE 0
    BY DEF ChainRecord
  <1>3. PICK z : z = [i \in Keys |-> IF i = r.from THEN -n ELSE 0]
    OBVIOUS
  <1>4. z \in [Keys -> Int] /\ -n \in Int
    BY <1>3
  <1>5. ASSUME NEW i \in Keys PROVE z[i] <= h[i]
    <2>1. h[i] = (IF t \in lent /\ i = (IF c.state = "success" THEN r.to ELSE r.from) /\ k = r.ticker
                  THEN r.amount ELSE 0)
                 - (IF t \in owing /\ i = r.from /\ k = Coin THEN c.fee ELSE 0)
      BY <1>1, LagIs DEF Lags
    <2>2. r.amount \in Nat /\ c.fee \in Nat
      BY <1>1 DEF ChainRecord
    <2>3. z[i] = IF i = r.from THEN -n ELSE 0
      BY <1>3
    <2> QED
      BY <1>2, <2>1, <2>2, <2>3
  <1>6. Total(z) <= Total(h)
    BY <1>4, <1>5, TotalGrows, NumbersAreFinite
  <1>7. Total(z) = IF r.from \in Keys THEN -n ELSE 0
    <2>1. PICK m \in Int : m = -n
      OBVIOUS
    <2>2. PICK x : x = r.from
      OBVIOUS
    <2>3. OnlyAt(z, x, m)
      BY <1>3, <2>1, <2>2 DEF OnlyAt
    <2>4. IsFiniteSet(Keys)
      BY NumbersAreFinite
    <2>5. Total(z) = IF x \in Keys THEN m ELSE 0
      BY <1>4, <2>3, <2>4, TotalOfOne
    <2> QED
      BY <2>1, <2>2, <2>5
  <1>8. Total(h) \in Int
    BY TotalType, NumbersAreFinite
  <1> QED
    BY <1>1, <1>2, <1>6, <1>7, <1>8

LEMMA FeesTotal ==
    ASSUME SweepTypes, NEW k
    PROVE  LET fees == [t \in TxIds |-> IF k = Coin THEN chain[t].fee ELSE 0]
           IN  fees \in [TxIds -> Int]
               /\ Total(fees) = IF k = Coin THEN Total([t \in TxIds |-> chain[t].fee]) ELSE 0
  <1>1. [t \in TxIds |-> chain[t].fee] \in [TxIds -> Int]
    BY FeesType
  <1>2. CASE k = Coin
    <2>1. [t \in TxIds |-> IF k = Coin THEN chain[t].fee ELSE 0] = [t \in TxIds |-> chain[t].fee]
      BY <1>2
    <2> QED
      BY <1>1, <1>2, <2>1
  <1>3. CASE k # Coin
    <2>1. PICK f : f = [t \in TxIds |-> IF k = Coin THEN chain[t].fee ELSE 0]
      OBVIOUS
    <2>2. f \in [TxIds -> {0}] /\ f \in [TxIds -> Int]
      BY <1>3, <2>1
    <2>3. Total(f) = 0
      BY <2>2, TotalZero, NumbersAreFinite
    <2> QED
      BY <1>3, <2>1, <2>2, <2>3
  <1> QED
    BY <1>2, <1>3

\* What the database says the wallets own is on the chain, or was a fee.
LEMMA WalletsHold ==
    ASSUME SweepBooks, \A t \in TxIds : txs[t].amount \in Nat, NEW k \in Tickers
    PROVE  ListAllBalancesByType(Keys, k) <= Held(k) /\ ListAllBalancesByType(Keys, k) \in Int
  <1>0. BalancesOK /\ SweepTypes /\ IsFiniteSet(Keys) /\ IsFiniteSet(TxIds)
    BY NumbersAreFinite DEF SweepBooks
  <1>1. PICK lent \in SUBSET TxIds, owing \in SUBSET TxIds : Booked(lent, owing)
    BY DEF SweepBooks
  <1>2. PICK a : a = [i \in Keys |-> Amount(balance, i, k)]
    OBVIOUS
  <1>3. PICK f : f = [i \in Keys |-> funds[i][k]]
    OBVIOUS
  <1>4. PICK g : g = [t \in TxIds |-> [i \in Keys |-> Lags(lent, owing)[t][i][k]]]
    OBVIOUS
  <1>5. PICK s : s = [i \in Keys |-> Total(Column(g, i))]
    OBVIOUS
  <1>6. PICK fees : fees = [t \in TxIds |-> IF k = Coin THEN chain[t].fee ELSE 0]
    OBVIOUS
  <1>7. PICK none : none = [t \in TxIds |-> -fees[t]]
    OBVIOUS
  <1>8. a \in [Keys -> Int] /\ f \in [Keys -> Int]
    <2>1. \A i \in Keys : Amount(balance, i, k) \in Int /\ funds[i][k] \in Int
      BY <1>0, AmountOf DEF BooksOf, BalancesOK
    <2> QED
      BY <1>2, <1>3, <2>1
  <1>9. g \in [TxIds -> [Keys -> Int]] /\ \A t \in TxIds, i \in Keys : g[t][i] = Lags(lent, owing)[t][i][k]
    <2>1. Lags(lent, owing) \in LagTypes
      BY <1>0, LagsType
    <2> QED
      BY <1>4, <2>1 DEF LagTypes
  <1>10. s \in [Keys -> Int]
    <2>1. ASSUME NEW i \in Keys PROVE Total(Column(g, i)) \in Int
      <3>1. Column(g, i) \in [TxIds -> Int]
        BY <1>9, ColumnType
      <3> QED
        BY <1>0, <3>1, TotalType
    <2> QED
      BY <1>5, <2>1
  <1>11. ASSUME NEW i \in Keys PROVE f[i] = a[i] + s[i]
    <2>1. Column(g, i) = [t \in TxIds |-> Lags(lent, owing)[t][i][k]]
      BY <1>4 DEF Column
    <2>2. Amount(balance, i, k) + Total([t \in TxIds |-> Lags(lent, owing)[t][i][k]]) = funds[i][k]
      BY <1>1 DEF Booked, Adds
    <2> QED
      BY <1>2, <1>3, <1>5, <2>1, <2>2
  <1>12. Total(f) = Total(a) + Total(s)
    BY <1>0, <1>8, <1>10, <1>11, TotalPlus
  <1>13. fees \in [TxIds -> Int] /\ none \in [TxIds -> Int]
         /\ Total(fees) = IF k = Coin THEN Total([t \in TxIds |-> chain[t].fee]) ELSE 0
    <2>1. fees \in [TxIds -> Int]
          /\ Total(fees) = IF k = Coin THEN Total([t \in TxIds |-> chain[t].fee]) ELSE 0
      BY <1>0, <1>6, FeesTotal
    <2> QED
      BY <1>7, <2>1
  <1>14. Total(none) + Total(fees) = 0
    <2>1. PICK z : z = [t \in TxIds |-> 0]
      OBVIOUS
    <2>2. z \in [TxIds -> {0}] /\ z \in [TxIds -> Int] /\ \A t \in TxIds : z[t] = none[t] + fees[t]
      BY <1>7, <1>13, <2>1
    <2>3. Total(z) = 0
      BY <1>0, <2>2, TotalZero
    <2>4. Total(z) = Total(none) + Total(fees)
      BY <1>0, <1>13, <2>2, TotalPlus
    <2> QED
      BY <2>3, <2>4
  <1>15. RowSums(g) \in [TxIds -> Int] /\ \A t \in TxIds : none[t] <= RowSums(g)[t]
    <2>1. ASSUME NEW t \in TxIds PROVE Total(g[t]) \in Int /\ none[t] <= Total(g[t])
      <3>1. PICK h \in [Keys -> Int] : h = g[t] /\ \A i \in Keys : h[i] = Lags(lent, owing)[t][i][k]
        BY <1>9
      <3>2. -(IF k = Coin THEN chain[t].fee ELSE 0) <= Total(h)
        BY <1>0, <3>1, LagsLittle
      <3>3. Total(h) \in Int
        BY <1>0, TotalType
      <3>4. none[t] = -(IF k = Coin THEN chain[t].fee ELSE 0)
        BY <1>6, <1>7
      <3> QED
        BY <3>1, <3>2, <3>3, <3>4
    <2>2. DOMAIN g = TxIds
      BY <1>9
    <2> QED
      BY <2>1, <2>2 DEF RowSums
  <1>16. Total(none) <= Total(RowSums(g))
    BY <1>0, <1>13, <1>15, TotalGrows
  <1>17. Total(RowSums(g)) = Total(s)
    BY <1>0, <1>5, <1>9, RowsAndColumns
  <1>18. Total(a) \in Int /\ Total(s) \in Int /\ Total(fees) \in Int /\ Total(none) \in Int /\ Total(f) \in Int
    BY <1>0, <1>8, <1>10, <1>13, TotalType
  <1>19. Total(a) <= Total(f) + Total(fees)
    BY <1>12, <1>14, <1>16, <1>17, <1>18
  <1> QED
    BY <1>2, <1>3, <1>13, <1>18, <1>19 DEF Held, ListAllBalancesByType

\* A step that leaves the top-up, the merchants' balances and what the chain holds as they are.
LEMMA MerchantStays ==
    ASSUME MerchantOK, UNCHANGED <<operator, funds>>, balance'[Merchant] = balance[Merchant],
           \A t \in TxIds : txs'[t].amount \in Nat, \A t \in TxIds : chain'[t].fee = chain[t].fee
    PROVE  MerchantOK'
  <1>1. [t \in TxIds |-> chain'[t].fee] = [t \in TxIds |-> chain[t].fee]
    OBVIOUS
  <1>2. \A k : Held(k)' = Held(k)
    BY <1>1 DEF Held
  <1>3. \A k : Amount(balance', Merchant, k) = Amount(balance, Merchant, k)
    BY DEF Amount, HasBalance
  <1> QED
    BY <1>2, <1>3 DEF MerchantOK, Amount, HasBalance

LEMMA OthersBalance ==
    ASSUME BalancesOK, NEW b, b[Merchant] = balance[Merchant], DOMAIN b = Entities, NEW e \in Keys, NEW k, NEW d
    PROVE  /\ UpdateBalance(b, e, k, d)[Merchant] = balance[Merchant]
           /\ UpdateBalanceByID(b, e, k, d)[Merchant] = balance[Merchant]
           /\ DOMAIN UpdateBalance(b, e, k, d) = Entities
  <1>1. e # Merchant /\ Merchant \in Entities
    BY DEF Entities
  <1> QED
    BY <1>1 DEF UpdateBalance, UpdateBalanceByID, CreateBalance

\* The balances the goroutines change are the wallets'.
LEMMA WorkersBalance ==
    ASSUME SweepBooks, NEW w \in Workers,
           \/ Decrement(w) \/ UndoBalance(w) \/ ConfirmTx(w) \/ ChargeFee(w) \/ Restore(w)
    PROVE  balance'[Merchant] = balance[Merchant]
  <1>0. BalancesOK /\ SweepTypes /\ DOMAIN balance = Entities
    BY DEF SweepBooks, BalancesOK
  <1>1. PICK lent \in SUBSET TxIds, owing \in SUBSET TxIds : Booked(lent, owing)
    BY DEF SweepBooks
  <1>2. PICK l, t : l = work[w] /\ t = work[w].tx
    OBVIOUS
  <1>3. CASE Decrement(w) \/ UndoBalance(w)
    <2>1. l.from \in Keys
      BY <1>0, <1>1, <1>2, <1>3, Maker DEF Decrement, UndoBalance, Doing, Sending
    <2>2. \E k, d : balance' = UpdateBalanceByID(balance, l.from, k, d) \/ balance' = balance
      BY <1>2, <1>3 DEF Decrement, UndoBalance
    <2> QED
      BY <1>0, <2>1, <2>2, OthersBalance
  <1>4. CASE ConfirmTx(w) \/ ChargeFee(w) \/ Restore(w)
    <2>1. txs[t].from \in Keys /\ txs[t].to \in Keys
      <3>1. work[w].pc \in {"settle", "chargeFee", "restore"}
        BY <1>4 DEF ConfirmTx, ChargeFee, Restore, Doing
      <3>2. TxOK(t, lent, owing) /\ Following(work[w], txs[t], chain[t], balance, lent, owing)
        BY <1>0, <1>1, <1>2, <3>1, Follower DEF Checking
      <3> QED
        BY <3>1, <3>2 DEF TxOK, Following
    <2>2. PICK b : b = Credited(t)
      OBVIOUS
    <2>3. b[Merchant] = balance[Merchant] /\ DOMAIN b = Entities
      BY <1>0, <2>1, <2>2, OthersBalance DEF Credited
    <2>4. \/ \E d : balance' = UpdateBalance(b, txs[t].from, Coin, d)
          \/ \E k, d : balance' = UpdateBalance(balance, txs[t].from, k, d)
          \/ \E k, d : balance' = UpdateBalanceByID(balance, txs[t].from, k, d)
          \/ balance' = balance
      BY <1>2, <1>4, <2>2 DEF ConfirmTx, ChargeFee, Restore
    <2> QED
      BY <1>0, <2>1, <2>3, <2>4, OthersBalance
  <1> QED
    BY <1>3, <1>4

\* A goroutine makes a transaction of some amount, and sends it before there is a fee.
LEMMA WorkersTxs ==
    ASSUME SweepBooks, MerchantOK, NEW w \in Workers,
           \/ SignAndCreateTx(w) \/ SetHash(w) \/ UndoTx(w) \/ ConfirmTx(w) \/ FailTx(w)
    PROVE  \A t \in TxIds : txs'[t].amount \in Nat
  <1>0. SweepTypes /\ \A t \in TxIds : txs[t].amount \in Nat
    BY DEF SweepBooks, MerchantOK
  <1>1. PICK u : u = work[w].tx
    OBVIOUS
  <1>2. ASSUME SignAndCreateTx(w) PROVE \A t \in TxIds : txs'[t].amount \in Nat
    <2>1. PICK v \in TxIds : InsertTransaction(v, work[w]) /\ work[w].amount > 0
      BY <1>2 DEF SignAndCreateTx, validTransfer
    <2>2. work[w].amount \in Nat
      BY <1>0, <2>1 DEF SweepTypes, WorkRecord
    <2> QED
      BY <1>0, <2>1, <2>2 DEF InsertTransaction, SweepTypes
  <1>3. ASSUME \E s, h : txs' = [txs EXCEPT ![u].status = s] \/ txs' = [txs EXCEPT ![u].hash = h] \/ txs' = txs
        PROVE  \A t \in TxIds : txs'[t].amount \in Nat
    <2> SUFFICES ASSUME NEW t \in TxIds PROVE txs'[t].amount = txs[t].amount
      BY <1>0
    <2>1. txs \in [TxIds -> TxRecord] /\ txs[t] \in TxRecord
      BY <1>0 DEF SweepTypes
    <2> QED
      BY <1>3, <2>1 DEF TxRecord
  <1>4. ASSUME ~SignAndCreateTx(w)
        PROVE  \E s, h : txs' = [txs EXCEPT ![u].status = s] \/ txs' = [txs EXCEPT ![u].hash = h] \/ txs' = txs
    BY <1>1, <1>4 DEF SetHash, UndoTx, ConfirmTx, FailTx, CancelTransaction, UpdateTransaction
  <1> QED
    BY <1>2, <1>3, <1>4

LEMMA WorkersFees ==
    ASSUME SweepTypes, NEW w \in Workers, SignAndCreateTx(w) \/ Broadcast(w)
    PROVE  \A t \in TxIds : chain'[t].fee = chain[t].fee
  <1> SUFFICES ASSUME NEW t \in TxIds PROVE chain'[t].fee = chain[t].fee
    OBVIOUS
  <1>1. chain \in [TxIds -> ChainRecord] /\ chain[t] \in ChainRecord
    BY DEF SweepTypes
  <1>2. \E u, n : chain' = [chain EXCEPT ![u].nonce = n] \/ chain' = [chain EXCEPT ![u].state = n] \/ chain' = chain
    BY DEF SignAndCreateTx, Broadcast
  <1> QED
    BY <1>1, <1>2 DEF ChainRecord

LEMMA WorkerMerchant ==
    ASSUME SweepBooks, MerchantOK, NEW w \in Workers,
           \/ \E b \in todo : StartTransfer(w, b)
           \/ TakeNonce(w) \/ SignAndCreateTx(w) \/ Decrement(w) \/ Broadcast(w) \/ SetHash(w)
           \/ Error(w) \/ UndoNonce(w) \/ UndoTx(w) \/ UndoBalance(w)
           \/ \E t \in TxIds : StartCheck(w, t)
           \/ SettleNonce(w) \/ ConfirmTx(w) \/ ChargeFee(w) \/ FailTx(w) \/ Restore(w)
    PROVE  MerchantOK'
  <1>0. SweepTypes /\ \A t \in TxIds : txs[t].amount \in Nat
    BY DEF SweepBooks, MerchantOK
  <1>1. UNCHANGED <<operator, funds>>
    BY DEF StartTransfer, TakeNonce, SignAndCreateTx, Decrement, Broadcast, SetHash, Error, UndoNonce, UndoTx,
           UndoBalance, StartCheck, SettleNonce, ConfirmTx, ChargeFee, FailTx, Restore, network
  <1>2. \/ UNCHANGED balance \/ Decrement(w) \/ UndoBalance(w) \/ ConfirmTx(w) \/ ChargeFee(w) \/ Restore(w)
    BY DEF StartTransfer, TakeNonce, SignAndCreateTx, Broadcast, SetHash, Error, UndoNonce, UndoTx,
           StartCheck, SettleNonce, FailTx
  <1>3. \/ UNCHANGED txs \/ SignAndCreateTx(w) \/ SetHash(w) \/ UndoTx(w) \/ ConfirmTx(w) \/ FailTx(w)
    BY DEF StartTransfer, TakeNonce, Decrement, Broadcast, Error, UndoNonce, UndoBalance, StartCheck,
           SettleNonce, ChargeFee, Restore
  <1>4. UNCHANGED chain \/ SignAndCreateTx(w) \/ Broadcast(w)
    BY DEF StartTransfer, TakeNonce, Decrement, SetHash, Error, UndoNonce, UndoTx,
           UndoBalance, StartCheck, SettleNonce, ConfirmTx, ChargeFee, FailTx, Restore, network
  <1>5. balance'[Merchant] = balance[Merchant]
    BY <1>2, WorkersBalance
  <1>6. \A t \in TxIds : txs'[t].amount \in Nat
    BY <1>0, <1>3, WorkersTxs
  <1>7. \A t \in TxIds : chain'[t].fee = chain[t].fee
    BY <1>0, <1>4, WorkersFees
  <1> QED
    BY <1>1, <1>5, <1>6, <1>7, MerchantStays

\* A payment brings what it gives the merchant.
LEMMA PayMerchant ==
    ASSUME SweepBooks, OperatorOK, MerchantOK, "topup" \notin Faults,
           NEW i \in Keys, NEW k \in DOMAIN Arrives, Pay(i, k)
    PROVE  MerchantOK'
  <1>0. BalancesOK /\ SweepTypes
    BY DEF SweepBooks
  <1>1. /\ balance' = UpdateBalance(UpdateBalance(balance, i, k, Arrives[k]), Merchant, k, Shares[k])
        /\ funds' = [funds EXCEPT ![i][k] = @ + Arrives[k]]
        /\ operator.pc # "read" /\ UNCHANGED <<txs, operator, chain>>
    BY DEF Pay
  <1>2. PICK n \in Nat, m \in Nat : n = Arrives[k] /\ m = Shares[k] /\ m <= n
    OBVIOUS
  <1>3. k \in Tickers /\ i \in Entities /\ i # Merchant /\ Merchant \in Entities
        /\ balance \in [Entities -> TableRows]
    BY <1>0 DEF Entities, BalancesOK
  <1>4. PICK b : b = UpdateBalance(balance, i, k, n)
    OBVIOUS
  <1>5. Grows(balance, b, i, k, n) /\ b \in [Entities -> TableRows]
    BY <1>3, <1>4, UpdateFacts DEF Grows
  <1>6. Grows(b, balance', Merchant, k, m)
    BY <1>1, <1>2, <1>3, <1>4, <1>5, UpdateFacts
  <1>7. ASSUME NEW y \in Tickers
        PROVE  Amount(balance', Merchant, y) = Amount(balance, Merchant, y) + (IF y = k THEN m ELSE 0)
    <2>1. Amount(balance, Merchant, y) \in Int
      BY <1>3, AmountType
    <2>2. Amount(b, Merchant, y) = Amount(balance, Merchant, y) + 0
      BY <1>3, <1>5 DEF Grows
    <2>3. Amount(balance', Merchant, y) = Amount(b, Merchant, y) + (IF y = k THEN m ELSE 0)
      BY <1>3, <1>6 DEF Grows
    <2> QED
      BY <2>1, <2>2, <2>3
  <1>8. ASSUME NEW y \in Tickers PROVE Held(y)' = Held(y) + (IF y = k THEN n ELSE 0)
    <2>1. PICK f, g : f \in FundsType /\ f = funds /\ g = funds'
      BY <1>0 DEF BalancesOK, FundsType
    <2>2. Moves(f, g, i, k, n)
      BY <1>1, <1>2, <2>1 DEF Moves
    <2>3. Shifts(f, g, i, k, n)
      BY <1>3, <2>1, <2>2, FundsMove
    <2>4. Total(Column(g, y)) = Total(Column(f, y)) + (IF y = k THEN n ELSE 0)
      BY <1>3, <2>1, <2>3, TotalShifts
    <2>5. Column(f, y) = [x \in Keys |-> funds[x][y]] /\ Column(g, y) = [x \in Keys |-> funds'[x][y]]
      BY <2>1, <2>3 DEF Column, Shifts, FundsType
    <2>6. Column(f, y) \in [Keys -> Int] /\ [t \in TxIds |-> chain[t].fee] \in [TxIds -> Int]
      BY <1>0, <2>1, ColumnType, FeesType DEF FundsType
    <2>7. Total(Column(f, y)) \in Int /\ Total([t \in TxIds |-> chain[t].fee]) \in Int
      BY <2>6, TotalType, NumbersAreFinite
    <2> QED
      BY <1>1, <2>4, <2>5, <2>7 DEF Held
  <1>9. \A y \in Tickers : Held(y) \in Int /\ Amount(balance, Merchant, y) \in Int
    BY <1>0, <1>3, HeldType, AmountType
  <1>10. /\ \A t \in TxIds : txs'[t].amount \in Nat
         /\ \A y \in Tickers : Amount(balance', Merchant, y) <= Held(y)'
    <2>1. ASSUME NEW y \in Tickers PROVE Amount(balance', Merchant, y) <= Held(y)'
      <3>1. Amount(balance, Merchant, y) <= Held(y)
        BY DEF MerchantOK
      <3> QED
        BY <1>2, <1>7, <1>8, <1>9, <3>1
    <2> QED
      BY <1>1, <2>1 DEF MerchantOK
  <1>11. ASSUME operator.pc = "credit"
         PROVE  Amount(balance', Merchant, operator.ticker) + operator.amount <= Held(operator.ticker)'
    <2>1. PICK y \in Tickers, a \in Nat : y = operator.ticker /\ a = operator.amount
      BY DEF OperatorOK
    <2>2. Amount(balance, Merchant, y) + a <= Held(y)
      BY <1>11, <2>1 DEF MerchantOK
    <2>3. Amount(balance', Merchant, y) + a <= Held(y)'
      BY <1>2, <1>7, <1>8, <1>9, <2>2
    <2> QED
      BY <1>1, <2>1, <2>3 DEF Held
  <1> QED
    BY <1>1, <1>10, <1>11 DEF MerchantOK, Amount, HasBalance, Held

\* The fee a transaction has paid is no longer there, and is counted.
LEMMA MineMerchant ==
    ASSUME SweepBooks, OperatorOK, MerchantOK, NEW t \in TxIds, Mine(t) PROVE MerchantOK'
  <1>0. BalancesOK /\ SweepTypes
    BY DEF SweepBooks
  <1>1. PICK lent \in SUBSET TxIds, owing \in SUBSET TxIds : Booked(lent, owing)
    BY DEF SweepBooks
  <1>2. PICK r \in TxRecord, c \in ChainRecord : r = txs[t] /\ c = chain[t]
    BY <1>0 DEF SweepTypes
  <1>3. PICK verdict \in {"success", "reverted"}, fee \in Nat :
          LET pays == [funds EXCEPT ![r.from][Coin] = @ - fee]
              sends == [pays EXCEPT ![r.from][r.ticker] = @ - r.amount]
          IN  /\ chain' = [chain EXCEPT ![t].state = verdict, ![t].fee = fee]
              /\ funds' = IF verdict = "reverted" THEN pays
                          ELSE [sends EXCEPT ![r.to][r.ticker] = @ + r.amount]
    BY <1>2 DEF Mine
  <1>4. c.state = "pool" /\ UNCHANGED <<balance, txs, operator>>
    BY <1>2 DEF Mine
  <1>5. /\ r.from \in Keys /\ r.to \in Keys /\ c.fee = 0 /\ r.ticker \in Tickers /\ r.amount \in Int
    <2>1. TxOK(t, lent, owing)
      BY <1>1 DEF Booked, TxsOK
    <2> QED
      BY <1>2, <1>4, <2>1 DEF TxOK, TxRecord
  <1>6. Executes(r, verdict, fee)
    BY <1>0, <1>3, <1>5, MineFunds
  <1>7. PICK p \in [TxIds -> Int] : p = [u \in TxIds |-> chain[u].fee]
    BY <1>0, FeesType
  <1>8. PICK q \in [TxIds -> Int] : q = [u \in TxIds |-> chain'[u].fee] /\ q[t] = fee /\ \A u \in TxIds : u # t => q[u] = p[u]
    <2>1. ASSUME NEW u \in TxIds PROVE chain'[u].fee = IF u = t THEN fee ELSE chain[u].fee
      <3>1. chain \in [TxIds -> ChainRecord] /\ chain[u] \in ChainRecord
        BY <1>0 DEF SweepTypes
      <3> QED
        BY <1>3, <3>1 DEF ChainRecord
    <2>2. PICK q : q = [u \in TxIds |-> chain'[u].fee]
      OBVIOUS
    <2>3. q \in [TxIds -> Int] /\ q[t] = fee /\ \A u \in TxIds : u # t => q[u] = p[u]
      BY <1>7, <2>1, <2>2
    <2> QED
      BY <2>2, <2>3
  <1>9. Total(q) = Total(p) + fee /\ Total(p) \in Int
    <2>1. Total(q) = Total(p) + q[t] - p[t] /\ Total(p) \in Int
      BY <1>8, TotalChange, TotalType, NumbersAreFinite
    <2>2. p[t] = 0 /\ q[t] = fee
      BY <1>2, <1>5, <1>7, <1>8
    <2> QED
      BY <2>1, <2>2
  <1>10. ASSUME NEW y \in Tickers PROVE Held(y)' = Held(y)
    <2>1. /\ Column(funds, y) = [x \in Keys |-> funds[x][y]] /\ Column(funds', y) = [x \in Keys |-> funds'[x][y]]
      BY <1>0, <1>6 DEF Column, Executes, FundsType, BalancesOK
    <2>2. Total(Column(funds', y)) = Total(Column(funds, y)) - (IF y = Coin THEN fee ELSE 0)
      BY <1>6 DEF Executes
    <2>3. Total(Column(funds, y)) \in Int
      <3>1. Column(funds, y) \in [Keys -> Int]
        BY <1>0, ColumnType DEF BalancesOK
      <3> QED
        BY <3>1, TotalType, NumbersAreFinite
    <2>4. /\ Held(y) = Total(Column(funds, y)) + (IF y = Coin THEN Total(p) ELSE 0)
          /\ Held(y)' = Total(Column(funds', y)) + (IF y = Coin THEN Total(q) ELSE 0)
      BY <1>7, <1>8, <2>1 DEF Held
    <2> QED
      BY <1>9, <2>2, <2>3, <2>4
  <1>11. \A t2 \in TxIds : txs'[t2].amount \in Nat
    BY <1>4 DEF MerchantOK
  <1>12. operator.ticker \in Tickers
    BY DEF OperatorOK
  <1> QED
    BY <1>4, <1>10, <1>11, <1>12 DEF MerchantOK

\* The merchants' balances are counted, then the wallets', then the merchant's grows.
LEMMA TopUpMerchant ==
    ASSUME SweepBooks, OperatorOK, MerchantOK,
           (\E t \in TopUps : StartTopUp(t.ticker, t.amount)) \/ CheckSystemBalance \/ CreateSystemTopup
    PROVE  MerchantOK'
  <1>0. BalancesOK /\ SweepTypes /\ \A t \in TxIds : txs[t].amount \in Nat
    BY DEF SweepBooks, MerchantOK
  <1>1. UNCHANGED <<txs, funds, chain>>
    BY DEF StartTopUp, CheckSystemBalance, CreateSystemTopup, network
  <1>2. \A y : Held(y)' = Held(y)
    BY <1>1 DEF Held
  <1>3. \A y \in Tickers : Held(y) \in Int /\ Amount(balance, Merchant, y) \in Int /\ Amount(balance, Merchant, y) <= Held(y)
    BY <1>0, HeldType, AmountType DEF MerchantOK, BalancesOK, Entities
  <1>4. ASSUME NEW t \in TopUps, StartTopUp(t.ticker, t.amount) PROVE MerchantOK'
    <2>1. PICK k \in Tickers : k = t.ticker
      OBVIOUS
    <2>2. UNCHANGED balance /\ operator'.pc = "read" /\ operator'.ticker = k
          /\ operator'.owed = ListAllBalancesByType({Merchant}, k)
      BY <1>4, <2>1 DEF StartTopUp
    <2>3. ListAllBalancesByType({Merchant}, k) = Amount(balance, Merchant, k)
      <3>1. PICK f : f = [e \in {Merchant} |-> Amount(balance, e, k)]
        OBVIOUS
      <3>2. PICK n \in Int : n = Amount(balance, Merchant, k)
        BY <1>3
      <3>3. f \in [{Merchant} -> Int] /\ OnlyAt(f, Merchant, n) /\ IsFiniteSet({Merchant})
        BY <3>1, <3>2, FS_Singleton DEF OnlyAt
      <3>4. Total(f) = n
        BY <3>3, TotalOfOne
      <3> QED
        BY <3>1, <3>2, <3>4 DEF ListAllBalancesByType
    <2> QED
      BY <1>1, <1>2, <1>3, <2>2, <2>3 DEF MerchantOK, Amount, HasBalance
  <1>5. CASE CheckSystemBalance
    <2>1. PICK k \in Tickers, n \in Nat, o \in Int :
            k = operator.ticker /\ n = operator.amount /\ o = operator.owed
      BY DEF OperatorOK
    <2>2. /\ UNCHANGED balance /\ operator.pc = "read"
          /\ operator' = IF ListAllBalances(k, o) >= n /\ n > 0 THEN [operator EXCEPT !.pc = "credit"] ELSE NoTopUp
      BY <1>5, <2>1 DEF CheckSystemBalance
    <2>3. o = Amount(balance, Merchant, k)
      BY <2>1, <2>2 DEF MerchantOK
    <2>4. CASE ListAllBalances(k, o) >= n
      <3>1. PICK all \in Int : all = ListAllBalancesByType(Keys, k) /\ all <= Held(k)
        BY <1>0, WalletsHold
      <3>2. all - o >= n
        BY <2>4, <3>1 DEF ListAllBalances, composeSystemBalances
      <3>3. Amount(balance, Merchant, k) + n <= Held(k)
        BY <1>3, <2>3, <3>1, <3>2
      <3>4. \/ operator'.pc = "credit" /\ operator'.ticker = k /\ operator'.amount = n
            \/ operator'.pc = "idle"
        BY <2>1, <2>2 DEF OperatorOK, NoTopUp
      <3> QED
        BY <1>1, <1>2, <1>3, <2>2, <3>3, <3>4 DEF MerchantOK, Amount, HasBalance
    <2>5. CASE ~(ListAllBalances(k, o) >= n)
      <3>1. operator'.pc = "idle"
        BY <2>2, <2>5 DEF NoTopUp
      <3> QED
        BY <1>1, <1>2, <1>3, <2>2, <3>1 DEF MerchantOK, Amount, HasBalance
    <2> QED
      BY <2>4, <2>5
  <1>6. CASE CreateSystemTopup
    <2>1. PICK k \in Tickers, n \in Nat : k = operator.ticker /\ n = operator.amount
      BY DEF OperatorOK
    <2>2. /\ balance' = UpdateBalance(balance, Merchant, k, n) \/ UNCHANGED balance
          /\ operator.pc = "credit" /\ operator'.pc = "idle"
      BY <1>6, <2>1 DEF CreateSystemTopup, NoTopUp
    <2>3. Amount(balance, Merchant, k) + n <= Held(k)
      BY <2>1, <2>2 DEF MerchantOK
    <2>4. \A y \in Tickers : Amount(balance', Merchant, y) <= Held(y)
      <3>1. CASE UNCHANGED balance
        BY <1>3, <3>1
      <3>2. CASE balance' = UpdateBalance(balance, Merchant, k, n)
        <4>1. balance \in [Entities -> TableRows] /\ Merchant \in Entities
          BY <1>0 DEF BalancesOK, Entities
        <4>2. Grows(balance, balance', Merchant, k, n)
          BY <3>2, <4>1, UpdateFacts
        <4>3. ASSUME NEW y \in Tickers PROVE Amount(balance', Merchant, y) <= Held(y)
          <5>1. Amount(balance', Merchant, y) = Amount(balance, Merchant, y) + (IF y = k THEN n ELSE 0)
            BY <4>1, <4>2 DEF Grows
          <5> QED
            BY <1>3, <2>3, <5>1
        <4> QED
          BY <4>3
      <3> QED
        BY <2>2, <3>1, <3>2
    <2> QED
      BY <1>0, <1>1, <1>2, <2>2, <2>4 DEF MerchantOK, Amount, HasBalance
  <1> QED
    BY <1>4, <1>5, <1>6

LEMMA WalletsMerchant ==
    ASSUME SweepBooks, OperatorOK, MerchantOK, EnsureBalances, UNCHANGED <<txs, operator, network>> PROVE MerchantOK'
  <1>0. balance \in [Entities -> TableRows] /\ operator.ticker \in Tickers /\ Merchant \in Entities
    BY DEF SweepBooks, BalancesOK, OperatorOK, Entities
  <1>1. PICK b2 : b2 = balance'
    OBVIOUS
  <1>2. b2 = [e \in Entities |-> b2[e]] /\ \A e \in Entities : b2[e] \in {balance[e], EnsureBalance(balance[e])}
    BY <1>1 DEF EnsureBalances
  <1>3. Grows(balance, b2, 0, Coin, 0)
    BY <1>0, <1>2, EnsureFacts
  <1>4. \A k \in Tickers : Amount(balance', Merchant, k) = Amount(balance, Merchant, k)
    <2> SUFFICES ASSUME NEW k \in Tickers PROVE Amount(balance', Merchant, k) = Amount(balance, Merchant, k)
      OBVIOUS
    <2>1. Amount(balance, Merchant, k) \in Int
      BY <1>0, AmountType
    <2> QED
      BY <1>0, <1>1, <1>3, <2>1 DEF Grows
  <1>5. \A k : Held(k)' = Held(k)
    BY DEF Held, network
  <1> QED
    BY <1>0, <1>4, <1>5 DEF MerchantOK, Amount, HasBalance

LEMMA MerchantNextInv ==
    ASSUME SweepInv, MerchantOK, "topup" \notin Faults, [TransferNext]_sweepVars PROVE MerchantOK'
  <1>0. SweepBooks /\ OperatorOK /\ \A t \in TxIds : txs[t].amount \in Nat
    BY DEF SweepInv, MerchantOK
  <1>1. CASE UNCHANGED sweepVars \/ \E j \in Processes : Match(j)
    <2>1. UNCHANGED <<operator, funds, balance, txs, chain>>
      BY <1>1 DEF sweepVars, transferVars, Match, network
    <2> QED
      BY <1>0, <2>1, MerchantStays
  <1>2. CASE WalletsNext /\ EnsureBalances /\ UNCHANGED <<todo, txs, counters, work, operator, network>>
    BY <1>0, <1>2, WalletsMerchant
  <1>3. CASE \E w \in Workers :
               \/ \E b \in todo : StartTransfer(w, b)
               \/ TakeNonce(w) \/ SignAndCreateTx(w) \/ Decrement(w) \/ Broadcast(w) \/ SetHash(w)
               \/ Error(w) \/ UndoNonce(w) \/ UndoTx(w) \/ UndoBalance(w)
               \/ \E t \in TxIds : StartCheck(w, t)
               \/ SettleNonce(w) \/ ConfirmTx(w) \/ ChargeFee(w) \/ FailTx(w) \/ Restore(w)
    BY <1>0, <1>3, WorkerMerchant
  <1>4. CASE (\E t \in TopUps : StartTopUp(t.ticker, t.amount)) \/ CheckSystemBalance \/ CreateSystemTopup
    BY <1>0, <1>4, TopUpMerchant
  <1>5. CASE \E i \in Keys, k \in DOMAIN Arrives : Pay(i, k)
    BY <1>0, <1>5, PayMerchant
  <1>6. CASE \E t \in TxIds : Mine(t)
    BY <1>0, <1>6, MineMerchant
  <1> QED
    BY <1>1, <1>2, <1>3, <1>4, <1>5, <1>6 DEF TransferNext

LEMMA MerchantInitInv == ASSUME TransferInit PROVE MerchantOK
  <1>1. \A k : Amount(balance, Merchant, k) = 0
    BY DEF Amount, HasBalance, TransferInit, Entities
  <1>2. ASSUME NEW k \in Tickers PROVE Held(k) \in Nat
    <2>1. [i \in Keys |-> funds[i][k]] \in [Keys -> Nat]
      <3>1. ASSUME NEW i \in Keys PROVE funds[i][k] \in Nat
        <4>1. funds[i][k] = IF k \in DOMAIN Deposits[i] THEN Deposits[i][k] ELSE 0
          BY DEF TransferInit
        <4>2. k \in DOMAIN Deposits[i] => Deposits[i][k] \in Nat
          OBVIOUS
        <4> QED
          BY <4>1, <4>2
      <3> QED
        BY <3>1
    <2>2. [t \in TxIds |-> chain[t].fee] \in [TxIds -> Nat]
      BY DEF TransferInit, NotSent
    <2>3. Total([i \in Keys |-> funds[i][k]]) \in Nat /\ Total([t \in TxIds |-> chain[t].fee]) \in Nat
      BY <2>1, <2>2, TotalNat, NumbersAreFinite
    <2> QED
      BY <2>3 DEF Held
  <1>3. \A t \in TxIds : txs[t].amount \in Nat
    BY DEF TransferInit, NoTx
  <1>4. operator.pc = "idle"
    BY DEF TransferInit, NoTopUp
  <1> QED
    BY <1>1, <1>2, <1>3, <1>4 DEF MerchantOK

\* Whatever sweeps move, revert and roll back between its two reads, a top-up gives a
\* merchant only what no merchant owns: as long as no payment is confirmed between the
\* reads, merchants never own more than the chain holds, fees aside.
THEOREM TopUpsAreCovered ==
    ASSUME NEW CONSTANT rows, FirstRows(rows), "topup" \notin Faults
    PROVE  TransferSpec(rows) => []Solvent
  <1>1. TransferInit => MerchantOK
    BY MerchantInitInv
  <1>2. SweepInv /\ MerchantOK /\ [TransferNext]_sweepVars => MerchantOK'
    BY MerchantNextInv
  <1>3. MerchantOK => Solvent
    BY DEF MerchantOK, Solvent, Held
  <1> QED
    BY <1>1, <1>2, <1>3, SweepInvariant, PTL DEF TransferSpec

-----------------------------------------------------------------------------
(* Prices: what the proofs rest on *)

HIDE InternalTransferAssumption
HIDE SystemWalletsAssumption
HIDE KeyManagementAssumption

\* A rate the pair has had, or the fixed one without an API key.
Known(p, r) ==
    \/ online /\ p \in Pairs /\ r \in past[p]
    \/ ~online /\ {p[1], p[2]} \subseteq DOMAIN FixedRates /\ r = fallbackExchangeRate(p[2], p[1])

\* What is cached for a pair is a rate of that pair.
CacheOK(c) ==
    /\ c = [p \in Pairs |-> c[p]]
    /\ \A p \in Pairs : /\ c[p] = [left |-> c[p].left, rate |-> c[p].rate] /\ c[p].left \in Nat
                        /\ c[p].left > 0 => Known(p, c[p].rate) /\ IsFraction(c[p].rate)
MarketOK ==
    /\ past = [p \in Pairs |-> past[p]] /\ market = [p \in Pairs |-> market[p]]
    /\ \A p \in Pairs : market[p] \in past[p] /\ past[p] \subseteq Markets[p]

IsFiat(m) == /\ m = Money("fiat", m.ticker, m.value, FiatDecimals)
             /\ m.ticker \in Fiats /\ m.value \in Nat

\* A fair conversion at a known rate.
RateOf(desired, selected, r) ==
    \/ desired = selected /\ r = Fraction(1, 1)
    \/ desired # selected /\ Known(<<selected, desired>>, r)
Backed(from, to) ==
    \E r : /\ RateOf(IF to.type = "crypto" THEN from.ticker ELSE to.ticker,
                     NormalizeTicker(IF to.type = "crypto" THEN to.ticker ELSE from.ticker), r)
           /\ Fair(from, to, r)

\* What a fee in dollars pays for of what the network costs.
PaysFor(usd, cost) ==
    \E r : /\ RateOf(Usd, NormalizeTicker(cost.ticker), r)
           /\ (usd.value + 1) * r.den * 10^cost.decimals >= cost.value * r.num * 100

QuoteOK(q) ==
    /\ q.kind \in {"conversion", "priced", "method"} => Backed(q.from, q.to)
    /\ q.kind \in {"priced", "method"} => q.fee.value * ServiceFee.den <= q.to.value * ServiceFee.num
    /\ q.kind = "priced" => IsFiat(q.from)
    /\ q.kind = "method" => Backed(q.from, q.usd)
    /\ q.kind = "fee" => /\ IsFiat(q.usd) /\ q.usd.value >= 1
                         /\ q.of \in Live /\ q.held \in Nat /\ q.wanted \in Int
                         /\ q.usd.ticker = Usd /\ PaysFor(q.usd, q.cost)
    /\ q.kind \in {"offer", "withdrawal"} =>
         /\ IsFiat(q.usd) /\ q.usd.value >= 1 /\ q.usd.ticker = Usd /\ PaysFor(q.usd, q.cost)
         /\ \E c \in Live, t \in Nat : q.fee = Money("crypto", c.ticker, t, c.decimals)
         /\ Backed(q.usd, q.fee)
         /\ q.maximum.value > 0 => q.maximum.value + q.fee.value <= q.held
         /\ q.kind = "withdrawal" => q.wanted + q.fee.value <= q.held

PricesInv == MarketOK /\ CacheOK(rates) /\ QuoteOK(quote)

\* No rate is forgotten.
Later == online' = online /\ \A p \in Pairs : past[p] \subseteq past'[p]

-----------------------------------------------------------------------------
(* Prices: amounts *)

LEMMA DivFacts ==
    ASSUME NEW n \in Nat, NEW d \in Nat \ {0}
    PROVE  n \div d \in Nat /\ (n \div d) * d <= n /\ n < (n \div d) * d + d
  OBVIOUS

\* The product is cut, and loses one at most.
LEMMA CutFacts ==
    ASSUME NEW n \in Nat, NEW d \in Nat \ {0}, NEW v \in Cut(n, d)
    PROVE  v \in Nat /\ v * d <= n /\ n <= v * d + d
  <1>1. PICK q \in Nat : q = n \div d /\ q * d <= n /\ n < q * d + d
    BY DivFacts
  <1>2. CASE v = q
    BY <1>1, <1>2
  <1>3. CASE v # q
    <2>1. v = q - 1 /\ n % d = 0 /\ n > 0
      BY <1>1, <1>3 DEF Cut
    <2>2. q * d = n
      BY <1>1, <2>1
    <2>3. q > 0
      BY <2>1, <2>2
    <2>4. v \in Nat /\ v * d = q * d - d
      BY <2>1, <2>3
    <2> QED
      BY <2>2, <2>4
  <1> QED
    BY <1>2, <1>3

LEMMA FiatUnits == 10^FiatDecimals = 100
  BY DEF FiatDecimals

LEMMA MultiplyFacts ==
    ASSUME NEW type, NEW ticker, NEW value \in Nat, NEW decimals, NEW by, by.num \in Int, by.den \in Nat,
           NEW m \in MultiplyFloat64(Money(type, ticker, value, decimals), by), m # NoMoney
    PROVE  /\ by.num \in Nat \ {0} /\ by.den \in Nat \ {0} /\ m = Money(type, ticker, m.value, decimals)
           /\ m.value \in Nat /\ m.value * by.den <= value * by.num /\ value * by.num <= m.value * by.den + by.den
  <1>1. PICK x : x = Money(type, ticker, value, decimals)
    OBVIOUS
  <1>2. /\ by.num > 0 /\ by.den # 0
        /\ \E v \in Cut(x.value * by.num, by.den) : m = [x EXCEPT !.value = v]
    BY <1>1 DEF MultiplyFloat64
  <1>3. PICK v \in Cut(value * by.num, by.den) : m = [x EXCEPT !.value = v]
    BY <1>1, <1>2 DEF Money
  <1>4. m = Money(type, ticker, v, decimals) /\ m.value = v
    BY <1>1, <1>3 DEF Money
  <1>5. value * by.num \in Nat /\ by.den \in Nat \ {0}
    BY <1>2
  <1> QED
    BY <1>2, <1>3, <1>4, <1>5, CutFacts

-----------------------------------------------------------------------------
(* Prices: rates *)

\* Caching a rate of a pair under that pair keeps the cache right.
LEMMA CacheKept ==
    ASSUME NEW c, CacheOK(c), NEW p \in Pairs, NEW r, Known(p, r), IsFraction(r)
    PROVE  CacheOK([c EXCEPT ![p] = [left |-> RatesTTL, rate |-> r]])
  <1>1. PICK d : d = [c EXCEPT ![p] = [left |-> RatesTTL, rate |-> r]]
    OBVIOUS
  <1>2. RatesTTL \in Nat
    BY PricingAssumption
  <1>3. DOMAIN c = Pairs
    BY DEF CacheOK
  <1>4. d = [q \in Pairs |-> d[q]]
    BY <1>1, <1>3
  <1>5. ASSUME NEW q \in Pairs
        PROVE  /\ d[q] = [left |-> d[q].left, rate |-> d[q].rate] /\ d[q].left \in Nat
               /\ d[q].left > 0 => Known(q, d[q].rate) /\ IsFraction(d[q].rate)
    <2>1. CASE q = p
      <3>1. d[q] = [left |-> RatesTTL, rate |-> r]
        BY <1>1, <1>3, <2>1
      <3> QED
        BY <3>1, <1>2, <2>1
    <2>2. CASE q # p
      <3>1. d[q] = c[q]
        BY <1>1, <1>3, <2>2
      <3> QED
        BY <3>1 DEF CacheOK
    <2> QED
      BY <2>1, <2>2
  <1> QED
    BY <1>1, <1>4, <1>5 DEF CacheOK

LEMMA FallbackFacts ==
    ASSUME NEW s \in DOMAIN FixedRates, NEW d \in DOMAIN FixedRates
    PROVE  IsFraction(fallbackExchangeRate(d, s)) /\ fallbackExchangeRate(d, s).num > 0
  <1>1. PICK a \in Nat, b \in Nat, x \in Nat, y \in Nat :
           /\ a > 0 /\ b > 0 /\ x > 0 /\ y > 0
           /\ a = FixedRates[s].num /\ b = FixedRates[s].den /\ x = FixedRates[d].num /\ y = FixedRates[d].den
    BY PricingAssumption DEF IsFraction
  <1>2. a * y \in Nat /\ a * y > 0 /\ b * x \in Nat /\ b * x > 0
    BY <1>1
  <1>3. fallbackExchangeRate(d, s) = [num |-> a * y, den |-> b * x]
    BY <1>1 DEF fallbackExchangeRate, Fraction
  <1> QED
    BY <1>2, <1>3 DEF IsFraction

\* A lookup finds a rate of the pair, and the cache stays right.
LEMMA TatumFacts ==
    ASSUME NEW cached, CacheOK(cached), MarketOK, NEW desired \in Fiats, NEW selected, selected # desired,
           NEW o \in getTatumExchangeRate(cached, desired, selected)
    PROVE  /\ o = [ok |-> o.ok, rate |-> o.rate, cache |-> o.cache] /\ CacheOK(o.cache)
           /\ o.ok => Known(<<selected, desired>>, o.rate) /\ IsFraction(o.rate)
  <1> DEFINE key == <<selected, desired>>
             found(r) == [ok |-> TRUE, rate |-> r, cache |-> [cached EXCEPT ![key] = [left |-> RatesTTL, rate |-> r]]]
             error == [ok |-> FALSE, rate |-> NoRate, cache |-> cached]
  <1>1. ASSUME NEW r, key \in Pairs, Known(key, r), IsFraction(r), o = found(r)
        PROVE  /\ o = [ok |-> o.ok, rate |-> o.rate, cache |-> o.cache] /\ CacheOK(o.cache)
               /\ o.ok => Known(key, o.rate) /\ IsFraction(o.rate)
    <2>1. PICK d : d = [cached EXCEPT ![key] = [left |-> RatesTTL, rate |-> r]]
      OBVIOUS
    <2>2. CacheOK(d)
      BY <1>1, <2>1, CacheKept
    <2>3. o = [ok |-> TRUE, rate |-> r, cache |-> d]
      BY <1>1, <2>1
    <2> QED
      BY <2>2, <2>3, <1>1
  <1>2. CASE o = error
    BY <1>2
  <1>3. CASE key \in Pairs /\ cached[key].left > 0
    <2>1. o = found(cached[key].rate)
      BY <1>3 DEF getTatumExchangeRate, tatumRateCacheKey
    <2>2. Known(key, cached[key].rate) /\ IsFraction(cached[key].rate)
      BY <1>3 DEF CacheOK
    <2> QED
      BY <1>1, <1>3, <2>1, <2>2
  <1>4. CASE ~(key \in Pairs /\ cached[key].left > 0) /\ ~online
    <2>1. o = error \/ ({selected, desired} \subseteq DOMAIN FixedRates /\ o = found(fallbackExchangeRate(desired, selected)))
      BY <1>4 DEF getTatumExchangeRate, tatumRateCacheKey
    <2>2. CASE {selected, desired} \subseteq DOMAIN FixedRates /\ o = found(fallbackExchangeRate(desired, selected))
      <3>1. key \in Pairs
        BY <2>2, PricingAssumption
      <3>2. Known(key, fallbackExchangeRate(desired, selected))
        BY <1>4, <2>2 DEF Known
      <3>3. IsFraction(fallbackExchangeRate(desired, selected))
        BY <2>2, FallbackFacts
      <3> QED
        BY <1>1, <2>2, <3>1, <3>2, <3>3
    <2> QED
      BY <1>2, <2>1, <2>2
  <1>5. CASE ~(key \in Pairs /\ cached[key].left > 0) /\ online
    <2>1. o = error \/ (key \in Pairs /\ o = found(market[key]))
      BY <1>5 DEF getTatumExchangeRate, tatumRateCacheKey
    <2>2. CASE key \in Pairs /\ o = found(market[key])
      <3>1. Known(key, market[key])
        BY <2>2, <1>5 DEF Known, MarketOK
      <3>2. market[key] \in Offers
        BY <2>2 DEF MarketOK, Offers
      <3>3. IsFraction(market[key])
        BY <3>2, PricingAssumption
      <3> QED
        BY <1>1, <2>2, <3>1, <3>3
    <2> QED
      BY <1>2, <2>1, <2>2
  <1> QED
    BY <1>3, <1>4, <1>5

LEMMA TickerFacts ==
    ASSUME NEW c \in Currencies
    PROVE  c.ticker \notin Fiats /\ NormalizeTicker(c.ticker) \notin Fiats
  <1>1. PICK d : d = GetCurrencyByTicker(c.ticker)
    OBVIOUS
  <1>2. d \in Currencies
    BY <1>1 DEF GetCurrencyByTicker
  <1> QED
    BY <1>1, <1>2, PricingAssumption DEF NormalizeTicker

\* The rate of a conversion is one of its pair, reversed from fiat to crypto.
LEMMA FiatRate ==
    ASSUME NEW cached, CacheOK(cached), MarketOK, NEW from \in Fiats, NEW to \in Fiats,
           NEW o \in GetExchangeRate(cached, from, to)
    PROVE  /\ CacheOK(o.cache)
           /\ o.ok => RateOf(to, NormalizeTicker(from), o.rate) /\ IsFraction(o.rate)
  <1>1. CASE from = to
    <2>1. o = [ok |-> TRUE, rate |-> Fraction(1, 1), cache |-> cached]
      BY <1>1 DEF GetExchangeRate
    <2> QED
      BY <2>1, <1>1 DEF RateOf, NormalizeTicker, IsFraction, Fraction
  <1>2. CASE from # to
    <2>1. determineConversionType(from, to) = "fiatToFiat" /\ NormalizeTicker(from) = from
      BY DEF determineConversionType, NormalizeTicker
    <2>2. o \in getTatumExchangeRate(cached, to, from)
      BY <1>2, <2>1 DEF GetExchangeRate, PairOf
    <2>3. /\ CacheOK(o.cache)
          /\ o.ok => Known(<<from, to>>, o.rate) /\ IsFraction(o.rate)
      BY <1>2, <2>2, TatumFacts
    <2> QED
      BY <1>2, <2>1, <2>3 DEF RateOf
  <1> QED
    BY <1>1, <1>2

LEMMA CoinRate ==
    ASSUME NEW cached, CacheOK(cached), MarketOK, NEW c \in Currencies, NEW to \in Fiats,
           NEW o \in GetExchangeRate(cached, c.ticker, to)
    PROVE  /\ CacheOK(o.cache)
           /\ o.ok => RateOf(to, NormalizeTicker(c.ticker), o.rate) /\ IsFraction(o.rate)
  <1>1. PICK from : from = NormalizeTicker(c.ticker)
    OBVIOUS
  <1>2. from \notin Fiats /\ c.ticker \notin Fiats
    BY <1>1, TickerFacts
  <1>3. determineConversionType(c.ticker, to) = "cryptoToFiat" /\ c.ticker # to /\ from # to
    BY <1>2 DEF determineConversionType
  <1>4. o \in getTatumExchangeRate(cached, to, from)
    BY <1>1, <1>3 DEF GetExchangeRate, PairOf
  <1>5. /\ CacheOK(o.cache)
        /\ o.ok => Known(<<from, to>>, o.rate) /\ IsFraction(o.rate)
    BY <1>3, <1>4, TatumFacts
  <1> QED
    BY <1>1, <1>3, <1>5 DEF RateOf

LEMMA PriceRate ==
    ASSUME NEW cached, CacheOK(cached), MarketOK, NEW c \in Currencies, NEW from \in Fiats,
           NEW o \in GetExchangeRate(cached, from, c.ticker)
    PROVE  /\ CacheOK(o.cache)
           /\ o.ok => \E r : /\ RateOf(from, NormalizeTicker(c.ticker), r) /\ IsFraction(r)
                             /\ o.rate = Reversed(r)
  <1>1. PICK to : to = NormalizeTicker(c.ticker)
    OBVIOUS
  <1>2. to \notin Fiats /\ c.ticker \notin Fiats
    BY <1>1, TickerFacts
  <1>3. determineConversionType(from, c.ticker) = "fiatToCrypto" /\ c.ticker # from /\ from # to
    BY <1>2 DEF determineConversionType
  <1>4. PICK q \in getTatumExchangeRate(cached, from, to) :
           o = IF q.ok THEN [q EXCEPT !.rate = Reversed(q.rate)] ELSE q
    BY <1>1, <1>3 DEF GetExchangeRate, PairOf
  <1>5. /\ q = [ok |-> q.ok, rate |-> q.rate, cache |-> q.cache] /\ CacheOK(q.cache)
        /\ q.ok => Known(<<to, from>>, q.rate) /\ IsFraction(q.rate)
    BY <1>3, <1>4, TatumFacts
  <1>6. o.ok = q.ok /\ o.cache = q.cache /\ (q.ok => o.rate = Reversed(q.rate))
    BY <1>4, <1>5
  <1> QED
    BY <1>1, <1>3, <1>5, <1>6 DEF RateOf

-----------------------------------------------------------------------------
(* Prices: rounding *)

LEMMA FairFiat ==
    ASSUME NEW v \in Nat, NEW t \in Nat, NEW n \in Nat, NEW d \in Nat \ {0},
           t * d <= v * n, v * n <= t * d + d
    PROVE  /\ t * (d * 100) <= v * n * 100
           /\ (v * n * 100 - t * (d * 100)) * 1 <= 1 * (d * 100)
  <1>1. PICK a \in Nat, b \in Nat : a = t * d /\ b = v * n
    OBVIOUS
  <1>2. t * (d * 100) = 100 * a /\ v * n * 100 = 100 * b
    BY <1>1
  <1> QED
    BY <1>1, <1>2

LEMMA FairCrypto ==
    ASSUME NEW v \in Nat, NEW m \in Nat, NEW t \in Nat, NEW n \in Nat \ {0}, NEW d \in Nat, NEW e \in Nat,
           m * 100 <= e * v, e * v <= m * 100 + 100, t * n <= m * d, m * d <= t * n + n
    PROVE  /\ t * (n * 100) <= v * d * e
           /\ (v * d * e - t * (n * 100)) * n <= (n + d) * (n * 100)
  <1>1. PICK a \in Nat, b \in Nat, x \in Nat : a = t * n /\ b = m * d /\ x = v * d * e
    OBVIOUS
  <1>2. t * (n * 100) = 100 * a /\ x = (e * v) * d
    BY <1>1
  <1>3. (m * 100) * d = 100 * b /\ (m * 100 + 100) * d = 100 * b + 100 * d
    BY <1>1
  <1>4. 100 * b <= x /\ x <= 100 * b + 100 * d
    <2>1. PICK y \in Nat : y = e * v
      OBVIOUS
    <2>2. ASSUME NEW f \in Nat, NEW g \in Nat, f <= g PROVE f * d <= g * d
      BY <2>2
    <2>3. (m * 100) * d <= y * d /\ y * d <= (m * 100 + 100) * d
      BY <2>1, <2>2
    <2> QED
      BY <2>1, <2>3, <1>2, <1>3
  <1>5. 100 * a <= x /\ x - 100 * a <= 100 * n + 100 * d
    BY <1>1, <1>4
  <1>6. (x - 100 * a) * n <= (100 * n + 100 * d) * n
    <2>1. PICK f \in Nat, g \in Nat : f = x - 100 * a /\ g = 100 * n + 100 * d
      BY <1>5
    <2>2. f * n <= g * n
      BY <2>1, <1>5
    <2> QED
      BY <2>1, <2>2
  <1>7. (n + d) * (n * 100) = (100 * n + 100 * d) * n
    OBVIOUS
  <1> QED
    BY <1>1, <1>2, <1>5, <1>6, <1>7

LEMMA FairSale ==
    ASSUME NEW v \in Nat, NEW m \in Nat, NEW n \in Nat, NEW d \in Nat \ {0}, NEW e \in Nat \ {0},
           m * d <= v * (n * 100), v * (n * 100) <= m * d + d
    PROVE  /\ m \div e \in Nat
           /\ (m \div e) * (d * e) <= v * n * 100
           /\ (v * n * 100 - (m \div e) * (d * e)) * 1 <= 1 * (d * e)
  <1>1. PICK t \in Nat : t = m \div e /\ t * e <= m /\ m < t * e + e
    BY DivFacts
  <1>2. PICK a \in Nat, x \in Nat, y \in Nat, s \in Nat : a = t * e /\ x = v * n * 100 /\ y = m * d /\ s = d * e
    OBVIOUS
  <1>3. v * (n * 100) = x /\ a * d = t * s /\ (a + e) * d = t * s + s
    BY <1>2
  <1>4. a * d <= y
    BY <1>1, <1>2
  <1>5. (m + 1) * d <= (a + e) * d
    BY <1>1, <1>2
  <1>6. (m + 1) * d = y + d
    BY <1>2
  <1> QED
    BY <1>1, <1>2, <1>3, <1>4, <1>5, <1>6

-----------------------------------------------------------------------------
(* Prices: conversions *)

LEMMA ConversionFacts ==
    ASSUME NEW from, NEW o, NEW results, NEW x \in Conversions(from, o, results)
    PROVE  x.from = from /\ x.cache = o.cache /\ (x.to # NoMoney => o.ok /\ x.to \in results)
  BY DEF Conversions

LEMMA RejectedFacts ==
    ASSUME NEW cached, NEW from, NEW x \in Rejected(cached, from)
    PROVE  x.from = from /\ x.cache = cached /\ x.to = NoMoney
  BY DEF Rejected

LEMMA FiatIsFiat ==
    ASSUME NEW ticker \in Fiats, NEW v \in Nat
    PROVE  IsFiat(Money("fiat", ticker, v, FiatDecimals))
  BY DEF IsFiat, Money

LEMMA FiatToFiatFacts ==
    ASSUME NEW cached, CacheOK(cached), MarketOK, NEW from, IsFiat(from), NEW to \in Fiats,
           NEW x \in FiatToFiat(cached, from, to)
    PROVE  /\ CacheOK(x.cache) /\ x.from = from
           /\ x.to # NoMoney => IsFiat(x.to) /\ x.to.ticker = to /\ Backed(from, x.to)
  <1>1. PICK f \in Fiats, v \in Nat : from = Money("fiat", f, v, FiatDecimals)
    BY DEF IsFiat
  <1>2. from.ticker = f /\ from.value = v /\ from.type = "fiat" /\ from.decimals = FiatDecimals
    BY <1>1 DEF Money
  <1>3. PICK o \in GetExchangeRate(cached, f, to) :
          x \in Conversions(from, o, {IF m = NoMoney THEN NoMoney ELSE [m EXCEPT !.ticker = to] :
                                        m \in MultiplyFloat64(from, o.rate)})
    BY <1>2 DEF FiatToFiat
  <1>4. CacheOK(o.cache) /\ (o.ok => RateOf(to, NormalizeTicker(f), o.rate) /\ IsFraction(o.rate))
    BY <1>3, FiatRate
  <1>5. x.from = from /\ x.cache = o.cache
    BY <1>3, ConversionFacts
  <1>6. ASSUME x.to # NoMoney
        PROVE  IsFiat(x.to) /\ x.to.ticker = to /\ Backed(from, x.to)
    <2>1. o.ok /\ x.to \in {IF m = NoMoney THEN NoMoney ELSE [m EXCEPT !.ticker = to] :
                             m \in MultiplyFloat64(from, o.rate)}
      BY <1>3, <1>6, ConversionFacts
    <2>2. PICK m \in MultiplyFloat64(from, o.rate) : m # NoMoney /\ x.to = [m EXCEPT !.ticker = to]
      BY <2>1, <1>6
    <2>3. PICK n \in Nat, d \in Nat \ {0} : n = o.rate.num /\ d = o.rate.den
      BY <1>4, <2>1 DEF IsFraction
    <2>4. /\ m = Money("fiat", f, m.value, FiatDecimals) /\ m.value \in Nat
          /\ m.value * d <= v * n /\ v * n <= m.value * d + d
      BY <1>1, <2>2, <2>3, MultiplyFacts
    <2>5. PICK t \in Nat : t = m.value
      BY <2>4
    <2>6. x.to = Money("fiat", to, t, FiatDecimals)
      BY <2>2, <2>4, <2>5 DEF Money
    <2>7. IsFiat(x.to) /\ x.to.ticker = to /\ x.to.type = "fiat" /\ x.to.value = t /\ x.to.decimals = FiatDecimals
      BY <2>6, FiatIsFiat DEF Money
    <2>8. /\ t * (d * 100) <= v * n * 100
          /\ (v * n * 100 - t * (d * 100)) * 1 <= 1 * (d * 100)
      BY <2>4, <2>5, FairFiat
    <2>9. Fair(from, x.to, o.rate)
      BY <1>2, <2>3, <2>7, <2>8, FiatUnits DEF Fair, Fraction
    <2> QED
      BY <1>2, <1>4, <2>1, <2>7, <2>9 DEF Backed
  <1> QED
    BY <1>4, <1>5, <1>6

\* One coin, in units.
LEMMA OneCoin ==
    ASSUME NEW c \in Currencies, NEW one \in CryptoFromFloat64(c.ticker, Fraction(1, 1), c.decimals)
    PROVE  one = Money("crypto", c.ticker, 10^c.decimals, c.decimals)
  <1>1. PICK e \in Nat \ {0} : e = 10^c.decimals
    BY PricingAssumption
  <1>2. PICK v \in Cut(1 * e, 1) : one = Money("crypto", c.ticker, v, c.decimals)
    BY <1>1 DEF CryptoFromFloat64, Fraction
  <1>3. v = e
    BY <1>2 DEF Cut
  <1> QED
    BY <1>1, <1>2, <1>3

LEMMA FiatToCryptoFacts ==
    ASSUME NEW cached, CacheOK(cached), MarketOK, NEW from, IsFiat(from), NEW c \in Currencies,
           NEW x \in FiatToCrypto(cached, from, c)
    PROVE  /\ CacheOK(x.cache) /\ x.from = from
           /\ x.to # NoMoney => /\ \E t \in Nat : x.to = Money("crypto", c.ticker, t, c.decimals)
                                /\ Backed(from, x.to)
  <1>1. PICK f \in Fiats, v \in Nat : from = Money("fiat", f, v, FiatDecimals)
    BY DEF IsFiat
  <1>2. from.ticker = f /\ from.value = v /\ from.type = "fiat" /\ from.decimals = FiatDecimals
    BY <1>1 DEF Money
  <1>3. CASE x \in Rejected(cached, from)
    BY <1>3, RejectedFacts
  <1>4. CASE x \notin Rejected(cached, from)
    <2> DEFINE coins(o) == UNION {MultiplyFloat64(m, o.rate) :
                              m \in UNION {MultiplyFloat64(one, FiatToFloat64(from)) :
                                             one \in CryptoFromFloat64(c.ticker, Fraction(1, 1), c.decimals)}}
    <2>1. PICK o \in GetExchangeRate(cached, f, c.ticker) : x \in Conversions(from, o, coins(o))
      BY <1>2, <1>4 DEF FiatToCrypto
    <2>2. /\ CacheOK(o.cache)
          /\ o.ok => \E r : /\ RateOf(f, NormalizeTicker(c.ticker), r) /\ IsFraction(r)
                            /\ o.rate = Reversed(r)
      BY <2>1, PriceRate
    <2>3. x.from = from /\ x.cache = o.cache /\ (x.to # NoMoney => o.ok /\ x.to \in coins(o))
      <3> HIDE DEF coins
      <3> QED
        BY <2>1, ConversionFacts
    <2>4. ASSUME x.to # NoMoney
          PROVE  (\E t \in Nat : x.to = Money("crypto", c.ticker, t, c.decimals)) /\ Backed(from, x.to)
      <3>1. PICK one \in CryptoFromFloat64(c.ticker, Fraction(1, 1), c.decimals) :
              \E m \in MultiplyFloat64(one, FiatToFloat64(from)) : x.to \in MultiplyFloat64(m, o.rate)
        BY <2>3, <2>4
      <3>2. PICK e \in Nat \ {0} : e = 10^c.decimals
        BY PricingAssumption
      <3>3. one = Money("crypto", c.ticker, e, c.decimals)
        BY <3>1, <3>2, OneCoin
      <3>4. PICK m \in MultiplyFloat64(one, FiatToFloat64(from)) : x.to \in MultiplyFloat64(m, o.rate)
        BY <3>1
      <3>5. PICK g : g = FiatToFloat64(from)
        OBVIOUS
      <3>6. g.num = v /\ g.den = 100
        BY <1>2, <3>5, FiatUnits DEF FiatToFloat64, Fraction
      <3>7. m # NoMoney
        BY <3>4, <2>4 DEF MultiplyFloat64
      <3>8. /\ m = Money("crypto", c.ticker, m.value, c.decimals) /\ m.value \in Nat
            /\ m.value * 100 <= e * v /\ e * v <= m.value * 100 + 100
        BY <3>3, <3>4, <3>5, <3>6, <3>7, MultiplyFacts
      <3>9. PICK k \in Nat : k = m.value
        BY <3>8
      <3>10. PICK r : RateOf(f, NormalizeTicker(c.ticker), r) /\ IsFraction(r) /\ o.rate = Reversed(r)
        BY <2>2, <2>3, <2>4
      <3>11. PICK n \in Nat, d \in Nat \ {0} : n = r.num /\ d = r.den
        BY <3>10 DEF IsFraction
      <3>12. o.rate.num = d /\ o.rate.den = n
        BY <3>10, <3>11 DEF Reversed, Fraction
      <3>13. /\ n \in Nat \ {0} /\ x.to = Money("crypto", c.ticker, x.to.value, c.decimals) /\ x.to.value \in Nat
             /\ x.to.value * n <= k * d /\ k * d <= x.to.value * n + n
        BY <3>4, <3>8, <3>9, <3>11, <3>12, <2>4, MultiplyFacts
      <3>14. PICK t \in Nat : t = x.to.value
        BY <3>13
      <3>15. /\ t * (n * 100) <= v * d * e
             /\ (v * d * e - t * (n * 100)) * n <= (n + d) * (n * 100)
        BY <3>8, <3>9, <3>13, <3>14, FairCrypto
      <3>16. x.to.type = "crypto" /\ x.to.ticker = c.ticker /\ x.to.decimals = c.decimals
        BY <3>13 DEF Money
      <3>17. Fair(from, x.to, r)
        BY <1>2, <3>2, <3>11, <3>13, <3>14, <3>15, <3>16, FiatUnits DEF Fair, Fraction
      <3> QED
        BY <1>2, <3>10, <3>11, <3>13, <3>16, <3>17 DEF Backed
    <2> QED
      BY <2>2, <2>3, <2>4
  <1> QED
    BY <1>3, <1>4

LEMMA CryptoToFiatFacts ==
    ASSUME NEW cached, CacheOK(cached), MarketOK, NEW c \in Currencies, NEW v \in Nat,
           NEW from, from = Money("crypto", c.ticker, v, c.decimals), NEW to \in Fiats,
           NEW x \in CryptoToFiat(cached, from, to)
    PROVE  /\ CacheOK(x.cache) /\ x.from = from
           /\ x.to # NoMoney => /\ IsFiat(x.to) /\ x.to.ticker = to /\ Backed(from, x.to)
                                /\ to = Usd => PaysFor(x.to, from)
  <1>1. from.ticker = c.ticker /\ from.value = v /\ from.type = "crypto" /\ from.decimals = c.decimals
    BY DEF Money
  <1>2. PICK o \in GetExchangeRate(cached, c.ticker, to) : x \in Conversions(from, o, CryptoToFiatAt(from, to, o.rate))
    BY <1>1 DEF CryptoToFiat
  <1>3. CacheOK(o.cache) /\ (o.ok => RateOf(to, NormalizeTicker(c.ticker), o.rate) /\ IsFraction(o.rate))
    BY <1>2, CoinRate
  <1>4. x.from = from /\ x.cache = o.cache /\ (x.to # NoMoney => o.ok /\ x.to \in CryptoToFiatAt(from, to, o.rate))
    BY <1>2, ConversionFacts
  <1>5. ASSUME x.to # NoMoney
        PROVE  /\ IsFiat(x.to) /\ x.to.ticker = to /\ Backed(from, x.to)
               /\ to = Usd => PaysFor(x.to, from)
    <2>1. PICK e \in Nat \ {0} : e = 10^c.decimals
      BY PricingAssumption
    <2>2. PICK n \in Nat, d \in Nat \ {0} : n = o.rate.num /\ d = o.rate.den
      BY <1>3, <1>4, <1>5 DEF IsFraction
    <2>3. PICK g : g = Times(o.rate, 10^FiatDecimals)
      OBVIOUS
    <2>4. g.num = n * 100 /\ g.den = d /\ n * 100 \in Nat
      BY <2>2, <2>3, FiatUnits DEF Times, Fraction
    <2>5. PICK m \in MultiplyFloat64(from, g) :
            m # NoMoney /\ x.to = Money("fiat", to, m.value \div 10^m.decimals, FiatDecimals)
      BY <1>4, <1>5, <2>3 DEF CryptoToFiatAt
    <2>6. /\ m = Money("crypto", c.ticker, m.value, c.decimals) /\ m.value \in Nat
          /\ m.value * d <= v * (n * 100) /\ v * (n * 100) <= m.value * d + d
      BY <2>4, <2>5, MultiplyFacts
    <2>7. PICK k \in Nat : k = m.value
      BY <2>6
    <2>8. /\ k \div e \in Nat /\ (k \div e) * (d * e) <= v * n * 100
          /\ (v * n * 100 - (k \div e) * (d * e)) * 1 <= 1 * (d * e)
      BY <2>6, <2>7, FairSale
    <2>9. PICK t \in Nat : t = k \div e
      BY <2>8
    <2>10. m.decimals = c.decimals
      BY <2>6 DEF Money
    <2>11. x.to = Money("fiat", to, t, FiatDecimals)
      BY <2>1, <2>5, <2>7, <2>9, <2>10
    <2>12. IsFiat(x.to) /\ x.to.ticker = to /\ x.to.type = "fiat" /\ x.to.value = t /\ x.to.decimals = FiatDecimals
      BY <2>11, FiatIsFiat DEF Money
    <2>13. Fair(from, x.to, o.rate)
      BY <1>1, <2>1, <2>2, <2>8, <2>9, <2>12, FiatUnits DEF Fair, Fraction
    <2>14. RateOf(to, NormalizeTicker(c.ticker), o.rate)
      BY <1>3, <1>4, <1>5
    <2>15. Backed(from, x.to)
      BY <1>1, <2>12, <2>13, <2>14 DEF Backed
    <2>16. (t + 1) * d * e >= v * n * 100
      <3>1. PICK s \in Nat, y \in Nat, z \in Nat : s = d * e /\ y = v * n * 100 /\ z = t * s
        BY <2>1, <2>2
      <3>2. (t + 1) * d * e = z + s
        BY <3>1
      <3> QED
        BY <3>1, <3>2, <2>8, <2>9
    <2>17. to = Usd => PaysFor(x.to, from)
      BY <1>1, <2>1, <2>2, <2>12, <2>14, <2>16 DEF PaysFor
    <2> QED
      BY <2>12, <2>15, <2>17
  <1> QED
    BY <1>3, <1>4, <1>5

-----------------------------------------------------------------------------
(* Prices: steps *)

LEMMA KnownKept ==
    ASSUME Later, NEW p, NEW r, Known(p, r)
    PROVE  Known(p, r)'
  BY DEF Later, Known

LEMMA RateKept ==
    ASSUME Later, NEW desired, NEW selected, NEW r, RateOf(desired, selected, r)
    PROVE  RateOf(desired, selected, r)'
  BY KnownKept DEF RateOf

LEMMA BackedKept ==
    ASSUME Later, NEW from, NEW to, Backed(from, to)
    PROVE  Backed(from, to)'
  <1>1. PICK d : d = IF to.type = "crypto" THEN from.ticker ELSE to.ticker
    OBVIOUS
  <1>2. PICK s : s = NormalizeTicker(IF to.type = "crypto" THEN to.ticker ELSE from.ticker)
    OBVIOUS
  <1>3. PICK r : RateOf(d, s, r) /\ Fair(from, to, r)
    BY <1>1, <1>2 DEF Backed
  <1>4. RateOf(d, s, r)'
    BY <1>3, RateKept
  <1> QED
    BY <1>1, <1>2, <1>3, <1>4 DEF Backed

LEMMA PaysForKept ==
    ASSUME Later, NEW usd, NEW cost, PaysFor(usd, cost)
    PROVE  PaysFor(usd, cost)'
  <1>1. PICK s : s = NormalizeTicker(cost.ticker)
    OBVIOUS
  <1>2. PICK r : RateOf(Usd, s, r) /\ (usd.value + 1) * r.den * 10^cost.decimals >= cost.value * r.num * 100
    BY <1>1 DEF PaysFor
  <1>3. RateOf(Usd, s, r)'
    BY <1>2, RateKept
  <1> QED
    BY <1>1, <1>2, <1>3 DEF PaysFor

LEMMA QuoteKept ==
    ASSUME Later, NEW q, QuoteOK(q)
    PROVE  QuoteOK(q)'
  BY BackedKept, PaysForKept DEF QuoteOK

LEMMA RatesKept ==
    ASSUME Later, NEW c, CacheOK(c)
    PROVE  CacheOK(c)'
  BY KnownKept DEF CacheOK

\* A step that leaves the market alone: what it quotes and caches was right before it.
LEMMA Quotes ==
    ASSUME PricesInv, UNCHANGED <<online, market, past>>, NEW c, CacheOK(c), rates' = c,
           NEW q, QuoteOK(q), quote' = q
    PROVE  PricesInv'
  <1>1. Later
    BY DEF Later
  <1>2. CacheOK(c)' /\ QuoteOK(q)'
    BY <1>1, QuoteKept, RatesKept
  <1>3. CacheOK(rates)'
    BY <1>2 DEF CacheOK, Known
  <1>4. QuoteOK(quote)'
    BY <1>2 DEF QuoteOK, Backed, PaysFor
  <1>5. MarketOK'
    BY DEF PricesInv, MarketOK
  <1> QED
    BY <1>3, <1>4, <1>5 DEF PricesInv

LEMMA NoQuoteIsRight == QuoteOK(NoQuote)
  BY DEF QuoteOK, NoQuote

LEMMA AnswerStep ==
    ASSUME PricesInv, Answer
    PROVE  PricesInv'
  <1>1. PICK c : c = rates /\ CacheOK(c)
    BY DEF PricesInv
  <1> QED
    BY <1>1, Quotes, NoQuoteIsRight DEF Answer

LEMMA ResolveAssetStep ==
    ASSUME PricesInv, NEW on, NEW net, NEW asset, ResolveAsset(on, net, asset)
    PROVE  PricesInv'
  <1>1. PICK c : c = rates /\ CacheOK(c)
    BY DEF PricesInv
  <1>2. PICK q : q = quote'
    OBVIOUS
  <1>3. q = NoQuote \/ q.kind = "asset"
    BY <1>2 DEF ResolveAsset
  <1>4. QuoteOK(q)
    BY <1>3, NoQuoteIsRight DEF QuoteOK
  <1> QED
    BY <1>1, <1>2, <1>4, Quotes DEF ResolveAsset

LEMMA MoveStep ==
    ASSUME PricesInv, NEW pair \in Pairs, NEW rate \in Markets[pair], Move(pair, rate)
    PROVE  PricesInv'
  <1>1. /\ past = [p \in Pairs |-> past[p]] /\ market = [p \in Pairs |-> market[p]]
        /\ \A p \in Pairs : market[p] \in past[p] /\ past[p] \subseteq Markets[p]
    BY DEF PricesInv, MarketOK
  <1>2. /\ past' = [past EXCEPT ![pair] = past[pair] \cup {rate}] /\ market' = [market EXCEPT ![pair] = rate]
        /\ UNCHANGED <<online, rates, quote>>
    BY DEF Move
  <1>3. \A p \in Pairs : /\ past'[p] = (IF p = pair THEN past[p] \cup {rate} ELSE past[p])
                         /\ market'[p] = (IF p = pair THEN rate ELSE market[p])
    BY <1>1, <1>2
  <1>4. MarketOK'
    <2>1. past' = [p \in Pairs |-> past'[p]] /\ market' = [p \in Pairs |-> market'[p]]
      BY <1>1, <1>2
    <2>2. \A p \in Pairs : market'[p] \in past'[p] /\ past'[p] \subseteq Markets[p]
      BY <1>1, <1>3
    <2> QED
      BY <2>1, <2>2 DEF MarketOK
  <1>5. Later
    BY <1>2, <1>3 DEF Later
  <1>6. PICK c, q : c = rates /\ CacheOK(c) /\ q = quote /\ QuoteOK(q)
    BY DEF PricesInv
  <1>7. CacheOK(c)' /\ QuoteOK(q)' /\ rates' = c /\ quote' = q
    BY <1>2, <1>5, <1>6, QuoteKept, RatesKept
  <1>8. CacheOK(rates)'
    BY <1>7 DEF CacheOK, Known
  <1>9. QuoteOK(quote)'
    BY <1>7 DEF QuoteOK, Backed, PaysFor
  <1> QED
    BY <1>4, <1>8, <1>9 DEF PricesInv

LEMMA RatesExpireStep ==
    ASSUME PricesInv, RatesExpire
    PROVE  PricesInv'
  <1>1. PICK c : c = [p \in Pairs |-> IF rates[p].left <= 1 THEN Forgotten
                                      ELSE [rates[p] EXCEPT !.left = rates[p].left - 1]]
    OBVIOUS
  <1>2. rates' = c
    BY <1>1 DEF RatesExpire
  <1>3. PICK q : q = quote /\ QuoteOK(q)
    BY DEF PricesInv
  <1>4. c = [p \in Pairs |-> c[p]]
    BY <1>1
  <1>5. ASSUME NEW p \in Pairs
        PROVE  /\ c[p] = [left |-> c[p].left, rate |-> c[p].rate] /\ c[p].left \in Nat
               /\ c[p].left > 0 => Known(p, c[p].rate) /\ IsFraction(c[p].rate)
    <2>1. /\ rates[p] = [left |-> rates[p].left, rate |-> rates[p].rate] /\ rates[p].left \in Nat
          /\ rates[p].left > 0 => Known(p, rates[p].rate) /\ IsFraction(rates[p].rate)
      BY DEF PricesInv, CacheOK
    <2>2. CASE rates[p].left <= 1
      <3>1. c[p] = [left |-> 0, rate |-> NoRate]
        BY <1>1, <2>2 DEF Forgotten
      <3> QED
        BY <3>1
    <2>3. CASE ~(rates[p].left <= 1)
      <3>1. c[p] = [rates[p] EXCEPT !.left = rates[p].left - 1]
        BY <1>1, <2>3
      <3>2. c[p] = [left |-> rates[p].left - 1, rate |-> rates[p].rate]
        BY <2>1, <3>1
      <3> QED
        BY <2>1, <2>3, <3>2
    <2> QED
      BY <2>2, <2>3
  <1>6. CacheOK(c)
    BY <1>4, <1>5 DEF CacheOK
  <1> QED
    BY <1>2, <1>3, <1>6, Quotes DEF RatesExpire

LEMMA CurrencyFacts ==
    ASSUME NEW c \in Currencies
    PROVE  GetCurrencyByTicker(c.ticker) \in Currencies /\ GetCurrencyByTicker(c.ticker).ticker = c.ticker
  BY DEF GetCurrencyByTicker

LEMMA ParsedFiat ==
    ASSUME NEW from \in Fiats, NEW amount, IsFraction(amount), NEW m \in Parsed(from, amount), m # NoMoney
    PROVE  IsFiat(m) /\ m.ticker = from
  <1>1. PICK n \in Nat, d \in Nat \ {0} : n = amount.num /\ d = amount.den
    BY DEF IsFraction
  <1>2. PICK v \in Cut(n * 100, d) : m = Money("fiat", from, v, FiatDecimals)
    BY <1>1 DEF Parsed, FiatFromFloat64
  <1>3. n * 100 \in Nat
    BY <1>1
  <1>4. v \in Nat
    BY <1>2, <1>3, CutFacts
  <1> QED
    BY <1>2, <1>4, FiatIsFiat DEF Money

LEMMA ParsedCrypto ==
    ASSUME NEW c \in Currencies, NEW amount, IsFraction(amount), NEW m \in Parsed(c.ticker, amount), m # NoMoney
    PROVE  \E d \in Currencies, v \in Nat : d.ticker = c.ticker /\ m = Money("crypto", d.ticker, v, d.decimals)
  <1>1. PICK n \in Nat, d \in Nat \ {0} : n = amount.num /\ d = amount.den
    BY DEF IsFraction
  <1>2. PICK g : g = GetCurrencyByTicker(c.ticker)
    OBVIOUS
  <1>3. g \in Currencies /\ g.ticker = c.ticker /\ c.ticker \notin Fiats
    BY <1>2, CurrencyFacts, TickerFacts
  <1>4. PICK e \in Nat \ {0} : e = 10^g.decimals
    BY <1>3, PricingAssumption
  <1>5. PICK v \in Cut(n * e, d) : m = Money("crypto", c.ticker, v, g.decimals)
    BY <1>1, <1>2, <1>3, <1>4 DEF Parsed, CryptoFromFloat64
  <1>6. n * e \in Nat
    BY <1>1, <1>4
  <1>7. v \in Nat
    BY <1>5, <1>6, <1>1, CutFacts
  <1> QED
    BY <1>3, <1>5, <1>7

LEMMA ConvertedFacts ==
    ASSUME NEW cached, CacheOK(cached), MarketOK, NEW amount, IsFraction(amount),
           NEW from \in Fiats \cup {c.ticker : c \in Currencies}, NEW to \in Fiats \cup {c.ticker : c \in Currencies},
           NEW x \in ConvertResults(cached, from, to, amount)
    PROVE  CacheOK(x.cache) /\ (x.to # NoMoney => Backed(x.from, x.to))
  <1>1. PICK m \in Parsed(from, amount) : x \in Converted(cached, determineConversionType(from, to), m, to)
    BY DEF ConvertResults
  <1>2. CASE x \in Rejected(cached, m)
    BY <1>2, RejectedFacts
  <1>3. CASE x \notin Rejected(cached, m) /\ from \in Fiats /\ to \in Fiats
    <2>1. m # NoMoney /\ x \in FiatToFiat(cached, m, to)
      BY <1>1, <1>3 DEF Converted, determineConversionType
    <2>2. IsFiat(m)
      BY <1>1, <1>3, <2>1, ParsedFiat
    <2> QED
      BY <1>3, <2>1, <2>2, FiatToFiatFacts
  <1>4. CASE x \notin Rejected(cached, m) /\ from \in Fiats /\ to \notin Fiats
    <2>1. PICK g : g = GetCurrencyByTicker(to)
      OBVIOUS
    <2>2. m # NoMoney /\ x \in FiatToCrypto(cached, m, g)
      BY <1>1, <1>4, <2>1 DEF Converted, determineConversionType
    <2>3. IsFiat(m)
      BY <1>1, <1>4, <2>2, ParsedFiat
    <2>4. g \in Currencies
      BY <1>4, <2>1, CurrencyFacts
    <2> QED
      BY <2>2, <2>3, <2>4, FiatToCryptoFacts
  <1>5. CASE x \notin Rejected(cached, m) /\ from \notin Fiats /\ to \in Fiats
    <2>1. m # NoMoney /\ x \in CryptoToFiat(cached, m, to)
      BY <1>1, <1>5 DEF Converted, determineConversionType
    <2>2. PICK d \in Currencies, v \in Nat : m = Money("crypto", d.ticker, v, d.decimals)
      BY <1>1, <1>5, <2>1, ParsedCrypto
    <2> QED
      BY <1>5, <2>1, <2>2, CryptoToFiatFacts
  <1>6. CASE from \notin Fiats /\ to \notin Fiats
    BY <1>1, <1>6, RejectedFacts DEF Converted, determineConversionType
  <1> QED
    BY <1>2, <1>3, <1>4, <1>5, <1>6

LEMMA ConvertStep ==
    ASSUME PricesInv, NEW amount \in Prices,
           NEW from \in Fiats \cup {c.ticker : c \in Currencies}, NEW to \in Fiats \cup {c.ticker : c \in Currencies},
           Convert(from, to, amount)
    PROVE  PricesInv'
  <1>1. PICK x \in ConvertResults(rates, from, to, amount) :
          /\ rates' = x.cache
          /\ quote' = IF x.to = NoMoney THEN NoQuote ELSE [kind |-> "conversion", from |-> x.from, to |-> x.to]
    BY DEF Convert
  <1>2. IsFraction(amount)
    BY PricingAssumption
  <1>3. CacheOK(x.cache) /\ (x.to # NoMoney => Backed(x.from, x.to))
    BY <1>1, <1>2, ConvertedFacts DEF PricesInv
  <1>4. PICK q : q = IF x.to = NoMoney THEN NoQuote ELSE [kind |-> "conversion", from |-> x.from, to |-> x.to]
    OBVIOUS
  <1>5. QuoteOK(q)
    <2>1. CASE x.to = NoMoney
      BY <1>4, <2>1, NoQuoteIsRight
    <2>2. CASE x.to # NoMoney
      <3>1. q.kind = "conversion" /\ q.from = x.from /\ q.to = x.to
        BY <1>4, <2>2
      <3> QED
        BY <1>3, <2>2, <3>1 DEF QuoteOK
    <2> QED
      BY <2>1, <2>2
  <1> QED
    BY <1>1, <1>3, <1>4, <1>5, Quotes DEF Convert

LEMMA PriceMethodStep ==
    ASSUME PricesInv, NEW price, IsFiat(price), NEW c \in Currencies, PriceMethod(price, c)
    PROVE  PricesInv'
  <1>1. PICK x \in FiatToCrypto(rates, price, c) : \E fee \in MultiplyFloat64(x.to, ServiceFee) :
          /\ rates' = x.cache
          /\ quote' = IF NoMoney \in {x.to, fee} THEN NoQuote
                      ELSE [kind |-> "priced", from |-> price, to |-> x.to, fee |-> fee]
    BY DEF PriceMethod
  <1>2. PICK fee \in MultiplyFloat64(x.to, ServiceFee) :
          /\ rates' = x.cache
          /\ quote' = IF NoMoney \in {x.to, fee} THEN NoQuote
                      ELSE [kind |-> "priced", from |-> price, to |-> x.to, fee |-> fee]
    BY <1>1
  <1>3. /\ CacheOK(x.cache)
        /\ x.to # NoMoney => /\ \E t \in Nat : x.to = Money("crypto", c.ticker, t, c.decimals)
                             /\ Backed(price, x.to)
    BY <1>1, FiatToCryptoFacts DEF PricesInv
  <1>4. PICK q : q = IF NoMoney \in {x.to, fee} THEN NoQuote
                     ELSE [kind |-> "priced", from |-> price, to |-> x.to, fee |-> fee]
    OBVIOUS
  <1>5. QuoteOK(q)
    <2>1. CASE NoMoney \in {x.to, fee}
      BY <1>4, <2>1, NoQuoteIsRight
    <2>2. CASE NoMoney \notin {x.to, fee}
      <3>1. q.kind = "priced" /\ q.from = price /\ q.to = x.to /\ q.fee = fee
        BY <1>4, <2>2
      <3>2. PICK t \in Nat : x.to = Money("crypto", c.ticker, t, c.decimals)
        BY <1>3, <2>2
      <3>3. x.to.value = t /\ ServiceFee.num \in Int /\ ServiceFee.den \in Nat
        BY <3>2, PricingAssumption DEF Money, IsFraction
      <3>4. fee.value * ServiceFee.den <= t * ServiceFee.num
        BY <1>2, <2>2, <3>2, <3>3, MultiplyFacts
      <3> QED
        BY <1>3, <2>2, <3>1, <3>3, <3>4 DEF QuoteOK
    <2> QED
      BY <2>1, <2>2
  <1> QED
    BY <1>2, <1>3, <1>4, <1>5, Quotes DEF PriceMethod

LEMMA PriceInUSDStep ==
    ASSUME PricesInv, PriceInUSD
    PROVE  PricesInv'
  <1>1. PICK p : p = quote /\ QuoteOK(p) /\ p.kind = "priced"
    BY DEF PricesInv, PriceInUSD
  <1>2. PICK x \in FiatToFiat(rates, p.from, Usd) :
          /\ rates' = x.cache
          /\ quote' = IF x.to = NoMoney THEN NoQuote
                      ELSE [kind |-> "method", from |-> p.from, to |-> p.to, fee |-> p.fee, usd |-> x.to]
    BY <1>1 DEF PriceInUSD
  <1>3. IsFiat(p.from) /\ Backed(p.from, p.to) /\ p.fee.value * ServiceFee.den <= p.to.value * ServiceFee.num
    BY <1>1 DEF QuoteOK
  <1>4. Usd \in Fiats
    BY PricingAssumption
  <1>5. CacheOK(x.cache) /\ (x.to # NoMoney => Backed(p.from, x.to))
    BY <1>2, <1>3, <1>4, FiatToFiatFacts DEF PricesInv
  <1>6. PICK q : q = IF x.to = NoMoney THEN NoQuote
                     ELSE [kind |-> "method", from |-> p.from, to |-> p.to, fee |-> p.fee, usd |-> x.to]
    OBVIOUS
  <1>7. QuoteOK(q)
    <2>1. CASE x.to = NoMoney
      BY <1>6, <2>1, NoQuoteIsRight
    <2>2. CASE x.to # NoMoney
      <3>1. q.kind = "method" /\ q.from = p.from /\ q.to = p.to /\ q.fee = p.fee /\ q.usd = x.to
        BY <1>6, <2>2
      <3> QED
        BY <1>3, <1>5, <2>2, <3>1 DEF QuoteOK
    <2> QED
      BY <2>1, <2>2
  <1> QED
    BY <1>2, <1>5, <1>6, <1>7, Quotes DEF PriceInUSD

\* What the network costs is an amount of the chain's own coin.
LEMMA GasCost ==
    ASSUME NEW c \in Live, NEW n \in Nat \ {0}, NEW d \in Nat \ {0}, NEW gasPrice \in Nat, NEW tip \in Nat,
           NEW native \in Currencies, native = GetNativeCoin(c.chain),
           NEW cost \in gasCost(c, Fraction(n, d), gasPrice, tip), cost # NoMoney
    PROVE  \E v \in Nat : cost = Money("crypto", native.ticker, v, native.decimals)
  <1> DEFINE amount(k) == Money("crypto", native.ticker, k, native.decimals)
  <1>1. PICK raised \in MultiplyFloat64(amount(gasPrice), Fraction(n, d)) :
          cost \in MultiplyFloat64(Add(raised, amount(tip)), Fraction(Gas[c.type], 1))
    BY DEF gasCost
  <1>2. PICK f : f = Fraction(n, d)
    OBVIOUS
  <1>3. f.num = n /\ f.den = d
    BY <1>2 DEF Fraction
  <1>4. amount(gasPrice) # NoMoney
    BY DEF Money, NoMoney
  <1>5. raised # NoMoney
    <2>1. PICK a : a = amount(gasPrice)
      OBVIOUS
    <2>2. PICK v : raised = [a EXCEPT !.value = v]
      BY <1>1, <1>2, <1>3, <1>4, <2>1 DEF MultiplyFloat64
    <2>3. raised.type = "crypto"
      BY <2>1, <2>2 DEF Money
    <2>4. NoMoney.type = "error"
      BY DEF NoMoney, Money
    <2> QED
      BY <2>3, <2>4
  <1>6. raised = Money("crypto", native.ticker, raised.value, native.decimals) /\ raised.value \in Nat
    BY <1>1, <1>2, <1>3, <1>5, MultiplyFacts
  <1>7. PICK k \in Nat : k = raised.value
    BY <1>6
  <1>8. Add(raised, amount(tip)) = Money("crypto", native.ticker, k + tip, native.decimals) /\ k + tip \in Nat
    BY <1>6, <1>7 DEF Add, CompatibleTo, Money
  <1>9. PICK g : g = Fraction(Gas[c.type], 1)
    OBVIOUS
  <1>10. g.num \in Int /\ g.den \in Nat
    <2>1. c.type \in {"coin", "token"}
      BY PricingAssumption DEF Live, DefaultSetup
    <2>2. Gas[c.type] \in Nat
      BY <2>1, PricingAssumption
    <2> QED
      BY <1>9, <2>2 DEF Fraction
  <1>11. cost = Money("crypto", native.ticker, cost.value, native.decimals) /\ cost.value \in Nat
    BY <1>1, <1>8, <1>9, <1>10, MultiplyFacts
  <1> QED
    BY <1>11

LEMMA CostFacts ==
    ASSUME NEW c \in Live, NEW gasPrice \in Nat, NEW tip \in Nat, NEW cost \in CalculateFee(c, gasPrice, tip), cost # NoMoney
    PROVE  \E native \in Currencies, v \in Nat : cost = Money("crypto", native.ticker, v, native.decimals)
  <1>1. PICK native \in Currencies : native = GetNativeCoin(c.chain)
    BY PricingAssumption
  <1>2. c.chain \in {"ETH", "MATIC", "BSC", "TRON"} /\ c.type \in {"coin", "token"}
    BY PricingAssumption DEF Live, DefaultSetup
  <1>3. CASE c.chain = "ETH"
    <2>1. cost \in gasCost(c, Fraction(23, 20), gasPrice, tip)
      BY <1>3 DEF CalculateFee, ethFee
    <2> QED
      BY <1>1, <2>1, GasCost
  <1>4. CASE c.chain \in {"MATIC", "BSC"}
    <2>1. cost \in gasCost(c, Fraction(11, 10), gasPrice, tip)
      BY <1>4 DEF CalculateFee, maticFee, bscFee
    <2> QED
      BY <1>1, <2>1, GasCost
  <1>5. CASE c.chain = "TRON"
    <2>1. cost = Money("crypto", native.ticker, TronFees[c.type], native.decimals)
      BY <1>1, <1>5 DEF CalculateFee, tronFee
    <2>2. TronFees[c.type] \in Nat
      BY <1>2, PricingAssumption
    <2> QED
      BY <2>1, <2>2
  <1> QED
    BY <1>2, <1>3, <1>4, <1>5

\* Rounding the fee up to a cent keeps it enough.
LEMMA CentFacts ==
    ASSUME NEW usd, IsFiat(usd), NEW cost, cost.value \in Nat, 10^cost.decimals \in Nat, PaysFor(usd, cost),
           \A r : RateOf(Usd, NormalizeTicker(cost.ticker), r) => IsFraction(r)
    PROVE  LET cents == atLeastOneCent(usd)
           IN  IsFiat(cents) /\ cents.ticker = usd.ticker /\ cents.value >= 1 /\ PaysFor(cents, cost)
  <1>1. CASE usd.value = 0
    <2>1. PICK cents : cents = atLeastOneCent(usd)
      OBVIOUS
    <2>2. PICK f \in Fiats : usd = Money("fiat", f, 0, FiatDecimals) /\ usd.ticker = f
      BY <1>1 DEF IsFiat
    <2>3. cents = Money("fiat", f, 1, FiatDecimals)
      BY <1>1, <2>1, <2>2 DEF atLeastOneCent, Money
    <2>4. IsFiat(cents) /\ cents.ticker = usd.ticker /\ cents.value = 1
      BY <2>2, <2>3, FiatIsFiat DEF Money
    <2>5. PICK r : /\ RateOf(Usd, NormalizeTicker(cost.ticker), r)
                   /\ (usd.value + 1) * r.den * 10^cost.decimals >= cost.value * r.num * 100
      BY DEF PaysFor
    <2>6. PICK n \in Nat, d \in Nat, e \in Nat, v \in Nat : n = r.num /\ d = r.den /\ e = 10^cost.decimals /\ v = cost.value
      BY <2>5 DEF IsFraction
    <2>7. (1 + 1) * d * e >= v * n * 100
      <3>1. PICK s \in Nat, y \in Nat : s = d * e /\ y = v * n * 100
        OBVIOUS
      <3>2. (0 + 1) * d * e >= y
        BY <1>1, <2>5, <2>6, <3>1
      <3>3. (0 + 1) * d * e = s /\ (1 + 1) * d * e = s + s
        BY <3>1
      <3> QED
        BY <3>1, <3>2, <3>3
    <2>8. PaysFor(cents, cost)
      BY <2>4, <2>5, <2>6, <2>7 DEF PaysFor
    <2> QED
      BY <2>1, <2>4, <2>8
  <1>2. CASE usd.value # 0
    BY <1>2 DEF atLeastOneCent, IsFiat
  <1> QED
    BY <1>1, <1>2

LEMMA KnownFraction ==
    ASSUME MarketOK, NEW desired, NEW selected, NEW r, RateOf(desired, selected, r)
    PROVE  IsFraction(r)
  <1>1. CASE r = Fraction(1, 1)
    BY <1>1 DEF Fraction, IsFraction
  <1>2. CASE Known(<<selected, desired>>, r) /\ online
    <2>1. r \in Offers
      BY <1>2 DEF Known, MarketOK, Offers
    <2> QED
      BY <2>1, PricingAssumption
  <1>3. CASE Known(<<selected, desired>>, r) /\ ~online
    BY <1>3, FallbackFacts DEF Known
  <1> QED
    BY <1>1, <1>2, <1>3 DEF RateOf

LEMMA WithdrawalFeeUSDStep ==
    ASSUME PricesInv, NEW c \in Live, NEW held \in Nat, NEW wanted \in Int, CalculateWithdrawalFeeUSD(c, held, wanted)
    PROVE  PricesInv'
  <1>1. PICK gasPrice \in GasPrices, tip \in Tips : \E cost \in CalculateFee(c, gasPrice, tip) :
          \E x \in CryptoToFiat(rates, cost, Usd) :
            /\ rates' = x.cache
            /\ quote' = IF x.to = NoMoney THEN NoQuote
                        ELSE [kind |-> "fee", cost |-> cost, usd |-> atLeastOneCent(x.to),
                              of |-> c, held |-> held, wanted |-> wanted]
    BY DEF CalculateWithdrawalFeeUSD
  <1>2. PICK cost \in CalculateFee(c, gasPrice, tip) :
          \E x \in CryptoToFiat(rates, cost, Usd) :
            /\ rates' = x.cache
            /\ quote' = IF x.to = NoMoney THEN NoQuote
                        ELSE [kind |-> "fee", cost |-> cost, usd |-> atLeastOneCent(x.to),
                              of |-> c, held |-> held, wanted |-> wanted]
    BY <1>1
  <1>3. PICK x \in CryptoToFiat(rates, cost, Usd) :
            /\ rates' = x.cache
            /\ quote' = IF x.to = NoMoney THEN NoQuote
                        ELSE [kind |-> "fee", cost |-> cost, usd |-> atLeastOneCent(x.to),
                              of |-> c, held |-> held, wanted |-> wanted]
    BY <1>2
  <1>4. Usd \in Fiats /\ gasPrice \in Nat /\ tip \in Nat
    BY PricingAssumption
  <1>5. CASE cost = NoMoney
    <2>1. x \in Rejected(rates, cost)
      BY <1>3, <1>5 DEF CryptoToFiat, NoMoney, Money
    <2>2. rates' = rates /\ quote' = NoQuote
      BY <1>3, <2>1, RejectedFacts
    <2>3. PICK k : k = rates /\ CacheOK(k)
      BY DEF PricesInv
    <2> QED
      BY <2>2, <2>3, NoQuoteIsRight, Quotes DEF CalculateWithdrawalFeeUSD
  <1>6. CASE cost # NoMoney
    <2>1. PICK native \in Currencies, v \in Nat : cost = Money("crypto", native.ticker, v, native.decimals)
      BY <1>2, <1>4, <1>6, CostFacts
    <2>2. /\ CacheOK(x.cache)
          /\ x.to # NoMoney => IsFiat(x.to) /\ x.to.ticker = Usd /\ PaysFor(x.to, cost)
      BY <1>3, <1>4, <2>1, CryptoToFiatFacts DEF PricesInv
    <2>3. cost.value \in Nat /\ 10^cost.decimals \in Nat
      BY <2>1, PricingAssumption DEF Money
    <2>4. \A r : RateOf(Usd, NormalizeTicker(cost.ticker), r) => IsFraction(r)
      BY KnownFraction DEF PricesInv
    <2>5. PICK cents : cents = atLeastOneCent(x.to)
      OBVIOUS
    <2>6. x.to # NoMoney => IsFiat(cents) /\ cents.ticker = Usd /\ cents.value >= 1 /\ PaysFor(cents, cost)
      BY <2>2, <2>3, <2>4, <2>5, CentFacts
    <2>7. PICK q : q = IF x.to = NoMoney THEN NoQuote
                       ELSE [kind |-> "fee", cost |-> cost, usd |-> cents, of |-> c, held |-> held, wanted |-> wanted]
      OBVIOUS
    <2>8. QuoteOK(q)
      <3>1. CASE x.to = NoMoney
        BY <2>7, <3>1, NoQuoteIsRight
      <3>2. CASE x.to # NoMoney
        <4>1. q.kind = "fee" /\ q.cost = cost /\ q.usd = cents /\ q.of = c /\ q.held = held /\ q.wanted = wanted
          BY <2>7, <3>2
        <4> QED
          BY <2>6, <3>2, <4>1 DEF QuoteOK
      <3> QED
        BY <3>1, <3>2
    <2> QED
      BY <1>3, <2>2, <2>5, <2>7, <2>8, Quotes DEF CalculateWithdrawalFeeUSD
  <1> QED
    BY <1>5, <1>6

LEMMA MaximumFacts ==
    ASSUME NEW ticker, NEW decimals, NEW held \in Nat, NEW t \in Nat,
           NEW m, m = MaximumAmount(Money("crypto", ticker, held, decimals), Money("crypto", ticker, t, decimals))
    PROVE  m.value > 0 => m.value + t <= held
  <1>1. PICK a, b : a = Money("crypto", ticker, held, decimals) /\ b = Money("crypto", ticker, t, decimals)
    OBVIOUS
  <1>2. SubNegative(a, b) = Money("crypto", ticker, held - t, decimals)
    BY <1>1 DEF SubNegative, CompatibleTo, Money
  <1>3. Sub(a, b) = IF held - t < 0 THEN NoMoney ELSE Money("crypto", ticker, held - t, decimals)
    BY <1>2 DEF Sub, Money
  <1>4. Money("crypto", ticker, held - t, decimals) # NoMoney
    BY DEF Money, NoMoney
  <1>5. CASE held - t < 0
    <2>1. m = [a EXCEPT !.value = 0]
      BY <1>1, <1>3, <1>5 DEF MaximumAmount
    <2>2. m.value = 0
      BY <1>1, <2>1 DEF Money
    <2> QED
      BY <2>2
  <1>6. CASE ~(held - t < 0)
    <2>1. m = Money("crypto", ticker, held - t, decimals)
      BY <1>1, <1>3, <1>4, <1>6 DEF MaximumAmount
    <2>2. m.value = held - t
      BY <2>1 DEF Money
    <2> QED
      BY <2>2
  <1> QED
    BY <1>5, <1>6

LEMMA CoversFacts ==
    ASSUME NEW ticker, NEW decimals, NEW held \in Nat, NEW wanted \in Int, NEW t \in Nat,
           Covers(Money("crypto", ticker, held, decimals), Money("crypto", ticker, wanted, decimals),
                  Money("crypto", ticker, t, decimals))
    PROVE  wanted + t <= held
  <1>1. PICK a, b, c : /\ a = Money("crypto", ticker, held, decimals) /\ b = Money("crypto", ticker, wanted, decimals)
                       /\ c = Money("crypto", ticker, t, decimals)
    OBVIOUS
  <1>2. SubNegative(a, b) = Money("crypto", ticker, held - wanted, decimals)
    BY <1>1 DEF SubNegative, CompatibleTo, Money
  <1>3. Sub(a, b) # NoMoney /\ Sub(Sub(a, b), c) # NoMoney
    BY <1>1 DEF Covers
  <1>4. Sub(a, b) = Money("crypto", ticker, held - wanted, decimals)
    BY <1>2, <1>3 DEF Sub
  <1>5. SubNegative(Sub(a, b), c) = Money("crypto", ticker, held - wanted - t, decimals)
    BY <1>1, <1>4 DEF SubNegative, CompatibleTo, Money
  <1>6. ~(held - wanted - t < 0)
    BY <1>3, <1>5 DEF Sub, Money
  <1> QED
    BY <1>6

LEMMA WithdrawalFeeStep ==
    ASSUME PricesInv, getWithdrawalFee
    PROVE  PricesInv'
  <1>1. PICK p : p = quote /\ QuoteOK(p) /\ p.kind = "fee"
    BY DEF PricesInv, getWithdrawalFee
  <1>2. PICK c : c = p.of
    OBVIOUS
  <1> DEFINE coins(n) == Money("crypto", c.ticker, n, c.decimals)
             offer(x, kind) == [kind |-> kind, usd |-> p.usd, fee |-> x.to, cost |-> p.cost, held |-> p.held,
                                wanted |-> p.wanted, maximum |-> MaximumAmount(coins(p.held), x.to)]
  <1>3. PICK x \in FiatToCrypto(rates, p.usd, c) :
          /\ rates' = x.cache
          /\ \/ quote' = NoQuote
             \/ x.to # NoMoney /\ quote' = offer(x, "offer")
             \/ /\ x.to # NoMoney /\ Covers(coins(p.held), coins(p.wanted), x.to)
                /\ quote' = offer(x, "withdrawal")
    BY <1>1, <1>2 DEF getWithdrawalFee
  <1>4. /\ IsFiat(p.usd) /\ p.usd.value >= 1 /\ c \in Live /\ p.held \in Nat /\ p.wanted \in Int
        /\ p.usd.ticker = Usd /\ PaysFor(p.usd, p.cost)
    BY <1>1, <1>2 DEF QuoteOK
  <1>5. /\ CacheOK(x.cache)
        /\ x.to # NoMoney => /\ \E t \in Nat : x.to = Money("crypto", c.ticker, t, c.decimals)
                             /\ Backed(p.usd, x.to)
    BY <1>3, <1>4, FiatToCryptoFacts DEF PricesInv, Live
  <1>6. ASSUME NEW kind \in {"offer", "withdrawal"}, x.to # NoMoney,
               kind = "withdrawal" => Covers(coins(p.held), coins(p.wanted), x.to)
        PROVE  QuoteOK(offer(x, kind))
    <2>1. PICK q : q = offer(x, kind)
      OBVIOUS
    <2>2. PICK t \in Nat : x.to = Money("crypto", c.ticker, t, c.decimals)
      BY <1>5, <1>6
    <2>3. x.to.value = t
      BY <2>2 DEF Money
    <2>4. PICK m : m = MaximumAmount(coins(p.held), x.to)
      OBVIOUS
    <2>5. m.value > 0 => m.value + t <= p.held
      BY <1>4, <2>2, <2>4, MaximumFacts
    <2>6. kind = "withdrawal" => p.wanted + t <= p.held
      BY <1>4, <1>6, <2>2, CoversFacts
    <2>7. /\ q.kind = kind /\ q.usd = p.usd /\ q.fee = x.to /\ q.cost = p.cost /\ q.held = p.held
          /\ q.wanted = p.wanted /\ q.maximum = m
      BY <2>1, <2>4
    <2>8. QuoteOK(q)
      BY <1>4, <1>5, <1>6, <2>2, <2>3, <2>5, <2>6, <2>7 DEF QuoteOK
    <2> QED
      BY <2>1, <2>8
  <1>7. PICK q : q = quote'
    OBVIOUS
  <1>8. QuoteOK(q)
    <2> HIDE DEF offer
    <2> QED
      BY <1>3, <1>6, <1>7, NoQuoteIsRight
  <1> QED
    BY <1>3, <1>5, <1>7, <1>8, Quotes DEF getWithdrawalFee

\* The currencies' first rates.
FirstRates(first) == first = [p \in Pairs |-> first[p]] /\ \A p \in Pairs : first[p] \in Markets[p]

LEMMA PricingInitInv ==
    ASSUME NEW CONSTANT online0, NEW CONSTANT first, FirstRates(first), PricingInit(online0, first)
    PROVE  PricesInv
  <1>1. MarketOK
    BY DEF PricingInit, FirstRates, MarketOK
  <1>2. CacheOK(rates)
    BY DEF PricingInit, Forgotten, CacheOK
  <1>3. QuoteOK(quote)
    BY NoQuoteIsRight DEF PricingInit
  <1> QED
    BY <1>1, <1>2, <1>3 DEF PricesInv

LEMMA PricingNextInv ==
    ASSUME PricesInv, [PricingNext]_pricingVars
    PROVE  PricesInv'
  <1>1. CASE \E from, to \in Fiats \cup {c.ticker : c \in Currencies}, amount \in Prices : Convert(from, to, amount)
    BY <1>1, ConvertStep
  <1>2. ASSUME NEW c \in Live, NEW fiat \in Fiats, NEW amount \in Prices,
               NEW price \in FiatFromFloat64(fiat, amount) \ {NoMoney}, PriceMethod(price, c)
        PROVE  PricesInv'
    <2>1. IsFraction(amount) /\ price \in Parsed(fiat, amount) /\ c \in Currencies
      BY PricingAssumption DEF Parsed, Live
    <2>2. IsFiat(price)
      BY <2>1, ParsedFiat
    <2> QED
      BY <1>2, <2>1, <2>2, PriceMethodStep
  <1>3. CASE PriceInUSD
    BY <1>3, PriceInUSDStep
  <1>4. ASSUME NEW c \in Live, NEW held \in Holdings, NEW wanted \in Requests \cup {NoAmount},
               CalculateWithdrawalFeeUSD(c, held, wanted)
        PROVE  PricesInv'
    <2>1. held \in Nat /\ wanted \in Int
      BY PricingAssumption DEF NoAmount
    <2> QED
      BY <1>4, <2>1, WithdrawalFeeUSDStep
  <1>5. CASE getWithdrawalFee
    BY <1>5, WithdrawalFeeStep
  <1>6. CASE Answer
    BY <1>6, AnswerStep
  <1>7. CASE \E c \in Currencies, net \in Networks, asset \in Contracts : ResolveAsset(c.chain, net, asset)
    BY <1>7, ResolveAssetStep
  <1>8. CASE \E pair \in Pairs : \E rate \in Markets[pair] : Move(pair, rate)
    BY <1>8, MoveStep
  <1>9. CASE RatesExpire
    BY <1>9, RatesExpireStep
  <1>10. CASE UNCHANGED pricingVars
    <2>1. PICK c, q : c = rates /\ CacheOK(c) /\ q = quote /\ QuoteOK(q)
      BY DEF PricesInv
    <2> QED
      BY <1>10, <2>1, Quotes DEF pricingVars
  <1> QED
    BY <1>1, <1>2, <1>3, <1>4, <1>5, <1>6, <1>7, <1>8, <1>9, <1>10 DEF PricingNext

\* Each cached rate is one of its own pair, and each quote was made at one.
THEOREM PricesInvariant ==
    ASSUME NEW CONSTANT online0, NEW CONSTANT first, FirstRates(first)
    PROVE  PricingSpec(online0, first) => []PricesInv
  <1>1. PricingInit(online0, first) => PricesInv
    BY PricingInitInv
  <1>2. PricesInv /\ [PricingNext]_pricingVars => PricesInv'
    BY PricingNextInv
  <1> QED
    BY <1>1, <1>2, PTL DEF PricingSpec

LEMMA BackedIsFair ==
    ASSUME NEW from, NEW to, Backed(from, to)
    PROVE  FairlyQuoted(from, to)
  BY DEF Backed, RateOf, Known, FairlyQuoted, Quoted

\* Whatever rates are cached and however the market moves, a conversion is worth its price at a
\* rate that very pair has had, but for rounding (GetExchangeRate and its cache, Convert,
\* createIncomingTransaction).
THEOREM ConversionsAreFair ==
    ASSUME NEW CONSTANT online0, NEW CONSTANT first, FirstRates(first)
    PROVE  PricingSpec(online0, first) => []ConversionIsFair
  <1>1. PricesInv => ConversionIsFair
    BY BackedIsFair DEF PricesInv, QuoteOK, ConversionIsFair
  <1> QED
    BY <1>1, PricesInvariant, PTL

\* A cent, rounded, buys at least one unit of whatever can be withdrawn.
CentsBuyUnits ==
    \A c \in Live :
       LET s == NormalizeTicker(c.ticker)
           offered == IF <<s, Usd>> \in Pairs THEN Markets[<<s, Usd>>] ELSE {}
           fixed == IF {s, Usd} \subseteq DOMAIN FixedRates THEN {fallbackExchangeRate(Usd, s)} ELSE {}
       IN  \A r \in offered \cup fixed : 100 * (r.num + r.den) < 10^c.decimals * r.den

LEMMA FeeIsPositive ==
    ASSUME CentsBuyUnits, MarketOK, NEW usd, IsFiat(usd), usd.value >= 1, usd.ticker = Usd, NEW c \in Live, NEW t \in Nat,
           NEW fee, fee = Money("crypto", c.ticker, t, c.decimals), Backed(usd, fee)
    PROVE  t >= 1
  <1>1. fee.type = "crypto" /\ fee.ticker = c.ticker /\ fee.decimals = c.decimals /\ fee.value = t
    BY DEF Money
  <1>2. PICK s : s = NormalizeTicker(c.ticker)
    OBVIOUS
  <1>3. PICK r : RateOf(Usd, s, r) /\ Fair(usd, fee, r)
    BY <1>1, <1>2 DEF Backed
  <1>4. c \in Currencies /\ Usd \in Fiats
    BY PricingAssumption DEF Live
  <1>5. Known(<<s, Usd>>, r)
    BY <1>2, <1>3, <1>4, TickerFacts DEF RateOf
  <1>6. 100 * (r.num + r.den) < 10^c.decimals * r.den
    BY <1>2, <1>5 DEF CentsBuyUnits, Known, MarketOK, Offers
  <1>7. r.num > 0
    BY <1>1, <1>3 DEF Fair
  <1>8. PICK n \in Nat \ {0}, d \in Nat \ {0}, e \in Nat \ {0}, v \in Nat \ {0} :
          n = r.num /\ d = r.den /\ e = 10^c.decimals /\ v = usd.value
    BY <1>3, <1>4, <1>7, KnownFraction, PricingAssumption DEF IsFraction, IsFiat
  <1>9. /\ t * (n * 100) <= v * d * e
        /\ (v * d * e - t * (n * 100)) * n <= (n + d) * (n * 100)
    BY <1>1, <1>3, <1>8, FiatUnits DEF Fair, Fraction, IsFiat, Money
  <1>10. CASE t = 0
    <2>1. PICK x \in Nat, y \in Nat, z \in Nat : x = v * d * e /\ y = (n + d) * 100 /\ z = d * e
      OBVIOUS
    <2>2. x * n <= y * n
      BY <1>9, <1>10, <2>1
    <2>3. x <= y
      BY <2>2
    <2>4. z <= x
      <3>1. x = v * z
        BY <2>1
      <3> QED
        BY <3>1, <2>1
    <2>5. y < z
      BY <1>6, <1>8, <2>1
    <2> QED
      BY <2>3, <2>4, <2>5
  <1> QED
    BY <1>10

\* Under CentsBuyUnits no withdrawal is free, its fee pays for what the network costs at a rate
\* the coin has had, but for rounding, and amount and fee together do not exceed the balance
\* (CalculateWithdrawalFeeUSD, getWithdrawalFee, CreateWithdrawal).
THEOREM WithdrawalsPayTheirFees ==
    ASSUME NEW CONSTANT online0, NEW CONSTANT first, FirstRates(first), CentsBuyUnits
    PROVE  PricingSpec(online0, first) => []WithdrawalPaysItsFee
  <1>1. PricesInv => WithdrawalPaysItsFee
    <2> SUFFICES ASSUME PricesInv, quote.kind \in {"offer", "withdrawal"}
                 PROVE  /\ quote.usd.value >= 1 /\ quote.fee.value >= 1
                        /\ \E r \in Quoted(Usd, NormalizeTicker(quote.cost.ticker)) :
                             (quote.usd.value + 1) * r.den * 10^quote.cost.decimals >= quote.cost.value * r.num * 100
                        /\ quote.maximum.value > 0 => quote.maximum.value + quote.fee.value <= quote.held
                        /\ quote.kind = "withdrawal" => quote.wanted + quote.fee.value <= quote.held
      BY DEF WithdrawalPaysItsFee
    <2>1. PICK q : q = quote /\ QuoteOK(q)
      BY DEF PricesInv
    <2>2. /\ IsFiat(q.usd) /\ q.usd.value >= 1 /\ q.usd.ticker = Usd /\ PaysFor(q.usd, q.cost)
          /\ \E c \in Live, t \in Nat : q.fee = Money("crypto", c.ticker, t, c.decimals)
          /\ Backed(q.usd, q.fee)
          /\ q.maximum.value > 0 => q.maximum.value + q.fee.value <= q.held
          /\ q.kind = "withdrawal" => q.wanted + q.fee.value <= q.held
      BY <2>1 DEF QuoteOK
    <2>3. PICK c \in Live, t \in Nat : q.fee = Money("crypto", c.ticker, t, c.decimals)
      BY <2>2
    <2>4. t >= 1
      BY <2>2, <2>3, FeeIsPositive DEF PricesInv
    <2>5. q.fee.value = t
      BY <2>3 DEF Money
    <2>6. \E r \in Quoted(Usd, NormalizeTicker(q.cost.ticker)) :
            (q.usd.value + 1) * r.den * 10^q.cost.decimals >= q.cost.value * r.num * 100
      BY <2>2 DEF PaysFor, RateOf, Known, Quoted
    <2> QED
      BY <2>1, <2>2, <2>4, <2>5, <2>6
  <1> QED
    BY <1>1, PricesInvariant, PTL
=============================================================================
