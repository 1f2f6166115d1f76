---------------------------- MODULE SystemWallets ----------------------------
(***************************************************************************)
(* Where the system's own wallets come from.  The KMS keeps the keys; the  *)
(* table wallets of the main database refers to a key by its id.  A wallet *)
(* is thus made in two steps, by the API of the operator and by the        *)
(* scheduler, which ensures one outbound wallet of every blockchain.       *)
(*                                                                         *)
(* A process is an API call or a job.  It works on one blockchain: the     *)
(* wallets of others are of type "other".  The rows of the table are a     *)
(* sequence, as ids grow.                                                  *)
(***************************************************************************)
EXTENDS KeyManagement, Tables

CONSTANTS
    Chain,         \* the blockchain of the wallets, the others' type is "other"
    Processes,     \* API calls and jobs
    PageSize,      \* wallets per page of a listing                     (300)
    MaxBulk        \* bound: wallets made by one call of BulkCreateWallets

Types == {"inbound", "outbound", "other"}

ASSUME SystemWalletsAssumption ==
    /\ Chain \in Chains /\ PageSize \in Nat \ {0} /\ MaxBulk \in Nat

VARIABLES
    wallets,   \* the table wallets: a sequence of [key, type]
    proc       \* a process's program counter and local variables

walletVars == <<keys, wallets>>

(* want: the type of wallet under way; more: how many after it; key: the   *)
(* key the KMS answered; start: the id the next page starts at; listed:    *)
(* the ids listed so far; first: how many wallets there were at first.     *)
Resting == [pc |-> "idle", want |-> "inbound", more |-> 0, key |-> 0,
            start |-> 1, listed |-> <<>>, first |-> 0]

WalletsInit(rows) ==
    /\ wallets = rows
    /\ keys = [k \in Keys |-> IF k > Len(rows) THEN NoKey
                              ELSE [state |-> "live", chain |-> IF rows[k].type # "other" THEN Chain
                                                                ELSE CHOOSE c \in Chains : c # Chain]]
    /\ proc = [j \in Processes |-> Resting]

In(j, p) == proc[j].pc = p
Go(j, p) == proc' = [proc EXCEPT ![j].pc = p]
Rest(j) == proc' = [proc EXCEPT ![j] = Resting]
Ids == DOMAIN wallets

-----------------------------------------------------------------------------
(* Calls of the KMS *)

KmsCreate(j) ==
    \E k \in Keys :
        /\ In(j, "kms")
        /\ GenerateKey(k, Chain)
        /\ proc' = [proc EXCEPT ![j].pc = "insert", ![j].key = k]
        /\ UNCHANGED wallets

\* The program never deletes a key; whoever operates the KMS may delete those that no
\* wallet has and no process is about to store.
KmsDelete(k) ==
    /\ \A i \in Ids : wallets[i].key # k
    /\ \A j \in Processes : proc[j].key # k
    /\ SoftDelete(k)
    /\ UNCHANGED <<wallets, proc>>

\* A transaction of the wallet's blockchain is signed if nothing is wrong with it.
KmsSigns(k) ==
    \A token \in BOOLEAN, d \in {"none"} \cup ToSet(Validated[Family[Chain]]) :
        CreateTransaction(k, Chain, token, {d}, "ok") = "signed"
            <=> d = "none" \/ ~Applies(d, Family[Chain], token)

-----------------------------------------------------------------------------
(* wallet.Service *)

\* The unique index outbound_wallets_unique: one outbound wallet per blockchain.
Refused(j) == proc[j].want = "outbound" /\ \E i \in Ids : wallets[i].type = "outbound"

\* The row is inserted; the process makes the next wallet, or goes on.
Insert(j, next) ==
    /\ In(j, "insert")
    /\ ~Refused(j)
    /\ wallets' = Append(wallets, [key |-> proc[j].key, type |-> proc[j].want])
    /\ IF proc[j].more > 0 THEN proc' = [proc EXCEPT ![j] = next]
       ELSE IF proc[j].want = "inbound" THEN Rest(j)
            ELSE proc' = [proc EXCEPT ![j] = [Resting EXCEPT !.pc = "list", !.first = Len(wallets)]]
    /\ UNCHANGED keys

\* Mutant: several wallets are made of one key.
CreateWithOneKey(j) == Insert(j, [proc[j] EXCEPT !.more = @ - 1])

\* create: the row, once the KMS answered.  Its type is the caller's.
CreateWallet(j) == Insert(j, [proc[j] EXCEPT !.pc = "kms", !.more = @ - 1, !.key = 0])

\* The index refuses the row: the process ends and its key stays without a wallet.
CreateRefused(j) ==
    /\ In(j, "insert")
    /\ Refused(j)
    /\ Rest(j)
    /\ UNCHANGED walletVars

\* The operator's API: one inbound wallet, or several one after the other.
BulkCreateWallets(j, n) ==
    /\ proc[j] = Resting
    /\ proc' = [proc EXCEPT ![j].pc = "kms", ![j].more = n - 1]
    /\ UNCHANGED walletVars

\* Found, or created; between the two another process may do the same.
EnsureOutboundWallet(j) ==
    /\ In(j, "ensure")
    /\ IF \E i \in Ids : wallets[i].type = "outbound"
       THEN proc' = [proc EXCEPT ![j].pc = "list", ![j].first = Len(wallets)]
       ELSE proc' = [proc EXCEPT ![j].pc = "kms", ![j].want = "outbound"]
    /\ UNCHANGED walletVars

\* PaginateWalletsByID
Page(type, start) ==
    InOrder(FirstOf({i \in Ids : i >= start /\ wallets[i].type = type}, PageSize, Ascending), Ascending)

\* Mutant: the next page starts after the wallet that the look-ahead found.
ListSkip(j) ==
    LET page == Page("inbound", proc[j].start)
        rest == {i \in Ids : page # <<>> /\ i >= Last(page) + 1}
    IN
    /\ In(j, "list")
    /\ proc' = [proc EXCEPT ![j].listed = @ \o page,
                            ![j].start = IF rest = {} THEN 1 ELSE Min(rest) + 1,
                            ![j].pc = IF rest = {} THEN "match" ELSE "list"]
    /\ UNCHANGED walletVars

\* List: a page of inbound wallets.  The next one starts at the first wallet of any
\* type after it, if there is one.
List(j) ==
    LET page == Page("inbound", proc[j].start)
        rest == {i \in Ids : page # <<>> /\ i >= Last(page) + 1}
    IN
    /\ In(j, "list")
    /\ proc' = [proc EXCEPT ![j].listed = @ \o page,
                            ![j].start = IF rest = {} THEN 1 ELSE Min(rest),
                            ![j].pc = IF rest = {} THEN "match" ELSE "list"]
    /\ UNCHANGED walletVars

\* The scheduler starts PerformInternalWalletTransfer.
StartJob(j) ==
    /\ proc[j] = Resting
    /\ Go(j, "ensure")
    /\ UNCHANGED walletVars

\* The process dies, or its KMS or database call fails.
AbortJob(j) ==
    /\ proc[j] # Resting
    /\ Rest(j)
    /\ UNCHANGED walletVars

WalletsNext ==
    \/ \E j \in Processes : \/ KmsCreate(j) \/ CreateWallet(j) \/ CreateRefused(j)
                            \/ EnsureOutboundWallet(j)
                            \/ List(j) \/ StartJob(j) \/ AbortJob(j)
                            \/ \E n \in 1..MaxBulk : BulkCreateWallets(j, n)
    \/ \E k \in Keys : KmsDelete(k)

WalletsSpec(rows) == WalletsInit(rows) /\ [][WalletsNext]_<<walletVars, proc>>

-----------------------------------------------------------------------------
\* Whatever process dies between the KMS and the database, every wallet can sign: the
\* KMS has its key, of its blockchain, and no other wallet has it.
EveryWalletSigns ==
    \A i, l \in Ids : /\ KmsSigns(wallets[i].key) <=> wallets[i].type # "other"
                      /\ i # l => wallets[i].key # wallets[l].key

\* The pages of a listing, between which wallets are added, hold every inbound wallet
\* that was there at first, and none twice.
ListingIsComplete ==
    \A j \in Processes : In(j, "match") =>
        /\ \A i \in 1..proc[j].first : wallets[i].type = "inbound" => Contains(proc[j].listed, i)
        /\ IsInjective(proc[j].listed)
=============================================================================
