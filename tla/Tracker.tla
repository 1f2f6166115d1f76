------------------------------- MODULE Tracker -------------------------------
(***************************************************************************)
(* How the system reads a blockchain: which incoming transfers a listing   *)
(* holds and when a receipt counts as confirmed.  UTXO chains are read     *)
(* from explorers, of which one stands in for another, with a cache and a  *)
(* cooldown per URL; EVM chains from a node; TRON from Trongrid; Tatum     *)
(* reads Bitcoin when there is no explorer.                                *)
(*                                                                         *)
(* Servers lag: what one answers was true at most MaxLag blocks ago.       *)
(* Blocks are never undone.  One listing or receipt is read at a time, as  *)
(* others would only refresh the cache it reads.  Time is counted in       *)
(* ticks.  A listing is the set of its items: their order is left out.     *)
(***************************************************************************)
EXTENDS Tables, SequencesExt

CONSTANTS
    Primary,             \* the configured explorer
    Fallbacks,           \* configured fallbacks, a sequence
    DefaultFallbacks,    \* fallbacks added when the explorer is the default one
    Transfers,           \* transfers of the chain
    About,               \* transfer -> [ours, amount, success, native]
    Activation,          \* the amount that activates a TRON account
    Families,            \* subset of {"utxo", "tatum", "evm", "tron"}
    Assets,              \* subset of {"coin", "token"}
    Required,            \* confirmations a receipt needs
    ScanBlocks,          \* blocks of an EVM listing
    ListLimit,           \* transfers of an explorer's or Trongrid's listing
    CacheTTL,            \* ticks an explorer's answer is cached
    TransientCooldown,   \* ticks without requests after a failure
    RateLimitCooldown,   \* the same after too many requests
    MaxLag,              \* bound: blocks a server may be behind
    MaxBlock             \* bound: height of the chain

VARIABLES
    family,     \* the kind of chain this service works on
    asset,      \* the currency it is asked for
    tip,        \* height of the chain
    place,      \* where a transfer is: Unsent, Pool, or its block
    rest,       \* ticks since then, as far as CacheTTL
    cache,      \* Provider.getCache: explorer -> path -> entry
    cooldown,   \* Provider.getCooldown: explorer -> path -> ticks left
    job         \* the listing or receipt under way

chainState == <<family, asset, tip, place, rest>>
provider == <<cache, cooldown>>
trackerVars == <<chainState, provider, job>>

Unsent == -1
Pool == 0
Paths == {"mempool", "history", "tip"} \cup Transfers   \* of a transfer: /tx/<id>

ASSUME TrackerAssumption ==
    /\ MaxBlock \in Nat \ {0} /\ MaxLag \in Nat /\ CacheTTL \in Nat \ {0}
    /\ TransientCooldown <= RateLimitCooldown /\ ScanBlocks \in Nat \ {0}
    /\ Required \in Nat \ {0} /\ ListLimit \in Nat \ {0}
    /\ Fallbacks \in Seq(ToSet(Fallbacks)) /\ DefaultFallbacks \in Seq(ToSet(DefaultFallbacks))
    /\ {"mempool", "history", "tip"} \cap Transfers = {} /\ IsFiniteSet(Transfers)

-----------------------------------------------------------------------------
(* The configuration of the explorers *)

\* Each URL once, without the primary one, configured before default ones.
normalizeFallbackURLs(values, defaults, excluded) ==
    LET all == values \o defaults
        kept == {i \in DOMAIN all : all[i] # excluded /\ \A l \in 1..(i - 1) : all[l] # all[i]}
    IN  Kept(all, kept)

utxoURLs == <<Primary>> \o normalizeFallbackURLs(Fallbacks, DefaultFallbacks, Primary)
Explorers == ToSet(utxoURLs)

-----------------------------------------------------------------------------
(* What servers answer *)

\* The heights a server may answer from.
Views == {h \in 0..tip : h >= tip - MaxLag}

\* The block in which a server at height h knows a transfer.
Seen(d, h) == IF place[d] \in 1..h THEN place[d] ELSE Pool

Item(d, h) == [id |-> d, block |-> Seen(d, h)]
Items(ids, h) == {Item(d, h) : d \in ids}

\* As many as a listing holds, the newest ones; which of one block is left open.
Newest(ids, h) ==
    {n \in SUBSET ids : /\ Cardinality(n) = Min({Cardinality(ids), ListLimit})
                        /\ \A d \in n, e \in ids \ n : Seen(d, h) >= Seen(e, h)}

Sent == {d \in Transfers : place[d] # Unsent}
Mined(h) == {d \in Sent : Seen(d, h) # Pool}

Nothing == [list |-> {}, block |-> 0]

\* The bodies an explorer at height h may have for a path; the history of an address has
\* its pooled transfers beside the mined ones.
Bodies(path, h) ==
    LET pooled == Sent \ Mined(h) IN
    CASE path \in Transfers -> {[list |-> {}, block |-> Seen(path, h)]}
      [] path = "mempool" -> {[list |-> Items(pooled, h), block |-> 0]}
      [] path = "history" -> {[list |-> Items(pooled \cup n, h), block |-> 0] : n \in Newest(Mined(h), h)}
      [] path = "tip" -> {[list |-> {}, block |-> h]}

NoEntry == [left |-> 0, body |-> Nothing]

cachedGet(u, path) == cache[u][path].left > 0

\* The outcomes of a request: cached, refused during the cooldown, answered, or failed
\* (the cooldowns of a transport or server error, of a rate limit, and of any other code).
getRaw(u, path) ==
    LET same == [ok |-> FALSE, body |-> Nothing, entry |-> cache[u][path], cool |-> cooldown[u][path]]
    IN  IF cachedGet(u, path) THEN {[same EXCEPT !.ok = TRUE, !.body = cache[u][path].body]}
        ELSE IF cooldown[u][path] > 0 THEN {same}
        ELSE {[ok |-> TRUE, body |-> b, entry |-> [left |-> CacheTTL, body |-> b], cool |-> 0] :
                b \in UNION {Bodies(path, h) : h \in Views}}
             \cup {[same EXCEPT !.cool = c] : c \in {TransientCooldown, RateLimitCooldown, 0}}

-----------------------------------------------------------------------------
(* task, of: what is read, and of which transfer (listings and receipts    *)
(* share no path, so the task stays one of them); url: the explorer it is  *)
(* asked of; first, second, third: answers; sure: transfers that were in   *)
(* their place for long when the task began, and still are.                *)

NoAnswer == [state |-> "none", body |-> Nothing]
Failed == [state |-> "failed", body |-> Nothing]
Ok(b) == [state |-> "ok", body |-> b]

NoJob(task) == [task |-> task, pc |-> "idle", of |-> CHOOSE d \in Transfers : TRUE, url |-> 1,
                first |-> NoAnswer, second |-> NoAnswer, third |-> NoAnswer, sure |-> {},
                list |-> {}, confirmations |-> 0]

TrackerInit ==
    /\ family \in Families /\ asset \in Assets
    /\ family \in {"utxo", "tatum"} => asset = "coin"
    /\ tip = 1
    /\ place = [d \in Transfers |-> Unsent] /\ rest = [d \in Transfers |-> 0]
    /\ cache = [u \in Explorers |-> [p \in Paths |-> NoEntry]]
    /\ cooldown = [u \in Explorers |-> [p \in Paths |-> 0]]
    /\ job \in {NoJob("list"), NoJob("receipt")}

Is(pc) == job.pc = pc

\* Every server has known its place since before the oldest cached answer.
Settled(d) == rest[d] = CacheTTL

StartListing ==
    /\ job.task = "list" /\ Is("idle")
    /\ job' = [job EXCEPT !.pc = "first", !.sure = {d \in Sent : Settled(d)}]
    /\ UNCHANGED <<chainState, provider>>

\* A receipt is asked for once the transfer's hash is known.
StartReceipt(d) ==
    /\ job.task = "receipt" /\ Is("idle") /\ place[d] # Unsent
    /\ job' = [job EXCEPT !.pc = IF family = "utxo" THEN "first" ELSE "any", !.of = d]
    /\ UNCHANGED <<chainState, provider>>

Finish ==
    /\ job.pc \in {"listed", "received", "error"}
    /\ job' = NoJob(job.task)
    /\ UNCHANGED <<chainState, provider>>

\* The explorers are asked in order until one answers; then the answer, or the error of
\* the last one, goes to the caller.
getRawFromURLs(path) ==
    {[get |-> o, done |-> o.ok \/ job.url = Len(utxoURLs), answer |-> IF o.ok THEN Ok(o.body) ELSE Failed] :
        o \in getRaw(utxoURLs[job.url], path)}

Fetch(path, answer(_)) ==
    LET u == utxoURLs[job.url] IN
    \E r \in getRawFromURLs(path) :
        /\ cache' = [cache EXCEPT ![u][path] = r.get.entry]
        /\ cooldown' = [cooldown EXCEPT ![u][path] = r.get.cool]
        /\ job' = IF r.done THEN answer(r.answer) ELSE [job EXCEPT !.url = @ + 1]
        /\ UNCHANGED chainState

-----------------------------------------------------------------------------
(* Listings *)

\* The first of the items with one id, those of the pool before the others.
dedup(mempool, history) == mempool \cup {i \in history : \A m \in mempool : m.id # i.id}

\* The outputs to the recipient are worth something.
bitcoinIncoming(item) == About[item.id].ours /\ About[item.id].amount > 0

\* Both lists of an explorer; the listing fails only with both.
fromExplorer(mempool, history) ==
    {i \in dedup(mempool.body.list, history.body.list) : bitcoinIncoming(i)}

ReadMempool ==
    /\ family = "utxo" /\ job.task = "list" /\ Is("first")
    /\ Fetch("mempool", LAMBDA a : [job EXCEPT !.first = a, !.pc = "second", !.url = 1])

ReadHistory ==
    /\ family = "utxo" /\ job.task = "list" /\ Is("second")
    /\ Fetch("history", LAMBDA a :
         [job EXCEPT !.second = a,
                     !.pc = IF a.state = "failed" /\ job.first.state = "failed" THEN "error" ELSE "listed",
                     !.list = fromExplorer(job.first, a)])

\* One request of Tatum for the address's transactions.
ListTatum ==
    /\ family = "tatum" /\ job.task = "list" /\ Is("first")
    /\ \E h \in Views : \E n \in Newest(Sent, h) :
         job' = [job EXCEPT !.pc = "listed", !.list = {i \in Items(n, h) : bitcoinIncoming(i)}]
    /\ UNCHANGED <<chainState, provider>>

\* Mutant: one block less.
evmScanOneLess(latest) == IF latest - ScanBlocks + 2 < 0 THEN 0 ELSE latest - ScanBlocks + 2

evmScanFromBlock(latest) == IF latest - ScanBlocks + 1 < 0 THEN 0 ELSE latest - ScanBlocks + 1

EvmLatest ==
    /\ family = "evm" /\ job.task = "list" /\ Is("first")
    /\ \E h \in Views : job' = [job EXCEPT !.pc = "second", !.first = Ok([list |-> {}, block |-> h])]
    /\ UNCHANGED <<chainState, provider>>

\* The coin: every block from the latest down, transfers to the recipient of some value,
\* whether or not they succeeded.  A token: the logs of the blocks, newest first; only
\* transfers that succeeded leave one.
EvmScan ==
    LET latest == job.first.body.block
        inScan == {d \in Sent : place[d] \in evmScanFromBlock(latest)..latest /\ About[d].ours}
    IN
    /\ family = "evm" /\ job.task = "list" /\ Is("second")
    /\ LET found == IF asset = "coin" THEN {d \in inScan : About[d].amount > 0}
                    ELSE {d \in inScan : About[d].success}
       IN  job' = [job EXCEPT !.pc = "listed", !.list = Items(found, latest)]
    /\ UNCHANGED <<chainState, provider>>

\* Transfers of TRX that succeeded and do not just activate the account.
tronIncoming(item) ==
    LET t == About[item.id]
    IN  t.success /\ t.native /\ t.amount > 0 /\ t.ours /\ t.amount # Activation

tronTokenIncoming(item) == About[item.id].ours

ListTron ==
    /\ family = "tron" /\ job.task = "list" /\ Is("first")
    /\ \E h \in Views : \E n \in Newest(Mined(h), h) :
         job' = [job EXCEPT !.pc = "listed",
                            !.list = {i \in Items(n, h) : IF asset = "coin" THEN tronIncoming(i)
                                                         ELSE tronTokenIncoming(i)}]
    /\ UNCHANGED <<chainState, provider>>

-----------------------------------------------------------------------------
(* Receipts *)

utxoConfirmations(tx, height) == IF tx > 0 /\ height >= tx THEN height - tx + 1 ELSE 0

Received(r, n) == [r EXCEPT !.pc = "received", !.confirmations = n]

ReadTransaction ==
    /\ family = "utxo" /\ job.task = "receipt" /\ Is("first")
    /\ Fetch(job.of, LAMBDA a :
         LET next == [job EXCEPT !.first = a, !.url = 1] IN
         IF a.state = "failed" THEN [next EXCEPT !.pc = "error"]
         ELSE IF a.body.block > 0 THEN [next EXCEPT !.pc = "second"]
         ELSE Received(next, 0))

ReadTipHeight ==
    /\ family = "utxo" /\ job.task = "receipt" /\ Is("second")
    /\ Fetch("tip", LAMBDA a :
         IF a.state = "failed" THEN [job EXCEPT !.pc = "error"]
         ELSE Received([job EXCEPT !.second = a], utxoConfirmations(job.first.body.block, a.body.block)))

\* Mutant: an empty answer is taken for the transfer's block.
anyData(d, h) == TRUE

\* A receipt exists once the transfer is mined.
hasData(d, h) == Seen(d, h) # Pool

\* The receipt and the latest block of an EVM chain and of TRON are read at the same time,
\* each from another server, perhaps; Tatum's one after the other, and Tatum knows pooled
\* transactions too.  The other request, for the sender, may only fail.
ReadReceipt ==
    /\ family # "utxo" /\ job.task = "receipt" /\ Is("any") /\ job.second = NoAnswer
    /\ \E h \in Views :
         job' = IF family = "tatum" \/ hasData(job.of, h)
                THEN [job EXCEPT !.second = Ok([list |-> {}, block |-> Seen(job.of, h)])]
                ELSE [job EXCEPT !.pc = "error"]
    /\ UNCHANGED <<chainState, provider>>

\* TRON's latest block is the latest solid one; the body of a request that failed reads
\* as block 0.
ReadLatest ==
    /\ family # "utxo" /\ job.task = "receipt" /\ Is("any") /\ job.third = NoAnswer
    /\ family = "tatum" => job.second # NoAnswer
    /\ \E h \in IF family = "tron" THEN 0..tip ELSE Views :
         job' = [job EXCEPT !.third = Ok([list |-> {}, block |-> h])]
    /\ UNCHANGED <<chainState, provider>>

MakeReceipt ==
    LET block == job.second.body.block
        latest == job.third.body.block
    IN
    /\ Is("any") /\ job.second.state = "ok" /\ job.third.state = "ok"
    /\ job' = Received(job, IF family = "tatum" THEN utxoConfirmations(block, latest) ELSE latest - block)
    /\ UNCHANGED <<chainState, provider>>

IsConfirmed == Is("received") /\ job.confirmations >= Required

\* A request to a node, Trongrid or Tatum fails, and the caller with it.
RequestFails ==
    /\ family # "utxo" /\ job.pc \in {"first", "second", "any"}
    /\ job' = [job EXCEPT !.pc = "error"]
    /\ UNCHANGED <<chainState, provider>>

-----------------------------------------------------------------------------
(* The chain and the clock *)

Send(d) ==
    /\ place[d] = Unsent
    /\ place' = [place EXCEPT ![d] = Pool]
    /\ UNCHANGED <<family, asset, tip, rest, provider, job>>

MineBlock(ids) ==
    /\ tip < MaxBlock
    /\ tip' = tip + 1
    /\ place' = [d \in Transfers |-> IF d \in ids THEN tip + 1 ELSE place[d]]
    /\ rest' = [d \in Transfers |-> IF d \in ids THEN 0 ELSE rest[d]]
    /\ job' = [job EXCEPT !.sure = @ \ ids]
    /\ UNCHANGED <<family, asset, provider>>

Less(n) == IF n > 0 THEN n - 1 ELSE 0

\* Entries that expire are as good as none.  Rest is counted once every server knows.
Tick ==
    /\ cache' = [u \in Explorers |-> [p \in Paths |->
                   IF cache[u][p].left > 1 THEN [cache[u][p] EXCEPT !.left = @ - 1] ELSE NoEntry]]
    /\ cooldown' = [u \in Explorers |-> [p \in Paths |-> Less(cooldown[u][p])]]
    /\ rest' = [d \in Transfers |->
                  IF rest[d] < CacheTTL /\ place[d] \in {Pool} \cup 1..(tip - MaxLag)
                  THEN rest[d] + 1 ELSE rest[d]]
    /\ UNCHANGED <<family, asset, tip, place, job>>

TrackerNext ==
    \/ StartListing \/ (\E d \in Transfers : StartReceipt(d)) \/ Finish
    \/ ReadMempool \/ ReadHistory \/ ListTatum \/ EvmLatest \/ EvmScan \/ ListTron
    \/ ReadTransaction \/ ReadTipHeight \/ ReadReceipt \/ ReadLatest \/ MakeReceipt \/ RequestFails
    \/ (\E d \in Transfers : Send(d))
    \/ (\E ids \in SUBSET {d \in Transfers : place[d] = Pool} : MineBlock(ids))
    \/ Tick

TrackerSpec == TrackerInit /\ [][TrackerNext]_trackerVars

-----------------------------------------------------------------------------
\* However the reads interleave with new blocks, whichever servers answer and whatever is
\* cached, a receipt that counts as confirmed is of a transfer that is mined and has that
\* many blocks: funds are credited and fees charged on its word.
ConfirmedIsDeep ==
    IsConfirmed => /\ place[job.of] > Pool
                   /\ tip - place[job.of] + (IF family \in {"utxo", "tatum"} THEN 1 ELSE 0) >= Required

\* The transfers a listing is for.
Wanted(d) ==
    /\ About[d].ours /\ About[d].success /\ About[d].amount > 0
    /\ family = "tron" /\ asset = "coin" => About[d].native /\ About[d].amount # Activation

\* As far back as a listing goes.
InReach(d) ==
    CASE family = "evm" -> place[d] > tip - ScanBlocks
      [] family = "utxo" -> place[d] = Pool \/ Cardinality({e \in Sent : place[e] >= place[d]}) <= ListLimit
      [] OTHER -> Cardinality({e \in Sent : place[e] >= place[d] \/ place[e] = Pool}) <= ListLimit

\* A listing holds every transfer to the recipient that was in its place when the listing
\* began, for longer than answers are cached, and that is not further back than a listing
\* goes.  If one of an explorer's two lists failed, only the other's; and a pooled transfer
\* only where the pool is read.
SettledAreListed ==
    Is("listed") =>
        \A d \in {e \in job.sure : Wanted(e) /\ InReach(e)} :
            \/ \E i \in job.list : i.id = d
            \/ family = "utxo" /\ job.second.state = "failed" /\ place[d] # Pool
            \/ family \in {"evm", "tron"} /\ place[d] = Pool
=============================================================================
