---------------------------- MODULE TrackerProofs ----------------------------
(***************************************************************************)
(* Why a receipt that counts as confirmed is true, and why a listing holds *)
(* what has settled, for any explorers, cache, lag and order of reads.     *)
(*                                                                         *)
(* A server may be late but never wrong: the block it gives for a transfer *)
(* is the transfer's block or none, and the tip it gives is at most the    *)
(* chain's.  As blocks are never undone, that stays so however long an     *)
(* answer is cached or held by a job (Inv).                                *)
(*                                                                         *)
(* Every server sees a transfer in its place once the chain has gone on    *)
(* for MaxLag blocks.  A transfer gains in rest what a cached answer loses *)
(* of its time, so an answer that is still cached was given when a settled *)
(* transfer had rested already, and holds it or is full of newer ones      *)
(* (ListInv).                                                              *)
(***************************************************************************)
EXTENDS Tracker, TableTheorems, TLAPS

ChainOK ==
    /\ tip \in Nat
    /\ place \in [Transfers -> Int]
    /\ \A d \in Transfers : place[d] <= tip

\* The block n is where transfer d is, or says that it is in none.
TellsPlace(d, n) == n = 0 \/ (place[d] > 0 /\ n = place[d])

\* What the body of an answer may say.
BodyOK(path, b) ==
    /\ path \in Transfers => TellsPlace(path, b.block)
    /\ path = "tip" => b.block \in 0..tip

CacheOK ==
    /\ DOMAIN cache = Explorers
    /\ \A u \in Explorers :
         /\ DOMAIN cache[u] = Paths
         /\ \A p \in Paths : BodyOK(p, cache[u][p].body)

\* The blocks on top of a transfer's, by the way the family counts them.
Depth(d) == tip - place[d] + (IF family \in {"utxo", "tatum"} THEN 1 ELSE 0)

Fields == {"task", "pc", "of", "url", "first", "second", "third", "sure", "list", "confirmations"}

\* What a receipt under way has been told.
ReceiptOK(j) ==
    /\ j.pc # "listed"
    /\ j.pc # "idle" => j.of \in Transfers
    /\ j.pc \in {"first", "second"} => family = "utxo"
    /\ j.pc = "second" => place[j.of] > 0 /\ j.first.body.block = place[j.of]
    /\ j.pc = "idle" => j.second.state = "none" /\ j.third.state = "none"
    /\ j.pc = "any" =>
         /\ family # "utxo"
         /\ j.second.state = "ok" =>
              /\ TellsPlace(j.of, j.second.body.block)
              /\ family # "tatum" => j.second.body.block > 0
         /\ j.third.state = "ok" => j.third.body.block \in 0..tip
    /\ j.pc = "received" =>
         /\ j.confirmations \in Int
         /\ j.confirmations > 0 => place[j.of] > 0 /\ j.confirmations <= Depth(j.of)

JobOK(j) ==
    /\ DOMAIN j = Fields
    /\ j.url \in 1..Len(utxoURLs)
    /\ \/ j.task = "list" /\ j.pc \in {"idle", "first", "second", "listed", "error"}
       \/ j.task = "receipt" /\ ReceiptOK(j)

Inv == ChainOK /\ CacheOK /\ JobOK(job)

USE TrackerAssumption

-----------------------------------------------------------------------------
(* The explorers *)

\* There is at least one explorer, and each number in the order is one.
LEMMA SomeExplorers ==
    /\ Len(utxoURLs) \in Nat \ {0}
    /\ \A i \in 1..Len(utxoURLs) : utxoURLs[i] \in Explorers
  <1>1. PICK all : all = Fallbacks \o DefaultFallbacks
    OBVIOUS
  <1>2. PICK U : all \in Seq(U)
    <2>1. Fallbacks \in Seq(ToSet(Fallbacks) \cup ToSet(DefaultFallbacks))
      BY DEF TrackerAssumption
    <2>2. DefaultFallbacks \in Seq(ToSet(Fallbacks) \cup ToSet(DefaultFallbacks))
      BY DEF TrackerAssumption
    <2> QED
      BY <1>1, <2>1, <2>2
  <1>3. PICK kept : kept = {i \in DOMAIN all : all[i] # Primary /\ \A l \in 1..(i - 1) : all[l] # all[i]}
    OBVIOUS
  <1>4. PICK others : others = Kept(all, kept)
    OBVIOUS
  <1>5. others \in Seq(U)
    BY <1>2, <1>3, <1>4, KeptFacts
  <1>6. utxoURLs = <<Primary>> \o others
    BY <1>1, <1>3, <1>4 DEF utxoURLs, normalizeFallbackURLs
  <1>7. Len(utxoURLs) = 1 + Len(others) /\ DOMAIN utxoURLs = 1..Len(utxoURLs) /\ Len(others) \in Nat
    BY <1>5, <1>6
  <1> QED
    BY <1>7, SMTT(30) DEF Explorers, ToSet

-----------------------------------------------------------------------------
(* What was true of the chain stays true *)

\* A transfer that is mined stays in its block and no block is undone.
Grow ==
    /\ tip' \in Nat /\ tip <= tip' /\ family' = family
    /\ place' \in [Transfers -> Int]
    /\ \A d \in Transfers : place'[d] <= tip' /\ (place[d] > 0 => place'[d] = place[d])

LEMMA TellsStays ==
    ASSUME Grow, NEW d \in Transfers, NEW n, TellsPlace(d, n)
    PROVE  TellsPlace(d, n)'
  BY DEF Grow, TellsPlace

LEMMA BodyStays ==
    ASSUME Inv, Grow, NEW p, NEW b, BodyOK(p, b)
    PROVE  BodyOK(p, b)'
  <1>1. p \in Transfers => TellsPlace(p, b.block)'
    BY TellsStays DEF BodyOK
  <1>2. p = "tip" => b.block \in 0..tip'
    BY DEF BodyOK, Grow, Inv, ChainOK
  <1> QED
    BY <1>1, <1>2 DEF BodyOK

LEMMA JobStays ==
    ASSUME Inv, Grow, NEW j, JobOK(j)
    PROVE  JobOK(j)'
  <1>1. ASSUME ReceiptOK(j) PROVE ReceiptOK(j)'
    <2>1. j.pc # "idle" => j.of \in Transfers
      BY <1>1 DEF ReceiptOK
    <2>2. ASSUME j.pc = "second"
          PROVE  place'[j.of] > 0 /\ j.first.body.block = place'[j.of]
      BY <1>1, <2>1, <2>2 DEF ReceiptOK, Grow
    <2>3. ASSUME j.pc = "any"
          PROVE  /\ family' # "utxo"
                 /\ j.second.state = "ok" =>
                      /\ TellsPlace(j.of, j.second.body.block)'
                      /\ family' # "tatum" => j.second.body.block > 0
                 /\ j.third.state = "ok" => j.third.body.block \in 0..tip'
      <3>1. /\ family # "utxo"
            /\ j.second.state = "ok" =>
                 /\ TellsPlace(j.of, j.second.body.block)
                 /\ family # "tatum" => j.second.body.block > 0
            /\ j.third.state = "ok" => j.third.body.block \in 0..tip
        BY <1>1, <2>3 DEF ReceiptOK
      <3>2. j.third.state = "ok" => j.third.body.block \in 0..tip'
        BY <3>1 DEF Grow, Inv, ChainOK
      <3>3. j.second.state = "ok" => TellsPlace(j.of, j.second.body.block)'
        BY <2>1, <2>3, <3>1, TellsStays
      <3> QED
        BY <3>1, <3>2, <3>3 DEF Grow
    <2>4. ASSUME j.pc = "received", j.confirmations > 0
          PROVE  place'[j.of] > 0 /\ j.confirmations <= Depth(j.of)'
      <3>1. place[j.of] > 0 /\ j.confirmations <= Depth(j.of) /\ j.confirmations \in Int
        BY <1>1, <2>4 DEF ReceiptOK
      <3>2. place'[j.of] = place[j.of] /\ place[j.of] \in Int /\ family' = family
        BY <2>1, <2>4, <3>1 DEF Grow, Inv, ChainOK
      <3>3. Depth(j.of) \in Int /\ Depth(j.of)' \in Int /\ Depth(j.of) <= Depth(j.of)'
        BY <3>2 DEF Depth, Grow, Inv, ChainOK
      <3> QED
        BY <3>1, <3>2, <3>3
    <2> QED
      BY <1>1, <2>1, <2>2, <2>3, <2>4 DEF ReceiptOK, Grow
  <1> QED
    BY <1>1 DEF JobOK

\* A step of the chain: nothing else has to be looked at.
LEMMA ChainStep ==
    ASSUME Inv, Grow, UNCHANGED provider, JobOK(job')
    PROVE  Inv'
  <1>1. CacheOK'
    <2>1. ASSUME NEW u \in Explorers, NEW p \in Paths PROVE BodyOK(p, cache[u][p].body)'
      <3>1. BodyOK(p, cache[u][p].body)
        BY DEF Inv, CacheOK
      <3>2. PICK b : b = cache[u][p].body
        OBVIOUS
      <3>3. BodyOK(p, b)'
        BY <3>1, <3>2, BodyStays
      <3> QED
        BY <3>2, <3>3 DEF provider, BodyOK, TellsPlace
    <2>2. DOMAIN cache' = Explorers /\ \A u \in Explorers : DOMAIN cache'[u] = Paths
      BY DEF CacheOK, Inv, provider
    <2> QED
      BY <2>1, <2>2 DEF CacheOK
  <1>2. JobOK(job)'
    <2>1. PICK j : j = job'
      OBVIOUS
    <2>2. JobOK(j)
      BY <2>1
    <2>3. JobOK(j)'
      BY <2>2, JobStays
    <2> QED
      BY <2>1, <2>3 DEF JobOK, ReceiptOK, TellsPlace, Depth
  <1> QED
    BY <1>1, <1>2 DEF Inv, ChainOK, Grow

\* A step of the job that asks no explorer.
LEMMA JobStep ==
    ASSUME Inv, UNCHANGED <<chainState, provider>>, JobOK(job')
    PROVE  Inv'
  BY ChainStep DEF Grow, chainState, Inv, ChainOK

-----------------------------------------------------------------------------
(* Requests of an explorer *)

\* A server that is behind knows a transfer's block, or none.
LEMMA SeenTells ==
    ASSUME Inv, NEW d \in Transfers, NEW h \in Nat
    PROVE  TellsPlace(d, Seen(d, h)) /\ Seen(d, h) \in Nat
  BY DEF Inv, ChainOK, TellsPlace, Seen, Pool

LEMMA BodyTells ==
    ASSUME Inv, NEW path \in Paths, NEW h \in Views, NEW b \in Bodies(path, h)
    PROVE  BodyOK(path, b)
  <1>1. h \in Nat /\ h \in 0..tip
    BY DEF Views, Inv, ChainOK
  <1>2. CASE path \in Transfers
    <2>1. path # "tip"
      BY <1>2 DEF TrackerAssumption
    <2>2. b = [list |-> {}, block |-> Seen(path, h)]
      BY <1>2 DEF Bodies, TrackerAssumption
    <2> QED
      BY <1>1, <1>2, <2>1, <2>2, SeenTells DEF BodyOK
  <1>3. CASE path = "tip"
    <2>1. path \notin Transfers
      BY <1>3 DEF TrackerAssumption
    <2>2. b = [list |-> {}, block |-> h]
      BY <1>3, <2>1 DEF Bodies
    <2> QED
      BY <1>1, <2>1, <2>2 DEF BodyOK
  <1>4. CASE path \notin Transfers /\ path # "tip"
    BY <1>4 DEF BodyOK
  <1> QED
    BY <1>2, <1>3, <1>4

\* Whether it is cached or new, an answer tells the truth.
LEMMA AnswersTell ==
    ASSUME Inv, NEW path \in Paths, NEW r \in getRawFromURLs(path)
    PROVE  /\ BodyOK(path, r.get.entry.body)
           /\ r.answer.state = "failed" \/ (r.answer.state = "ok" /\ BodyOK(path, r.answer.body))
           /\ ~r.done => job.url # Len(utxoURLs)
  <1> DEFINE u == utxoURLs[job.url]
             same == [ok |-> FALSE, body |-> Nothing, entry |-> cache[u][path], cool |-> cooldown[u][path]]
  <1>1. u \in Explorers
    BY SomeExplorers DEF Inv, JobOK
  <1>2. BodyOK(path, cache[u][path].body)
    BY <1>1 DEF Inv, CacheOK
  <1>3. PICK o \in getRaw(u, path) :
            r = [get |-> o, done |-> o.ok \/ job.url = Len(utxoURLs), answer |-> IF o.ok THEN Ok(o.body) ELSE Failed]
    BY DEF getRawFromURLs
  <1>4. BodyOK(path, o.entry.body) /\ o.ok \in BOOLEAN /\ (o.ok => BodyOK(path, o.body))
    <2> HIDE DEF u
    <2>1. CASE cachedGet(u, path)
      <3>1. o = [same EXCEPT !.ok = TRUE, !.body = cache[u][path].body]
        BY <1>3, <2>1 DEF getRaw
      <3> QED
        BY <1>2, <3>1
    <2>2. CASE ~cachedGet(u, path) /\ cooldown[u][path] > 0
      <3>1. o = same
        BY <1>3, <2>2 DEF getRaw
      <3> QED
        BY <1>2, <3>1
    <2>3. CASE ~cachedGet(u, path) /\ ~(cooldown[u][path] > 0)
      <3>1. \/ \E h \in Views : \E b \in Bodies(path, h) :
                  o = [ok |-> TRUE, body |-> b, entry |-> [left |-> CacheTTL, body |-> b], cool |-> 0]
            \/ \E c \in {TransientCooldown, RateLimitCooldown, 0} : o = [same EXCEPT !.cool = c]
        BY <1>3, <2>3 DEF getRaw
      <3>2. ASSUME NEW h \in Views, NEW b \in Bodies(path, h),
                   o = [ok |-> TRUE, body |-> b, entry |-> [left |-> CacheTTL, body |-> b], cool |-> 0]
            PROVE  BodyOK(path, o.entry.body) /\ o.ok \in BOOLEAN /\ (o.ok => BodyOK(path, o.body))
        <4>1. BodyOK(path, b)
          BY BodyTells
        <4>2. o.ok = TRUE /\ o.body = b /\ o.entry.body = b
          BY <3>2
        <4> QED
          BY <4>1, <4>2
      <3>3. CASE \E c \in {TransientCooldown, RateLimitCooldown, 0} : o = [same EXCEPT !.cool = c]
        BY <1>2, <3>3
      <3> QED
        BY <3>1, <3>2, <3>3
    <2> QED
      BY <2>1, <2>2, <2>3
  <1>5. r.get = o /\ r.answer = IF o.ok THEN Ok(o.body) ELSE Failed
    BY <1>3
  <1>6. r.done = (o.ok \/ job.url = Len(utxoURLs))
    BY <1>3, Zenon
  <1>7. r.answer.state = "failed" \/ (r.answer.state = "ok" /\ BodyOK(path, r.answer.body))
    BY <1>4, <1>5 DEF Ok, Failed
  <1> QED
    BY <1>4, <1>5, <1>6, <1>7

\* What a request leaves in the cache is as true as what was there.
LEMMA FetchStep ==
    ASSUME Inv, NEW path \in Paths, NEW r \in getRawFromURLs(path),
           cache' = [cache EXCEPT ![utxoURLs[job.url]][path] = r.get.entry],
           UNCHANGED chainState, JobOK(job')
    PROVE  Inv'
  <1>1. ASSUME NEW v \in Explorers, NEW p \in Paths
        PROVE  /\ DOMAIN cache'[v] = Paths
               /\ cache'[v][p] = cache[v][p] \/ (p = path /\ cache'[v][p] = r.get.entry)
    BY DEF Inv, CacheOK
  <1>2. BodyOK(path, r.get.entry.body)
    BY AnswersTell
  <1>3. ASSUME NEW v \in Explorers, NEW p \in Paths PROVE BodyOK(p, cache[v][p].body)'
    <2>1. PICK b : b = cache'[v][p].body
      OBVIOUS
    <2>2. BodyOK(p, b)
      BY <1>1, <1>2, <2>1 DEF Inv, CacheOK
    <2> QED
      BY <2>1, <2>2 DEF BodyOK, TellsPlace, chainState
  <1>4. DOMAIN cache' = Explorers
    BY DEF Inv, CacheOK
  <1>5. CacheOK'
    BY <1>1, <1>3, <1>4 DEF CacheOK, Paths
  <1>6. JobOK(job)'
    BY DEF JobOK, ReceiptOK, TellsPlace, Depth, chainState
  <1> QED
    BY <1>5, <1>6 DEF Inv, ChainOK, chainState

-----------------------------------------------------------------------------
(* Listings *)

\* A listing confirms nothing: only its fields and its place in the order count.
Listing(j) ==
    /\ DOMAIN j = Fields /\ j.url \in 1..Len(utxoURLs)
    /\ j.task = "list" /\ j.pc \in {"idle", "first", "second", "listed", "error"}

LEMMA ListingIsOK == ASSUME NEW j, Listing(j) PROVE JobOK(j)
  BY DEF Listing, JobOK

LEMMA NoJobIsOK ==
    ASSUME NEW t \in {"list", "receipt"} PROVE JobOK(NoJob(t))
  <1>1. DOMAIN NoJob(t) = Fields /\ NoJob(t).url = 1 /\ NoJob(t).task = t /\ NoJob(t).pc = "idle"
        /\ NoJob(t).second = NoAnswer /\ NoJob(t).third = NoAnswer
    BY DEF NoJob, Fields
  <1>2. 1 \in 1..Len(utxoURLs)
    BY SomeExplorers
  <1>3. ReceiptOK(NoJob(t))
    BY <1>1 DEF ReceiptOK, NoAnswer
  <1> QED
    BY <1>1, <1>2, <1>3 DEF JobOK

LEMMA FirstURL == 1 \in 1..Len(utxoURLs)
  BY SomeExplorers

\* The next explorer is asked the same.
LEMMA NextURL ==
    ASSUME Inv, job.url # Len(utxoURLs)
    PROVE  JobOK([job EXCEPT !.url = @ + 1])
  <1>1. job.url + 1 \in 1..Len(utxoURLs)
    BY SomeExplorers DEF Inv, JobOK
  <1>2. PICK j : j = [job EXCEPT !.url = @ + 1]
    OBVIOUS
  <1>3. /\ DOMAIN j = Fields /\ j.url = job.url + 1
        /\ \A f \in Fields \ {"url"} : j[f] = job[f]
    BY <1>2 DEF Inv, JobOK, Fields
  <1>4. ReceiptOK(job) => ReceiptOK(j)
    <2>1. /\ j.pc = job.pc /\ j.of = job.of /\ j.first = job.first /\ j.second = job.second
          /\ j.third = job.third /\ j.confirmations = job.confirmations
      BY <1>3 DEF Fields
    <2> QED
      BY <2>1 DEF ReceiptOK
  <1> QED
    BY <1>1, <1>2, <1>3, <1>4 DEF Inv, JobOK, Fields

LEMMA StartListingStep == Inv /\ StartListing => Inv'
  <1> SUFFICES ASSUME Inv, StartListing PROVE Inv'
    OBVIOUS
  <1>1. Listing(job')
    BY DEF StartListing, Listing, Inv, JobOK, Is, Fields
  <1> QED
    BY <1>1, ListingIsOK, JobStep DEF StartListing

LEMMA FinishStep == Inv /\ Finish => Inv'
  <1> SUFFICES ASSUME Inv, Finish PROVE Inv'
    OBVIOUS
  <1>1. JobOK(NoJob(job.task))
    BY NoJobIsOK DEF Inv, JobOK
  <1> QED
    BY <1>1, JobStep DEF Finish

LEMMA ReadMempoolStep == Inv /\ ReadMempool => Inv'
  <1> SUFFICES ASSUME Inv, ReadMempool PROVE Inv'
    OBVIOUS
  <1>1. "mempool" \in Paths
    BY DEF Paths
  <1>2. PICK r \in getRawFromURLs("mempool") :
          /\ cache' = [cache EXCEPT ![utxoURLs[job.url]]["mempool"] = r.get.entry]
          /\ job' = IF r.done THEN [job EXCEPT !.first = r.answer, !.pc = "second", !.url = 1]
                    ELSE [job EXCEPT !.url = @ + 1]
          /\ UNCHANGED chainState
    BY DEF ReadMempool, Fetch
  <1>3. CASE r.done
    <2>1. Listing(job')
      BY <1>2, <1>3, FirstURL DEF ReadMempool, Listing, Inv, JobOK, Fields
    <2> QED
      BY <1>1, <1>2, <2>1, ListingIsOK, FetchStep
  <1>4. CASE ~r.done
    <2>1. JobOK(job')
      BY <1>1, <1>2, <1>4, AnswersTell, NextURL
    <2> QED
      BY <1>1, <1>2, <2>1, FetchStep
  <1> QED
    BY <1>3, <1>4

LEMMA ReadHistoryStep == Inv /\ ReadHistory => Inv'
  <1> SUFFICES ASSUME Inv, ReadHistory PROVE Inv'
    OBVIOUS
  <1>1. "history" \in Paths
    BY DEF Paths
  <1>2. PICK r \in getRawFromURLs("history") :
          /\ cache' = [cache EXCEPT ![utxoURLs[job.url]]["history"] = r.get.entry]
          /\ r.done => job' = [job EXCEPT !.second = r.answer,
                                 !.pc = IF r.answer.state = "failed" /\ job.first.state = "failed"
                                        THEN "error" ELSE "listed",
                                 !.list = fromExplorer(job.first, r.answer)]
          /\ ~r.done => job' = [job EXCEPT !.url = @ + 1]
          /\ UNCHANGED chainState
    BY DEF ReadHistory, Fetch
  <1>3. CASE r.done
    <2>1. Listing(job')
      BY <1>2, <1>3 DEF ReadHistory, Listing, Inv, JobOK, Fields
    <2> QED
      BY <1>1, <1>2, <2>1, ListingIsOK, FetchStep
  <1>4. CASE ~r.done
    <2>1. JobOK(job')
      BY <1>1, <1>2, <1>4, AnswersTell, NextURL
    <2> QED
      BY <1>1, <1>2, <2>1, FetchStep
  <1> QED
    BY <1>3, <1>4

LEMMA OtherListings == Inv /\ (ListTatum \/ EvmLatest \/ EvmScan \/ ListTron) => Inv'
  <1> SUFFICES ASSUME Inv, ListTatum \/ EvmLatest \/ EvmScan \/ ListTron PROVE Inv'
    OBVIOUS
  <1>1. job.task = "list" /\ UNCHANGED <<chainState, provider>>
    BY DEF ListTatum, EvmLatest, EvmScan, ListTron
  <1>2. \/ \E l : job' = [job EXCEPT !.pc = "listed", !.list = l]
        \/ \E a : job' = [job EXCEPT !.pc = "second", !.first = a]
    BY Zenon DEF ListTatum, EvmLatest, EvmScan, ListTron
  <1>3. Listing(job')
    BY <1>1, <1>2 DEF Listing, Inv, JobOK, Fields
  <1> QED
    BY <1>1, <1>3, ListingIsOK, JobStep

-----------------------------------------------------------------------------
(* Receipts *)

LEMMA StartReceiptStep ==
    ASSUME Inv, NEW d \in Transfers, StartReceipt(d) PROVE Inv'
  <1>1. job' = [job EXCEPT !.pc = IF family = "utxo" THEN "first" ELSE "any", !.of = d]
    BY DEF StartReceipt
  <1>2. /\ DOMAIN job = Fields /\ job.url \in 1..Len(utxoURLs) /\ job.task = "receipt"
        /\ job.second.state = "none" /\ job.third.state = "none"
    BY DEF StartReceipt, Inv, JobOK, ReceiptOK, Is
  <1>3. /\ DOMAIN job' = Fields /\ job'.url = job.url /\ job'.task = "receipt" /\ job'.of = d
        /\ job'.second = job.second /\ job'.third = job.third
        /\ job'.pc = IF family = "utxo" THEN "first" ELSE "any"
    BY <1>1, <1>2 DEF Fields
  <1>4. ReceiptOK(job')
    BY <1>2, <1>3 DEF ReceiptOK
  <1> QED
    BY <1>2, <1>3, <1>4, JobStep DEF JobOK, StartReceipt

\* Every block since the transfer's, that one included, is on top of it.
LEMMA UtxoConfirmationsAreDeep ==
    ASSUME Inv, NEW d \in Transfers, NEW n \in Int, NEW h \in 0..tip, TellsPlace(d, n),
           family \in {"utxo", "tatum"}, utxoConfirmations(n, h) > 0
    PROVE  place[d] > 0 /\ utxoConfirmations(n, h) <= Depth(d)
  BY DEF Inv, ChainOK, TellsPlace, utxoConfirmations, Depth

\* What it takes for a receipt to be right.
Right(j) ==
    /\ DOMAIN j = Fields /\ j.url \in 1..Len(utxoURLs) /\ j.task = "receipt" /\ j.of \in Transfers
    /\ \/ j.pc = "error"
       \/ /\ j.pc = "received" /\ j.confirmations \in Int
          /\ j.confirmations > 0 => place[j.of] > 0 /\ j.confirmations <= Depth(j.of)

LEMMA RightIsOK == ASSUME NEW j, Right(j) PROVE JobOK(j)
  BY DEF Right, JobOK, ReceiptOK

LEMMA ReadTransactionStep == Inv /\ ReadTransaction => Inv'
  <1> SUFFICES ASSUME Inv, ReadTransaction PROVE Inv'
    OBVIOUS
  <1>1. /\ family = "utxo" /\ job.task = "receipt" /\ job.pc = "first" /\ DOMAIN job = Fields
        /\ job.of \in Transfers /\ job.of \in Paths
    BY DEF ReadTransaction, Is, Inv, JobOK, ReceiptOK, Paths
  <1>2. PICK r \in getRawFromURLs(job.of) :
          /\ cache' = [cache EXCEPT ![utxoURLs[job.url]][job.of] = r.get.entry]
          /\ r.done =>
               LET next == [job EXCEPT !.first = r.answer, !.url = 1] IN
               job' = IF r.answer.state = "failed" THEN [next EXCEPT !.pc = "error"]
                      ELSE IF r.answer.body.block > 0 THEN [next EXCEPT !.pc = "second"]
                      ELSE Received(next, 0)
          /\ ~r.done => job' = [job EXCEPT !.url = @ + 1]
          /\ UNCHANGED chainState
    BY DEF ReadTransaction, Fetch
  <1>3. CASE ~r.done
    <2>1. JobOK(job')
      BY <1>1, <1>2, <1>3, AnswersTell, NextURL
    <2> QED
      BY <1>1, <1>2, <2>1, FetchStep
  <1>4. CASE r.done
    <2> DEFINE next == [job EXCEPT !.first = r.answer, !.url = 1]
    <2>1. DOMAIN next = Fields /\ next.url = 1 /\ next.task = "receipt" /\ next.of = job.of
          /\ next.first = r.answer
      BY <1>1 DEF Fields
    <2>2. job' = IF r.answer.state = "failed" THEN [next EXCEPT !.pc = "error"]
                 ELSE IF r.answer.body.block > 0 THEN [next EXCEPT !.pc = "second"]
                 ELSE Received(next, 0)
      BY <1>2, <1>4
    <2> HIDE DEF next
    <2>3. r.answer.state = "failed" \/ TellsPlace(job.of, r.answer.body.block)
      BY <1>1, AnswersTell DEF BodyOK
    <2>4. CASE job' = [next EXCEPT !.pc = "error"] \/ job' = Received(next, 0)
      <3>1. Right(job')
        <4>1. /\ DOMAIN job' = Fields /\ job'.url = 1 /\ job'.task = "receipt" /\ job'.of = job.of
              /\ job'.pc = "error" \/ (job'.pc = "received" /\ job'.confirmations = 0)
          BY <2>1, <2>4 DEF Received, Fields
        <4> QED
          BY <1>1, <4>1, FirstURL DEF Right
      <3>2. JobOK(job')
        BY <3>1, RightIsOK
      <3> QED
        BY <1>1, <1>2, <3>2, FetchStep
    <2>5. CASE /\ r.answer.state # "failed" /\ r.answer.body.block > 0
               /\ job' = [next EXCEPT !.pc = "second"]
      <3>1. place[job.of] > 0 /\ r.answer.body.block = place[job.of]
        BY <2>3, <2>5 DEF TellsPlace
      <3>2. DOMAIN job' = Fields /\ job'.url = 1 /\ job'.task = "receipt" /\ job'.of = job.of
            /\ job'.first = r.answer /\ job'.pc = "second"
        BY <2>1, <2>5 DEF Fields
      <3>3. ReceiptOK(job')
        BY <1>1, <3>1, <3>2 DEF ReceiptOK
      <3>4. JobOK(job')
        BY <3>2, <3>3, FirstURL DEF JobOK
      <3> QED
        BY <1>1, <1>2, <3>4, FetchStep
    <2> QED
      BY <2>2, <2>4, <2>5
  <1> QED
    BY <1>3, <1>4

LEMMA ReadTipHeightStep == Inv /\ ReadTipHeight => Inv'
  <1> SUFFICES ASSUME Inv, ReadTipHeight PROVE Inv'
    OBVIOUS
  <1>1. /\ family = "utxo" /\ job.task = "receipt" /\ job.pc = "second" /\ DOMAIN job = Fields
        /\ job.of \in Transfers /\ job.url \in 1..Len(utxoURLs)
        /\ place[job.of] > 0 /\ job.first.body.block = place[job.of]
    BY DEF ReadTipHeight, Is, Inv, JobOK, ReceiptOK
  <1>2. "tip" \in Paths
    BY DEF Paths
  <1>3. PICK r \in getRawFromURLs("tip") :
          /\ cache' = [cache EXCEPT ![utxoURLs[job.url]]["tip"] = r.get.entry]
          /\ r.done =>
               job' = IF r.answer.state = "failed" THEN [job EXCEPT !.pc = "error"]
                      ELSE Received([job EXCEPT !.second = r.answer],
                                    utxoConfirmations(job.first.body.block, r.answer.body.block))
          /\ ~r.done => job' = [job EXCEPT !.url = @ + 1]
          /\ UNCHANGED chainState
    BY DEF ReadTipHeight, Fetch
  <1>4. CASE ~r.done
    <2>1. JobOK(job')
      BY <1>2, <1>3, <1>4, AnswersTell, NextURL
    <2> QED
      BY <1>2, <1>3, <2>1, FetchStep
  <1>5. CASE r.done
    <2> DEFINE n == utxoConfirmations(job.first.body.block, r.answer.body.block)
    <2>1. CASE r.answer.state = "failed"
      <3>1. Right(job')
        BY <1>1, <1>3, <1>5, <2>1 DEF Right, Fields
      <3> QED
        BY <1>2, <1>3, <3>1, RightIsOK, FetchStep
    <2>2. CASE r.answer.state # "failed"
      <3>1. r.answer.body.block \in 0..tip
        BY <1>2, <2>2, AnswersTell DEF BodyOK
      <3>2. n \in Int
        BY <1>1, <3>1 DEF utxoConfirmations, Inv, ChainOK
      <3>3. n > 0 => n <= Depth(job.of)
        <4>1. TellsPlace(job.of, job.first.body.block) /\ job.first.body.block \in Int
          BY <1>1 DEF TellsPlace, Inv, ChainOK
        <4> QED
          BY <1>1, <3>1, <4>1, UtxoConfirmationsAreDeep
      <3>4. job' = Received([job EXCEPT !.second = r.answer], n)
        BY <1>3, <1>5, <2>2
      <3> HIDE DEF n
      <3>5. Right(job')
        BY <1>1, <3>2, <3>3, <3>4 DEF Right, Received, Fields
      <3>6. JobOK(job')
        BY <3>5, RightIsOK
      <3> QED
        BY <1>2, <1>3, <3>6, FetchStep
    <2> QED
      BY <2>1, <2>2
  <1> QED
    BY <1>4, <1>5

LEMMA ReadReceiptStep == Inv /\ ReadReceipt => Inv'
  <1> SUFFICES ASSUME Inv, ReadReceipt PROVE Inv'
    OBVIOUS
  <1>1. /\ family # "utxo" /\ job.task = "receipt" /\ job.pc = "any" /\ DOMAIN job = Fields
        /\ job.of \in Transfers /\ job.url \in 1..Len(utxoURLs) /\ ReceiptOK(job)
        /\ UNCHANGED <<chainState, provider>>
    BY DEF ReadReceipt, Is, Inv, JobOK, ReceiptOK
  <1>2. PICK h \in Views :
          job' = IF family = "tatum" \/ hasData(job.of, h)
                 THEN [job EXCEPT !.second = Ok([list |-> {}, block |-> Seen(job.of, h)])]
                 ELSE [job EXCEPT !.pc = "error"]
    BY DEF ReadReceipt
  <1>3. TellsPlace(job.of, Seen(job.of, h)) /\ Seen(job.of, h) \in Nat
    <2>1. h \in Nat
      BY DEF Views, Inv, ChainOK
    <2> QED
      BY <1>1, <2>1, SeenTells
  <1>4. CASE family = "tatum" \/ hasData(job.of, h)
    <2>1. job' = [job EXCEPT !.second = Ok([list |-> {}, block |-> Seen(job.of, h)])]
      BY <1>2, <1>4
    <2>2. /\ DOMAIN job' = Fields /\ job'.url = job.url /\ job'.task = "receipt" /\ job'.of = job.of
          /\ job'.pc = "any" /\ job'.third = job.third /\ job'.second.body.block = Seen(job.of, h)
      BY <1>1, <2>1 DEF Fields, Ok
    <2>3. family # "tatum" => Seen(job.of, h) > 0
      BY <1>3, <1>4 DEF hasData, Pool
    <2>4. job.third.state = "ok" => job.third.body.block \in 0..tip
      BY <1>1 DEF ReceiptOK
    <2>5. ReceiptOK(job')
      BY <1>1, <1>3, <2>2, <2>3, <2>4 DEF ReceiptOK
    <2>6. JobOK(job')
      BY <1>1, <2>2, <2>5 DEF JobOK
    <2> QED
      BY <1>1, <2>6, JobStep
  <1>5. CASE ~(family = "tatum" \/ hasData(job.of, h))
    <2>1. Right(job')
      BY <1>1, <1>2, <1>5 DEF Right, Fields
    <2> QED
      BY <1>1, <2>1, RightIsOK, JobStep
  <1> QED
    BY <1>4, <1>5

LEMMA ReadLatestStep == Inv /\ ReadLatest => Inv'
  <1> SUFFICES ASSUME Inv, ReadLatest PROVE Inv'
    OBVIOUS
  <1>1. /\ family # "utxo" /\ job.task = "receipt" /\ job.pc = "any" /\ DOMAIN job = Fields
        /\ job.of \in Transfers /\ job.url \in 1..Len(utxoURLs) /\ ReceiptOK(job)
        /\ UNCHANGED <<chainState, provider>>
    BY DEF ReadLatest, Is, Inv, JobOK, ReceiptOK
  <1>2. PICK h \in 0..tip : job' = [job EXCEPT !.third = Ok([list |-> {}, block |-> h])]
    BY DEF ReadLatest, Views
  <1>3. /\ DOMAIN job' = Fields /\ job'.url = job.url /\ job'.task = "receipt" /\ job'.of = job.of
        /\ job'.pc = "any" /\ job'.second = job.second /\ job'.third.body.block = h
    BY <1>1, <1>2 DEF Fields, Ok
  <1>4. ReceiptOK(job')
    BY <1>1, <1>2, <1>3 DEF ReceiptOK
  <1>5. JobOK(job')
    BY <1>1, <1>3, <1>4 DEF JobOK
  <1> QED
    BY <1>1, <1>5, JobStep

LEMMA MakeReceiptStep == Inv /\ MakeReceipt => Inv'
  <1> SUFFICES ASSUME Inv, MakeReceipt PROVE Inv'
    OBVIOUS
  <1> DEFINE block == job.second.body.block
             latest == job.third.body.block
             n == IF family = "tatum" THEN utxoConfirmations(block, latest) ELSE latest - block
  <1>1. /\ job.task = "receipt" /\ DOMAIN job = Fields /\ job.of \in Transfers
        /\ job.url \in 1..Len(utxoURLs) /\ family # "utxo"
        /\ TellsPlace(job.of, block) /\ (family # "tatum" => block > 0) /\ latest \in 0..tip
    BY DEF MakeReceipt, Is, Inv, JobOK, ReceiptOK
  <1>2. job' = Received(job, n) /\ UNCHANGED <<chainState, provider>>
    BY DEF MakeReceipt
  <1>3. block \in Int /\ place[job.of] \in Int /\ tip \in Int
    BY <1>1 DEF TellsPlace, Inv, ChainOK
  <1> HIDE DEF block, latest
  <1>4. n \in Int
    BY <1>1, <1>3 DEF utxoConfirmations
  <1>5. n > 0 => place[job.of] > 0 /\ n <= Depth(job.of)
    <2>1. CASE family = "tatum"
      BY <1>1, <1>3, <2>1, UtxoConfirmationsAreDeep
    <2>2. CASE family # "tatum"
      <3>1. place[job.of] > 0 /\ block = place[job.of]
        BY <1>1, <2>2 DEF TellsPlace
      <3> QED
        BY <1>1, <1>3, <2>2, <3>1 DEF Depth
    <2> QED
      BY <2>1, <2>2
  <1> HIDE DEF n
  <1>6. Right(job')
    BY <1>1, <1>2, <1>4, <1>5 DEF Right, Received, Fields
  <1>7. JobOK(job')
    BY <1>6, RightIsOK
  <1> QED
    BY <1>2, <1>7, JobStep

LEMMA RequestFailsStep == Inv /\ RequestFails => Inv'
  <1> SUFFICES ASSUME Inv, RequestFails PROVE Inv'
    OBVIOUS
  <1>1. job' = [job EXCEPT !.pc = "error"] /\ UNCHANGED <<chainState, provider>> /\ job.pc # "idle"
    BY DEF RequestFails
  <1>2. CASE job.task = "list"
    <2>1. Listing(job')
      BY <1>1, <1>2 DEF Inv, JobOK, Listing, Fields
    <2> QED
      BY <1>1, <2>1, ListingIsOK, JobStep
  <1>3. CASE job.task = "receipt"
    <2>1. Right(job')
      BY <1>1, <1>3 DEF Inv, JobOK, ReceiptOK, Right, Fields
    <2> QED
      BY <1>1, <2>1, RightIsOK, JobStep
  <1> QED
    BY <1>2, <1>3 DEF Inv, JobOK

-----------------------------------------------------------------------------
(* The chain and the clock *)

LEMMA SendStep ==
    ASSUME Inv, NEW d \in Transfers, Send(d) PROVE Inv'
  <1>1. Grow
    BY DEF Send, Grow, Inv, ChainOK, Unsent, Pool
  <1>2. JobOK(job')
    BY DEF Send, Inv
  <1> QED
    BY <1>1, <1>2, ChainStep DEF Send

LEMMA MineBlockStep ==
    ASSUME Inv, NEW ids \in SUBSET {d \in Transfers : place[d] = Pool}, MineBlock(ids) PROVE Inv'
  <1>1. Grow
    <2>1. tip' = tip + 1 /\ family' = family
          /\ place' = [d \in Transfers |-> IF d \in ids THEN tip + 1 ELSE place[d]]
      BY DEF MineBlock
    <2> QED
      BY <2>1 DEF Grow, Inv, ChainOK, Pool
  <1>2. JobOK(job')
    <2>1. job' = [job EXCEPT !.sure = @ \ ids]
      BY DEF MineBlock
    <2>2. DOMAIN job = Fields
      BY DEF Inv, JobOK
    <2>3. /\ DOMAIN job' = Fields /\ job'.url = job.url /\ job'.task = job.task
          /\ job'.pc = job.pc /\ job'.of = job.of /\ job'.first = job.first
          /\ job'.second = job.second /\ job'.third = job.third
          /\ job'.confirmations = job.confirmations
      BY <2>1, <2>2 DEF Fields
    <2>4. ReceiptOK(job) => ReceiptOK(job')
      BY <2>3 DEF ReceiptOK
    <2> QED
      BY <2>3, <2>4 DEF Inv, JobOK
  <1> QED
    BY <1>1, <1>2, ChainStep DEF MineBlock

\* An entry that expires becomes an empty one, which says nothing wrong either.
LEMMA TickStep == Inv /\ Tick => Inv'
  <1> SUFFICES ASSUME Inv, Tick PROVE Inv'
    OBVIOUS
  <1>1. UNCHANGED <<family, tip, place, job>>
    BY DEF Tick
  <1>2. ASSUME NEW u \in Explorers, NEW p \in Paths PROVE BodyOK(p, cache[u][p].body)'
    <2>1. cache'[u][p] = IF cache[u][p].left > 1 THEN [cache[u][p] EXCEPT !.left = @ - 1] ELSE NoEntry
      BY DEF Tick
    <2>2. cache'[u][p].body = cache[u][p].body \/ cache'[u][p].body = Nothing
      BY <2>1 DEF NoEntry
    <2>3. PICK b : b = cache'[u][p].body
      OBVIOUS
    <2>4. BodyOK(p, b)
      BY <2>2, <2>3 DEF BodyOK, TellsPlace, Nothing, Inv, CacheOK, ChainOK
    <2> QED
      BY <1>1, <2>3, <2>4 DEF BodyOK, TellsPlace
  <1>3. DOMAIN cache' = Explorers /\ \A u \in Explorers : DOMAIN cache'[u] = Paths
    BY DEF Tick
  <1>4. CacheOK'
    BY <1>2, <1>3 DEF CacheOK
  <1>5. ChainOK' /\ JobOK(job)'
    BY <1>1 DEF Inv, ChainOK, JobOK, ReceiptOK, TellsPlace, Depth
  <1> QED
    BY <1>4, <1>5 DEF Inv

-----------------------------------------------------------------------------
LEMMA InitInv == TrackerInit => Inv
  <1> SUFFICES ASSUME TrackerInit PROVE Inv
    OBVIOUS
  <1>1. ChainOK
    BY DEF TrackerInit, ChainOK, Unsent
  <1>2. JobOK(job)
    BY NoJobIsOK DEF TrackerInit
  <1>3. CacheOK
    BY DEF TrackerInit, CacheOK, NoEntry, Nothing, BodyOK, TellsPlace
  <1> QED
    BY <1>1, <1>2, <1>3 DEF Inv

LEMMA NextInv == Inv /\ [TrackerNext]_trackerVars => Inv'
  <1> SUFFICES ASSUME Inv, [TrackerNext]_trackerVars PROVE Inv'
    OBVIOUS
  <1>1. CASE UNCHANGED trackerVars
    BY <1>1, JobStep DEF trackerVars, Inv
  <1>2. CASE TrackerNext
    BY <1>2, StartListingStep, StartReceiptStep, FinishStep, ReadMempoolStep, ReadHistoryStep,
       OtherListings, ReadTransactionStep, ReadTipHeightStep, ReadReceiptStep, ReadLatestStep,
       MakeReceiptStep, RequestFailsStep, SendStep, MineBlockStep, TickStep
       DEF TrackerNext
  <1> QED
    BY <1>1, <1>2

\* What explorers answer, the cache keeps and a job was told is never ahead of the chain.
THEOREM InductiveInvariant == TrackerSpec => []Inv
  BY InitInv, NextInv, PTL DEF TrackerSpec

\* However many explorers stand in for one another, lag and are cached, and however the
\* reads of a receipt interleave with new blocks, a receipt that counts as confirmed is
\* of a transfer with that many blocks.
THEOREM ConfirmedReceiptsAreDeep == TrackerSpec => []ConfirmedIsDeep
  <1>1. Inv => ConfirmedIsDeep
    <2> SUFFICES ASSUME Inv, IsConfirmed
                 PROVE  place[job.of] > Pool /\ Depth(job.of) >= Required
      BY DEF ConfirmedIsDeep, Depth
    <2>1. /\ job.of \in Transfers /\ job.confirmations \in Int
          /\ job.confirmations > 0 => place[job.of] > 0 /\ job.confirmations <= Depth(job.of)
          /\ job.confirmations >= Required
      BY DEF IsConfirmed, Is, Inv, JobOK, ReceiptOK
    <2>2. Depth(job.of) \in Int
      BY <2>1 DEF Depth, Inv, ChainOK
    <2> QED
      BY <2>1, <2>2 DEF Pool, TrackerAssumption
  <1> QED
    BY <1>1, InductiveInvariant, PTL

-----------------------------------------------------------------------------
(* What a listing holds.  A transfer that has rested is seen in its place  *)
(* by every server, so a new answer covers it; a cached one covers those   *)
(* that had rested when it was given, which is what rest and the time an   *)
(* entry has left add up to.                                               *)

Holds(list, d) == \E i \in list : i.id = d

\* Too far back for the history of an explorer.
Beside(d) == {e \in Sent : place[e] >= place[d]}
Crowded(d) == place[d] > 0 /\ Cardinality(Beside(d)) > ListLimit

\* A list of an explorer holds the transfer, if it should.
Covering(path, list, d) ==
    /\ path = "mempool" => (place[d] = Pool => Holds(list, d))
    /\ path = "history" => Holds(list, d) \/ Crowded(d)

RestOK ==
    /\ rest \in [Transfers -> 0..CacheTTL]
    /\ \A d \in Transfers : /\ place[d] >= Unsent
                            /\ rest[d] > 0 => place[d] = Pool \/ place[d] \in 1..(tip - MaxLag)

EntryOK(path, entry) ==
    /\ DOMAIN entry = {"left", "body"}
    /\ entry.left \in 0..CacheTTL
    /\ entry.left > 0 =>
         \A d \in Transfers : rest[d] + entry.left > CacheTTL => Covering(path, entry.body.list, d)

EntriesOK == \A u \in Explorers, p \in {"mempool", "history"} : EntryOK(p, cache[u][p])

\* What SettledAreListed asks of a listing and a transfer.
Excused(j, d) ==
    \/ Holds(j.list, d) \/ ~Wanted(d) \/ ~InReach(d)
    \/ (family = "utxo" /\ j.second.state = "failed" /\ place[d] # Pool)
    \/ (family \in {"evm", "tron"} /\ place[d] = Pool)

\* A list was read: it failed, or it covers what it should.
ReadOK(path, answer, sure) ==
    \/ answer = Failed
    \/ answer.state = "ok" /\ \A d \in sure : Covering(path, answer.body.list, d)

ListOK(j) ==
    j.task = "list" =>
       /\ \A d \in j.sure : d \in Transfers /\ rest[d] = CacheTTL
       /\ j.pc = "second" /\ family = "utxo" => ReadOK("mempool", j.first, j.sure)
       /\ j.pc = "second" /\ family = "evm" =>
            /\ j.first.body.block \in 0..tip
            /\ \A d \in j.sure : place[d] <= j.first.body.block
       /\ j.pc = "listed" => \A d \in j.sure : Excused(j, d)

ListInv == Inv /\ RestOK /\ EntriesOK /\ ListOK(job)

\* Every server sees a transfer that has rested in its place.
LEMMA RestedIsSeen ==
    ASSUME Inv, RestOK, NEW d \in Transfers, rest[d] > 0, NEW h \in Views
    PROVE  /\ d \in Sent /\ Seen(d, h) = place[d] /\ place[d] \in Nat /\ place[d] <= h
           /\ d \in Mined(h) <=> place[d] > 0
  <1>1. h \in Int /\ h >= 0 /\ h >= tip - MaxLag /\ place[d] \in Int /\ tip \in Int
    BY DEF Views, Inv, ChainOK
  <1>2. place[d] = 0 \/ place[d] \in 1..(tip - MaxLag)
    BY DEF RestOK, Pool
  <1>3. place[d] \in Nat /\ place[d] <= h /\ (place[d] > 0 => place[d] \in 1..h)
    BY <1>1, <1>2 DEF TrackerAssumption
  <1>4. d \in Sent
    BY <1>3 DEF Sent, Unsent
  <1>5. Seen(d, h) = place[d]
    BY <1>3 DEF Seen, Pool
  <1> QED
    BY <1>3, <1>4, <1>5 DEF Mined, Pool

\* What a listing leaves out has as many before it as it holds.
LEMMA NewestFills ==
    ASSUME NEW ids, IsFiniteSet(ids), NEW h, NEW n \in Newest(ids, h), NEW d \in ids \ n,
           NEW T, IsFiniteSet(T), n \cup {d} \subseteq T
    PROVE  Cardinality(T) > ListLimit
  <1>1. /\ n \subseteq ids /\ Cardinality(n) = Min({Cardinality(ids), ListLimit})
    BY DEF Newest
  <1>2. /\ IsFiniteSet(n) /\ Cardinality(n) \in Nat /\ Cardinality(ids) \in Nat /\ Cardinality(T) \in Nat
        /\ Cardinality(n) # Cardinality(ids)
    BY <1>1, FS_Subset, FS_CardinalityType
  <1>3. {Cardinality(ids), ListLimit} \subseteq Nat /\ {Cardinality(ids), ListLimit} # {}
    BY <1>2 DEF TrackerAssumption
  <1>4. Min({Cardinality(ids), ListLimit}) \in {Cardinality(ids), ListLimit}
    BY <1>3, MinFacts
  <1>5. Cardinality(n) = ListLimit
    BY <1>1, <1>2, <1>4
  <1>6. IsFiniteSet(n \cup {d}) /\ Cardinality(n \cup {d}) = Cardinality(n) + 1
    BY <1>2, FS_AddElement
  <1>7. Cardinality(n \cup {d}) <= Cardinality(T)
    BY <1>6, FS_Subset
  <1> QED
    BY <1>2, <1>5, <1>6, <1>7 DEF TrackerAssumption

\* One that has rested and is mined, seen from the listing that leaves it out.
LEMMA NewestAreBeside ==
    ASSUME Inv, RestOK, NEW d \in Transfers, rest[d] > 0, NEW h \in Views,
           NEW ids \in SUBSET Sent, NEW n \in Newest(ids, h), d \in ids \ n
    PROVE  \A e \in n \cup {d} : e \in Sent /\ place[e] >= place[d]
  <1>1. d \in Sent /\ Seen(d, h) = place[d] /\ place[d] \in Nat
    BY RestedIsSeen
  <1>2. ASSUME NEW e \in n PROVE e \in Sent /\ place[e] >= place[d]
    <2>1. e \in Sent /\ e \in Transfers /\ place[e] \in Int /\ place[e] >= 0
      <3>1. e \in Sent
        BY DEF Newest
      <3> QED
        BY <3>1 DEF Sent, RestOK, Unsent, Inv, ChainOK
    <2>2. Seen(e, h) >= place[d]
      BY <1>1 DEF Newest
    <2> QED
      BY <1>1, <2>1, <2>2 DEF Seen, Pool
  <1> QED
    BY <1>1, <1>2

LEMMA SentIsFinite == ASSUME NEW T, T \subseteq Sent PROVE IsFiniteSet(T)
  <1>1. T \subseteq Transfers
    BY DEF Sent
  <1> QED
    BY <1>1, FS_Subset DEF TrackerAssumption

\* A new answer covers every transfer that has rested.
LEMMA NewCovers ==
    ASSUME Inv, RestOK, NEW h \in Views, NEW p \in {"mempool", "history"}, NEW b \in Bodies(p, h),
           NEW d \in Transfers, rest[d] > 0
    PROVE  Covering(p, b.list, d)
  <1>1. /\ d \in Sent /\ Seen(d, h) = place[d] /\ place[d] \in Nat
        /\ d \in Mined(h) <=> place[d] > 0
    BY RestedIsSeen
  <1>2. PICK pooled : pooled = Sent \ Mined(h)
    OBVIOUS
  <1>3. Item(d, h).id = d
    BY DEF Item
  <1>4. p \notin Transfers
    BY DEF TrackerAssumption
  <1>5. CASE p = "mempool"
    <2>1. b.list = Items(pooled, h)
      BY <1>2, <1>4, <1>5 DEF Bodies
    <2>2. place[d] = Pool => Item(d, h) \in b.list
      BY <1>1, <1>2, <2>1 DEF Items, Pool
    <2> QED
      BY <1>3, <1>5, <2>2 DEF Covering, Holds
  <1>6. CASE p = "history"
    <2>1. PICK n \in Newest(Mined(h), h) : b.list = Items(pooled \cup n, h)
      <3>1. b \in {[list |-> Items(pooled \cup n, h), block |-> 0] : n \in Newest(Mined(h), h)}
        BY <1>2, <1>4, <1>6 DEF Bodies
      <3> QED
        BY <3>1
    <2>2. CASE d \in pooled \cup n
      <3>1. Item(d, h) \in b.list
        BY <2>1, <2>2 DEF Items
      <3> QED
        BY <1>3, <1>6, <3>1 DEF Covering, Holds
    <2>3. CASE d \notin pooled \cup n
      <3>1. d \in Mined(h) \ n /\ place[d] > 0 /\ Mined(h) \subseteq Sent
        BY <1>1, <1>2, <2>3 DEF Mined
      <3>2. n \cup {d} \subseteq Beside(d) /\ Beside(d) \subseteq Sent
        BY <3>1, NewestAreBeside DEF Beside
      <3>3. Cardinality(Beside(d)) > ListLimit
        BY <3>1, <3>2, NewestFills, SentIsFinite
      <3> QED
        BY <1>6, <3>1, <3>3 DEF Covering, Crowded
    <2> QED
      BY <2>2, <2>3
  <1> QED
    BY <1>5, <1>6

-----------------------------------------------------------------------------
(* Time goes on: what has rested stays in its place, and no listing goes   *)
(* further back                                                            *)

\* A step of the chain, if any.
Advance ==
    /\ Grow /\ asset' = asset
    /\ \A e \in Transfers :
         \/ place'[e] = place[e]
         \/ place[e] = Unsent /\ place'[e] = Pool
         \/ place[e] = Pool /\ place'[e] > tip

LEMMA MoreAreBeside ==
    ASSUME Inv, RestOK, Advance, NEW d \in Transfers, place'[d] = place[d]
    PROVE  /\ Sent \subseteq Sent'
           /\ \A e \in Sent : /\ place[e] >= place[d] => place'[e] >= place'[d]
                              /\ place[e] = Pool => place'[e] >= place'[d] \/ place'[e] = Pool
  <1>1. ASSUME NEW e \in Sent
        PROVE  /\ e \in Sent'
               /\ place[e] >= place[d] => place'[e] >= place'[d]
               /\ place[e] = Pool => place'[e] >= place'[d] \/ place'[e] = Pool
    <2>1. /\ e \in Transfers /\ place[e] \in Int /\ place'[e] \in Int /\ place[d] \in Int /\ tip \in Nat
          /\ place[e] >= 0 /\ place[d] <= tip
          /\ place'[e] = place[e] \/ (place[e] = 0 /\ place'[e] > tip)
      BY DEF Sent, Unsent, Pool, Inv, ChainOK, RestOK, Advance, Grow
    <2> QED
      BY <2>1 DEF Sent, Unsent, Pool
  <1> QED
    BY <1>1

LEMMA CountsGrow ==
    ASSUME NEW S, NEW T, IsFiniteSet(T), S \subseteq T
    PROVE  Cardinality(S) \in Nat /\ Cardinality(T) \in Nat /\ Cardinality(S) <= Cardinality(T)
  BY FS_Subset, FS_CardinalityType

LEMMA SentStaysFinite == ASSUME NEW T, T \subseteq Sent' PROVE IsFiniteSet(T)
  <1>1. T \subseteq Transfers
    BY DEF Sent
  <1> QED
    BY <1>1, FS_Subset DEF TrackerAssumption

LEMMA CoveringStays ==
    ASSUME Inv, RestOK, Advance, NEW d \in Transfers, place'[d] = place[d],
           NEW p, NEW list, Covering(p, list, d)
    PROVE  Covering(p, list, d)'
  <1>1. Crowded(d) => Crowded(d)'
    <2>1. PICK S : S = Beside(d)
      OBVIOUS
    <2>2. PICK T : T = Beside(d)'
      OBVIOUS
    <2>3. S \subseteq T
      BY <2>1, <2>2, MoreAreBeside DEF Beside
    <2>4. IsFiniteSet(T)
      BY <2>2, SentStaysFinite DEF Beside
    <2>5. Cardinality(S) \in Nat /\ Cardinality(T) \in Nat /\ Cardinality(S) <= Cardinality(T)
      BY <2>3, <2>4, CountsGrow
    <2> QED
      BY <2>1, <2>2, <2>5 DEF Crowded, TrackerAssumption
  <1> QED
    BY <1>1 DEF Covering, Holds

LEMMA ReachStays ==
    ASSUME Inv, RestOK, Advance, NEW d \in Transfers, place'[d] = place[d], InReach(d)'
    PROVE  InReach(d)
  <1>1. CASE family = "evm"
    <2>1. tip <= tip' /\ tip \in Int /\ tip' \in Int /\ place[d] \in Int /\ family' = "evm"
      BY <1>1 DEF Advance, Grow, Inv, ChainOK
    <2> QED
      BY <1>1, <2>1 DEF InReach, TrackerAssumption
  <1>2. CASE family = "utxo"
    <2>1. PICK S : S = {e \in Sent : place[e] >= place[d]}
      OBVIOUS
    <2>2. PICK T : T = {e \in Sent : place[e] >= place[d]}'
      OBVIOUS
    <2>3. S \subseteq T
      BY <2>1, <2>2, MoreAreBeside
    <2>4. IsFiniteSet(T)
      BY <2>2, SentStaysFinite
    <2>5. Cardinality(S) \in Nat /\ Cardinality(T) \in Nat /\ Cardinality(S) <= Cardinality(T)
      BY <2>3, <2>4, CountsGrow
    <2>6. family' = "utxo"
      BY <1>2 DEF Advance, Grow
    <2>7. place'[d] = Pool \/ Cardinality(T) <= ListLimit
      BY <2>2, <2>6 DEF InReach
    <2>8. place[d] = Pool \/ Cardinality(S) <= ListLimit
      BY <2>5, <2>7 DEF TrackerAssumption
    <2> QED
      BY <1>2, <2>1, <2>8 DEF InReach
  <1>3. CASE family # "evm" /\ family # "utxo"
    <2>1. PICK S : S = {e \in Sent : place[e] >= place[d] \/ place[e] = Pool}
      OBVIOUS
    <2>2. PICK T : T = {e \in Sent : place[e] >= place[d] \/ place[e] = Pool}'
      OBVIOUS
    <2>3. S \subseteq T
      BY <2>1, <2>2, MoreAreBeside
    <2>4. IsFiniteSet(T)
      BY <2>2, SentStaysFinite
    <2>5. Cardinality(S) \in Nat /\ Cardinality(T) \in Nat /\ Cardinality(S) <= Cardinality(T)
      BY <2>3, <2>4, CountsGrow
    <2>6. family' # "evm" /\ family' # "utxo"
      BY <1>3 DEF Advance, Grow
    <2>7. Cardinality(T) <= ListLimit
      BY <2>2, <2>6 DEF InReach
    <2>8. Cardinality(S) <= ListLimit
      BY <2>5, <2>7 DEF TrackerAssumption
    <2> QED
      BY <1>3, <2>1, <2>8 DEF InReach
  <1> QED
    BY <1>1, <1>2, <1>3

LEMMA ExcusedStays ==
    ASSUME Inv, RestOK, Advance, NEW d \in Transfers, place'[d] = place[d],
           NEW j, Excused(j, d)
    PROVE  Excused(j, d)'
  <1>1. family' = family /\ asset' = asset
    BY DEF Advance, Grow
  <1>2. Wanted(d)' <=> Wanted(d)
    BY <1>1 DEF Wanted
  <1> QED
    BY <1>1, <1>2, ReachStays DEF Excused, Holds

\* A job none of whose sure transfers moves.
LEMMA ListStays ==
    ASSUME Inv, RestOK, Advance, NEW j, ListOK(j),
           \A d \in j.sure : place'[d] = place[d] /\ rest'[d] = CacheTTL
    PROVE  ListOK(j)'
  <1> SUFFICES ASSUME j.task = "list" PROVE ListOK(j)'
    BY DEF ListOK
  <1>1. family' = family /\ tip' \in Nat /\ tip <= tip' /\ tip \in Nat
    BY DEF Advance, Grow, Inv, ChainOK
  <1>2. \A d \in j.sure : d \in Transfers /\ rest'[d] = CacheTTL
    BY DEF ListOK
  <1>3. ASSUME j.pc = "second", family' = "utxo" PROVE ReadOK("mempool", j.first, j.sure)'
    <2>1. ReadOK("mempool", j.first, j.sure)
      BY <1>1, <1>3 DEF ListOK
    <2>2. ASSUME NEW d \in j.sure, Covering("mempool", j.first.body.list, d)
          PROVE  Covering("mempool", j.first.body.list, d)'
      <3>1. d \in Transfers /\ place'[d] = place[d]
        BY <1>2
      <3> QED
        BY <2>2, <3>1, CoveringStays
    <2> QED
      BY <2>1, <2>2 DEF ReadOK
  <1>4. ASSUME j.pc = "second", family' = "evm"
        PROVE  j.first.body.block \in 0..tip' /\ \A d \in j.sure : place'[d] <= j.first.body.block
    BY <1>1, <1>4 DEF ListOK
  <1>5. ASSUME j.pc = "listed", NEW d \in j.sure PROVE Excused(j, d)'
    <2>1. Excused(j, d) /\ d \in Transfers /\ place'[d] = place[d]
      BY <1>2, <1>5 DEF ListOK
    <2> QED
      BY <2>1, ExcusedStays
  <1> QED
    BY <1>2, <1>3, <1>4, <1>5 DEF ListOK

LEMMA EntriesStay ==
    ASSUME Inv, RestOK, EntriesOK, Advance, cache' = cache,
           \A d \in Transfers : rest'[d] = 0 \/ (rest'[d] = rest[d] /\ place'[d] = place[d])
    PROVE  EntriesOK'
  <1> SUFFICES ASSUME NEW u \in Explorers, NEW p \in {"mempool", "history"}
               PROVE  EntryOK(p, cache[u][p])'
    BY DEF EntriesOK
  <1>1. PICK entry : entry = cache[u][p]
    OBVIOUS
  <1>2. EntryOK(p, entry)
    BY <1>1 DEF EntriesOK
  <1>3. ASSUME entry.left > 0, NEW d \in Transfers, rest'[d] + entry.left > CacheTTL
        PROVE  Covering(p, entry.body.list, d)'
    <2>1. entry.left \in 0..CacheTTL /\ CacheTTL \in Nat
      BY <1>2 DEF EntryOK, TrackerAssumption
    <2>2. rest'[d] # 0
      BY <1>3, <2>1
    <2>3. rest'[d] = rest[d] /\ place'[d] = place[d]
      BY <2>2
    <2>4. Covering(p, entry.body.list, d)
      BY <1>2, <1>3, <2>3 DEF EntryOK
    <2> QED
      BY <2>3, <2>4, CoveringStays
  <1>4. EntryOK(p, entry)'
    BY <1>2, <1>3 DEF EntryOK
  <1> QED
    BY <1>1, <1>4 DEF EntryOK, Covering, Crowded, Beside, Sent

\* A step that leaves the chain and the explorers alone.
LEMMA ListingStep ==
    ASSUME ListInv, Inv', UNCHANGED <<chainState, provider>>, ListOK(job')
    PROVE  ListInv'
  <1>1. Inv /\ RestOK /\ EntriesOK
    BY DEF ListInv
  <1>2. UNCHANGED <<family, asset, tip, place, rest, cache>>
    BY DEF chainState, provider
  <1>3. Advance
    BY <1>1, <1>2 DEF Advance, Grow, Inv, ChainOK
  <1>4. RestOK'
    BY <1>1, <1>2 DEF RestOK
  <1>5. EntriesOK'
    BY <1>1, <1>2, <1>3, EntriesStay
  <1>6. ListOK(job)'
    <2>1. PICK j : j = job'
      OBVIOUS
    <2>2. ListOK(j)
      BY <2>1
    <2>3. CASE j.task = "list"
      <3>1. \A d \in j.sure : place'[d] = place[d] /\ rest'[d] = CacheTTL
        BY <1>2, <2>2, <2>3 DEF ListOK
      <3>2. ListOK(j)'
        BY <1>1, <1>3, <2>2, <3>1, ListStays
      <3> QED
        BY <2>1, <3>2 DEF ListOK, ReadOK, Covering, Crowded, Beside, Sent, Excused, InReach, Wanted
    <2>4. CASE j.task # "list"
      BY <2>1, <2>4 DEF ListOK
    <2> QED
      BY <2>3, <2>4
  <1> QED
    BY <1>4, <1>5, <1>6 DEF ListInv

\* Receipts are no listings, and a listing that failed holds nothing.
LEMMA OtherTask == ASSUME NEW j, j.task # "list" PROVE ListOK(j)
  BY DEF ListOK

LEMMA StartListingLists == ListInv /\ StartListing => ListInv'
  <1> SUFFICES ASSUME ListInv, StartListing PROVE ListInv'
    OBVIOUS
  <1>1. Inv'
    BY StartListingStep DEF ListInv
  <1>2. DOMAIN job = Fields
    BY DEF ListInv, Inv, JobOK
  <1>3. job'.pc = "first" /\ job'.sure = {d \in Sent : Settled(d)}
    BY <1>2 DEF StartListing, Fields
  <1>4. ListOK(job')
    BY <1>3 DEF ListOK, Sent, Settled
  <1> QED
    BY <1>1, <1>4, ListingStep DEF StartListing

LEMMA FinishLists == ListInv /\ Finish => ListInv'
  <1> SUFFICES ASSUME ListInv, Finish PROVE ListInv'
    OBVIOUS
  <1>1. Inv'
    BY FinishStep DEF ListInv
  <1>2. job' = NoJob(job.task)
    BY DEF Finish
  <1>3. job'.pc = "idle" /\ job'.sure = {}
    BY <1>2 DEF NoJob
  <1>4. ListOK(job')
    BY <1>3 DEF ListOK
  <1> QED
    BY <1>1, <1>4, ListingStep DEF Finish

LEMMA RequestFailsLists == ListInv /\ RequestFails => ListInv'
  <1> SUFFICES ASSUME ListInv, RequestFails PROVE ListInv'
    OBVIOUS
  <1>1. Inv'
    BY RequestFailsStep DEF ListInv
  <1>2. DOMAIN job = Fields
    BY DEF ListInv, Inv, JobOK
  <1>3. job'.task = job.task /\ job'.pc = "error" /\ job'.sure = job.sure
    BY <1>2 DEF RequestFails, Fields
  <1>4. ListOK(job')
    BY <1>3 DEF ListOK, ListInv
  <1> QED
    BY <1>1, <1>4, ListingStep DEF RequestFails

\* The steps of a receipt that ask no explorer.
LEMMA ReceiptLists ==
    ASSUME ListInv, \/ \E d \in Transfers : StartReceipt(d)
                    \/ ReadReceipt \/ ReadLatest \/ MakeReceipt
    PROVE  ListInv'
  <1>1. Inv'
    BY StartReceiptStep, ReadReceiptStep, ReadLatestStep, MakeReceiptStep DEF ListInv
  <1>2. DOMAIN job = Fields /\ job.task = "receipt"
    BY DEF ListInv, Inv, JobOK, StartReceipt, ReadReceipt, ReadLatest, MakeReceipt, Is
  <1>3. job'.task = "receipt" /\ UNCHANGED <<chainState, provider>>
    BY <1>2 DEF StartReceipt, ReadReceipt, ReadLatest, MakeReceipt, Received, Fields
  <1>4. ListOK(job')
    BY <1>3, OtherTask
  <1> QED
    BY <1>1, <1>3, <1>4, ListingStep

-----------------------------------------------------------------------------
(* Listings that ask one server *)

LEMMA ListTatumLists == ListInv /\ ListTatum => ListInv'
  <1> SUFFICES ASSUME ListInv, ListTatum PROVE ListInv'
    OBVIOUS
  <1>1. Inv'
    BY OtherListings DEF ListInv
  <1>2. Inv /\ RestOK /\ ListOK(job) /\ DOMAIN job = Fields /\ job.task = "list" /\ family = "tatum"
    BY DEF ListInv, Inv, JobOK, ListTatum
  <1>3. PICK h \in Views : \E n \in Newest(Sent, h) :
            job' = [job EXCEPT !.pc = "listed", !.list = {i \in Items(n, h) : bitcoinIncoming(i)}]
    BY DEF ListTatum
  <1>4. PICK n \in Newest(Sent, h) :
            job' = [job EXCEPT !.pc = "listed", !.list = {i \in Items(n, h) : bitcoinIncoming(i)}]
    BY <1>3
  <1>5. job'.task = "list" /\ job'.pc = "listed" /\ job'.sure = job.sure
        /\ job'.list = {i \in Items(n, h) : bitcoinIncoming(i)}
    BY <1>2, <1>4 DEF Fields
  <1>6. ASSUME NEW d \in job.sure PROVE Excused(job', d)
    <2>1. d \in Transfers /\ rest[d] = CacheTTL /\ rest[d] > 0
      BY <1>2 DEF ListOK, TrackerAssumption
    <2>2. d \in Sent
      BY <1>2, <2>1, RestedIsSeen
    <2>3. CASE d \in n
      <3>1. Item(d, h) \in Items(n, h) /\ Item(d, h).id = d
        BY <2>3 DEF Items, Item
      <3>2. Wanted(d) => bitcoinIncoming(Item(d, h))
        BY <3>1 DEF Wanted, bitcoinIncoming
      <3> QED
        BY <1>5, <3>1, <3>2 DEF Excused, Holds
    <2>4. CASE d \notin n
      <3>1. PICK T : T = {e \in Sent : place[e] >= place[d] \/ place[e] = Pool}
        OBVIOUS
      <3>2. n \cup {d} \subseteq T /\ IsFiniteSet(T) /\ IsFiniteSet(Sent)
        BY <1>2, <2>1, <2>2, <2>4, <3>1, NewestAreBeside, SentIsFinite
      <3>3. Cardinality(T) > ListLimit
        BY <2>2, <2>4, <3>2, NewestFills
      <3>4. Cardinality(T) \in Nat
        BY <3>2, FS_CardinalityType
      <3>5. ~InReach(d)
        BY <1>2, <3>1, <3>3, <3>4 DEF InReach, TrackerAssumption
      <3> QED
        BY <3>5 DEF Excused
    <2> QED
      BY <2>3, <2>4
  <1>7. ListOK(job')
    BY <1>2, <1>5, <1>6 DEF ListOK
  <1> QED
    BY <1>1, <1>7, ListingStep DEF ListTatum

LEMMA ListTronLists == ListInv /\ ListTron => ListInv'
  <1> SUFFICES ASSUME ListInv, ListTron PROVE ListInv'
    OBVIOUS
  <1>1. Inv'
    BY OtherListings DEF ListInv
  <1>2. Inv /\ RestOK /\ ListOK(job) /\ DOMAIN job = Fields /\ job.task = "list" /\ family = "tron"
    BY DEF ListInv, Inv, JobOK, ListTron
  <1> DEFINE In(i) == IF asset = "coin" THEN tronIncoming(i) ELSE tronTokenIncoming(i)
  <1>3. PICK h \in Views : \E n \in Newest(Mined(h), h) :
            job' = [job EXCEPT !.pc = "listed", !.list = {i \in Items(n, h) : In(i)}]
    BY DEF ListTron
  <1>4. PICK n \in Newest(Mined(h), h) :
            job' = [job EXCEPT !.pc = "listed", !.list = {i \in Items(n, h) : In(i)}]
    BY <1>3
  <1>5. job'.task = "list" /\ job'.pc = "listed" /\ job'.sure = job.sure
        /\ job'.list = {i \in Items(n, h) : In(i)}
    BY <1>2, <1>4 DEF Fields
  <1>6. ASSUME NEW d \in job.sure PROVE Excused(job', d)
    <2>1. d \in Transfers /\ rest[d] = CacheTTL /\ rest[d] > 0
      BY <1>2 DEF ListOK, TrackerAssumption
    <2>2. d \in Sent /\ (d \in Mined(h) <=> place[d] > 0) /\ place[d] \in Nat
      BY <1>2, <2>1, RestedIsSeen
    <2>3. CASE d \in n
      <3>1. Item(d, h) \in Items(n, h) /\ Item(d, h).id = d
        BY <2>3 DEF Items, Item
      <3>2. Wanted(d) => In(Item(d, h))
        BY <1>2, <3>1 DEF Wanted, tronIncoming, tronTokenIncoming
      <3> QED
        BY <1>5, <3>1, <3>2 DEF Excused, Holds
    <2>4. CASE place[d] = 0
      BY <1>2, <2>4 DEF Excused, Pool
    <2>5. CASE d \notin n /\ place[d] > 0
      <3>1. PICK T : T = {e \in Sent : place[e] >= place[d] \/ place[e] = Pool}
        OBVIOUS
      <3>2. Mined(h) \subseteq Sent /\ d \in Mined(h) \ n
        BY <2>2, <2>5 DEF Mined
      <3>3. n \cup {d} \subseteq T /\ IsFiniteSet(T) /\ IsFiniteSet(Mined(h))
        BY <1>2, <2>1, <3>1, <3>2, NewestAreBeside, SentIsFinite
      <3>4. Cardinality(T) > ListLimit
        BY <3>2, <3>3, NewestFills
      <3>5. Cardinality(T) \in Nat
        BY <3>3, FS_CardinalityType
      <3>6. ~InReach(d)
        BY <1>2, <3>1, <3>4, <3>5 DEF InReach, TrackerAssumption
      <3> QED
        BY <3>6 DEF Excused
    <2> QED
      BY <2>2, <2>3, <2>4, <2>5
  <1>7. ListOK(job')
    BY <1>2, <1>5, <1>6 DEF ListOK
  <1> QED
    BY <1>1, <1>7, ListingStep DEF ListTron

LEMMA EvmLatestLists == ListInv /\ EvmLatest => ListInv'
  <1> SUFFICES ASSUME ListInv, EvmLatest PROVE ListInv'
    OBVIOUS
  <1>1. Inv'
    BY OtherListings DEF ListInv
  <1>2. Inv /\ RestOK /\ ListOK(job) /\ DOMAIN job = Fields /\ job.task = "list" /\ family = "evm"
    BY DEF ListInv, Inv, JobOK, EvmLatest
  <1>3. PICK h \in Views : job' = [job EXCEPT !.pc = "second", !.first = Ok([list |-> {}, block |-> h])]
    BY DEF EvmLatest
  <1>4. job'.task = "list" /\ job'.pc = "second" /\ job'.sure = job.sure /\ job'.first.body.block = h
    BY <1>2, <1>3 DEF Fields, Ok
  <1>5. h \in 0..tip
    BY DEF Views
  <1>6. \A d \in job.sure : d \in Transfers /\ rest[d] = CacheTTL /\ rest[d] > 0
    BY <1>2 DEF ListOK, TrackerAssumption
  <1>7. \A d \in job.sure : place[d] <= h
    BY <1>2, <1>6, RestedIsSeen
  <1>8. ListOK(job')
    BY <1>2, <1>4, <1>5, <1>6, <1>7 DEF ListOK
  <1> QED
    BY <1>1, <1>8, ListingStep DEF EvmLatest

LEMMA EvmScanLists == ListInv /\ EvmScan => ListInv'
  <1> SUFFICES ASSUME ListInv, EvmScan PROVE ListInv'
    OBVIOUS
  <1>1. Inv'
    BY OtherListings DEF ListInv
  <1>2. /\ Inv /\ RestOK /\ ListOK(job) /\ DOMAIN job = Fields /\ job.task = "list" /\ family = "evm"
        /\ job.pc = "second"
    BY DEF ListInv, Inv, JobOK, EvmScan, Is
  <1>3. PICK latest : latest = job.first.body.block
    OBVIOUS
  <1> DEFINE inScan == {d \in Sent : place[d] \in evmScanFromBlock(latest)..latest /\ About[d].ours}
             found == IF asset = "coin" THEN {d \in inScan : About[d].amount > 0}
                      ELSE {d \in inScan : About[d].success}
  <1>4. job' = [job EXCEPT !.pc = "listed", !.list = Items(found, latest)]
    BY <1>3 DEF EvmScan
  <1>5. job'.task = "list" /\ job'.pc = "listed" /\ job'.sure = job.sure /\ job'.list = Items(found, latest)
    BY <1>2, <1>4 DEF Fields
  <1>6. latest \in 0..tip /\ \A d \in job.sure : place[d] <= latest /\ d \in Transfers /\ rest[d] = CacheTTL
    BY <1>2, <1>3 DEF ListOK
  <1>7. ASSUME NEW d \in job.sure PROVE Excused(job', d)
    <2>1. d \in Transfers /\ rest[d] > 0
      BY <1>6 DEF TrackerAssumption
    <2>2. place[d] = 0 \/ place[d] \in 1..(tip - MaxLag)
      BY <1>2, <2>1 DEF RestOK, Pool
    <2>3. CASE place[d] = 0 \/ ~Wanted(d) \/ ~InReach(d)
      BY <1>2, <2>3 DEF Excused, Pool
    <2>4. CASE place[d] > 0 /\ Wanted(d) /\ InReach(d)
      <3>1. place[d] \in Int /\ tip \in Int /\ latest \in Int /\ ScanBlocks \in Int
        BY <1>2, <1>6, <2>1 DEF Inv, ChainOK, TrackerAssumption
      <3>2. place[d] > tip - ScanBlocks /\ place[d] <= latest
        BY <1>2, <1>6, <2>4 DEF InReach
      <3>3. place[d] \in evmScanFromBlock(latest)..latest
        BY <1>6, <2>4, <3>1, <3>2 DEF evmScanFromBlock
      <3>4. d \in found
        BY <2>1, <2>4, <3>1, <3>3 DEF Sent, Unsent, Wanted
      <3> HIDE DEF found
      <3>5. Item(d, latest) \in job'.list /\ Item(d, latest).id = d
        BY <1>5, <3>4 DEF Items, Item
      <3> QED
        BY <3>5 DEF Excused, Holds
    <2> QED
      BY <2>2, <2>3, <2>4
  <1>8. ListOK(job')
    BY <1>2, <1>5, <1>6, <1>7 DEF ListOK
  <1> QED
    BY <1>1, <1>8, ListingStep DEF EvmScan

-----------------------------------------------------------------------------
(* Listings of explorers *)

\* The answer for a list covers all that had settled, and so does what the cache keeps.
LEMMA AnswersCover ==
    ASSUME ListInv, NEW p \in {"mempool", "history"}, NEW r \in getRawFromURLs(p)
    PROVE  /\ EntryOK(p, r.get.entry)
           /\ \/ r.answer = Failed
              \/ r.answer.state = "ok"
                 /\ \A d \in Transfers : rest[d] = CacheTTL => Covering(p, r.answer.body.list, d)
  <1> DEFINE u == utxoURLs[job.url]
             same == [ok |-> FALSE, body |-> Nothing, entry |-> cache[u][p], cool |-> cooldown[u][p]]
             Told(o) == /\ EntryOK(p, o.entry) /\ o.ok \in BOOLEAN
                        /\ o.ok => \A d \in Transfers : rest[d] = CacheTTL => Covering(p, o.body.list, d)
  <1>0. Inv /\ RestOK /\ EntriesOK /\ CacheTTL \in Nat /\ CacheTTL > 0
    BY DEF ListInv, TrackerAssumption
  <1>1. u \in Explorers
    BY <1>0, SomeExplorers DEF Inv, JobOK
  <1>2. EntryOK(p, cache[u][p])
    BY <1>0, <1>1 DEF EntriesOK
  <1>3. PICK o \in getRaw(u, p) :
            r = [get |-> o, done |-> o.ok \/ job.url = Len(utxoURLs), answer |-> IF o.ok THEN Ok(o.body) ELSE Failed]
    BY DEF getRawFromURLs
  <1>4. Told(o)
    <2> HIDE DEF u
    <2>1. CASE cachedGet(u, p)
      <3>1. o = [same EXCEPT !.ok = TRUE, !.body = cache[u][p].body]
        BY <1>3, <2>1 DEF getRaw
      <3>2. o.ok = TRUE /\ o.body = cache[u][p].body /\ o.entry = cache[u][p]
        BY <3>1
      <3>3. \A d \in Transfers : rest[d] = CacheTTL => Covering(p, cache[u][p].body.list, d)
        BY <1>0, <1>2, <2>1 DEF EntryOK, cachedGet
      <3> QED
        BY <1>2, <3>2, <3>3
    <2>2. CASE ~cachedGet(u, p) /\ cooldown[u][p] > 0
      <3>1. o = same
        BY <1>3, <2>2 DEF getRaw
      <3> QED
        BY <1>2, <3>1
    <2>3. CASE ~cachedGet(u, p) /\ ~(cooldown[u][p] > 0)
      <3>1. o \in {[ok |-> TRUE, body |-> b, entry |-> [left |-> CacheTTL, body |-> b], cool |-> 0] :
                      b \in UNION {Bodies(p, h) : h \in Views}}
                   \cup {[same EXCEPT !.cool = c] : c \in {TransientCooldown, RateLimitCooldown, 0}}
        BY <1>3, <2>3 DEF getRaw
      <3>2. \/ \E h \in Views : \E b \in Bodies(p, h) :
                  o = [ok |-> TRUE, body |-> b, entry |-> [left |-> CacheTTL, body |-> b], cool |-> 0]
            \/ \E c \in {TransientCooldown, RateLimitCooldown, 0} : o = [same EXCEPT !.cool = c]
        BY <3>1
      <3>3. ASSUME NEW h \in Views, NEW b \in Bodies(p, h),
                   o = [ok |-> TRUE, body |-> b, entry |-> [left |-> CacheTTL, body |-> b], cool |-> 0]
            PROVE  Told(o)
        <4>1. \A d \in Transfers : rest[d] > 0 => Covering(p, b.list, d)
          BY <1>0, NewCovers
        <4>2. /\ o.ok = TRUE /\ o.body = b /\ o.entry.body = b /\ o.entry.left = CacheTTL
              /\ DOMAIN o.entry = {"left", "body"}
          BY <3>3
        <4>3. \A d \in Transfers : rest[d] \in Nat
          BY <1>0 DEF RestOK
        <4>4. \A d \in Transfers : rest[d] + CacheTTL > CacheTTL => rest[d] > 0
          BY <1>0, <4>3
        <4>5. EntryOK(p, o.entry)
          BY <1>0, <4>1, <4>2, <4>4 DEF EntryOK
        <4>6. \A d \in Transfers : rest[d] = CacheTTL => Covering(p, o.body.list, d)
          BY <1>0, <4>1, <4>2
        <4> QED
          BY <4>2, <4>5, <4>6
      <3>4. CASE \E c \in {TransientCooldown, RateLimitCooldown, 0} : o = [same EXCEPT !.cool = c]
        <4>1. o.ok = FALSE /\ o.entry = cache[u][p]
          BY <3>4
        <4> QED
          BY <1>2, <4>1
      <3> QED
        BY <3>2, <3>3, <3>4
    <2> QED
      BY <2>1, <2>2, <2>3
  <1>5. r.get = o /\ r.answer = IF o.ok THEN Ok(o.body) ELSE Failed
    BY <1>3
  <1>6. CASE o.ok
    <2>1. r.answer.state = "ok" /\ r.answer.body = o.body
      BY <1>5, <1>6 DEF Ok
    <2> QED
      BY <1>4, <1>5, <1>6, <2>1
  <1>7. CASE ~o.ok
    BY <1>4, <1>5, <1>7
  <1> QED
    BY <1>6, <1>7

\* A request of an explorer, for a list or for a receipt.
LEMMA FetchLists ==
    ASSUME ListInv, Inv', NEW path \in Paths, NEW r \in getRawFromURLs(path),
           cache' = [cache EXCEPT ![utxoURLs[job.url]][path] = r.get.entry],
           UNCHANGED chainState, ListOK(job')
    PROVE  ListInv'
  <1>1. Inv /\ RestOK /\ EntriesOK
    BY DEF ListInv
  <1>2. UNCHANGED <<family, asset, tip, place, rest>>
    BY DEF chainState
  <1>3. RestOK'
    BY <1>1, <1>2 DEF RestOK
  <1>4. EntriesOK'
    <2> SUFFICES ASSUME NEW v \in Explorers, NEW p \in {"mempool", "history"}
                 PROVE  EntryOK(p, cache[v][p])'
      BY DEF EntriesOK
    <2>1. cache'[v][p] = cache[v][p] \/ (p = path /\ cache'[v][p] = r.get.entry)
      BY <1>1 DEF Inv, CacheOK, Paths
    <2>2. PICK entry : entry = cache'[v][p]
      OBVIOUS
    <2>3. EntryOK(p, entry)
      BY <1>1, <2>1, <2>2, AnswersCover DEF EntriesOK
    <2> QED
      BY <1>2, <2>2, <2>3 DEF EntryOK, Covering, Crowded, Beside, Sent
  <1>5. ListOK(job)'
    BY <1>2 DEF ListOK, ReadOK, Covering, Crowded, Beside, Sent, Excused, InReach, Wanted
  <1> QED
    BY <1>3, <1>4, <1>5 DEF ListInv

\* The next explorer is asked for the same list.
LEMMA NextURLLists ==
    ASSUME ListInv, DOMAIN job = Fields PROVE ListOK([job EXCEPT !.url = @ + 1])
  <1>1. PICK j : j = [job EXCEPT !.url = @ + 1]
    OBVIOUS
  <1>2. /\ j.task = job.task /\ j.pc = job.pc /\ j.sure = job.sure /\ j.first = job.first
        /\ j.second = job.second /\ j.list = job.list
    BY <1>1 DEF Fields
  <1>3. ListOK(j)
    BY <1>2 DEF ListInv, ListOK, Excused
  <1> QED
    BY <1>1, <1>3

LEMMA ReadMempoolLists == ListInv /\ ReadMempool => ListInv'
  <1> SUFFICES ASSUME ListInv, ReadMempool PROVE ListInv'
    OBVIOUS
  <1>1. Inv'
    BY ReadMempoolStep DEF ListInv
  <1>2. /\ Inv /\ RestOK /\ ListOK(job) /\ DOMAIN job = Fields /\ job.task = "list" /\ family = "utxo"
        /\ "mempool" \in Paths
    BY DEF ListInv, Inv, JobOK, ReadMempool, Paths
  <1>3. PICK r \in getRawFromURLs("mempool") :
          /\ cache' = [cache EXCEPT ![utxoURLs[job.url]]["mempool"] = r.get.entry]
          /\ job' = IF r.done THEN [job EXCEPT !.first = r.answer, !.pc = "second", !.url = 1]
                    ELSE [job EXCEPT !.url = @ + 1]
          /\ UNCHANGED chainState
    BY DEF ReadMempool, Fetch
  <1>4. CASE r.done
    <2>1. job'.task = "list" /\ job'.pc = "second" /\ job'.sure = job.sure /\ job'.first = r.answer
      BY <1>2, <1>3, <1>4 DEF Fields
    <2>2. \A d \in job.sure : d \in Transfers /\ rest[d] = CacheTTL
      BY <1>2 DEF ListOK
    <2>3. \/ r.answer = Failed
          \/ r.answer.state = "ok"
             /\ \A d \in Transfers : rest[d] = CacheTTL => Covering("mempool", r.answer.body.list, d)
      BY AnswersCover
    <2>4. ReadOK("mempool", job'.first, job'.sure)
      BY <2>1, <2>2, <2>3 DEF ReadOK
    <2>5. ListOK(job')
      BY <1>2, <2>1, <2>2, <2>4 DEF ListOK
    <2> QED
      BY <1>1, <1>2, <1>3, <2>5, FetchLists
  <1>5. CASE ~r.done
    <2>1. ListOK(job')
      BY <1>2, <1>3, <1>5, NextURLLists
    <2> QED
      BY <1>1, <1>2, <1>3, <2>1, FetchLists
  <1> QED
    BY <1>4, <1>5

\* What either of two lists holds is in the listing, if it is wanted.
LEMMA FromExplorerHolds ==
    ASSUME NEW first, NEW second, NEW d, Wanted(d),
           Holds(first.body.list, d) \/ Holds(second.body.list, d)
    PROVE  Holds(fromExplorer(first, second), d)
  <1>1. PICK m : m = first.body.list
    OBVIOUS
  <1>2. PICK h : h = second.body.list
    OBVIOUS
  <1>3. \A i : i.id = d => bitcoinIncoming(i)
    BY DEF Wanted, bitcoinIncoming
  <1>4. CASE Holds(m, d)
    <2>1. PICK i \in m : i.id = d
      BY <1>4 DEF Holds
    <2>2. i \in fromExplorer(first, second)
      BY <1>1, <1>3, <2>1 DEF fromExplorer, dedup
    <2> QED
      BY <2>1, <2>2 DEF Holds
  <1>5. CASE ~Holds(m, d) /\ Holds(h, d)
    <2>1. PICK i \in h : i.id = d
      BY <1>5 DEF Holds
    <2>2. \A k \in m : k.id # i.id
      BY <1>5, <2>1 DEF Holds
    <2>3. i \in fromExplorer(first, second)
      BY <1>1, <1>2, <1>3, <2>1, <2>2 DEF fromExplorer, dedup
    <2> QED
      BY <2>1, <2>3 DEF Holds
  <1> QED
    BY <1>1, <1>2, <1>4, <1>5

LEMMA ReadHistoryLists == ListInv /\ ReadHistory => ListInv'
  <1> SUFFICES ASSUME ListInv, ReadHistory PROVE ListInv'
    OBVIOUS
  <1>1. Inv'
    BY ReadHistoryStep DEF ListInv
  <1>2. /\ Inv /\ RestOK /\ ListOK(job) /\ DOMAIN job = Fields /\ job.task = "list" /\ family = "utxo"
        /\ job.pc = "second" /\ "history" \in Paths
    BY DEF ListInv, Inv, JobOK, ReadHistory, Paths, Is
  <1>3. PICK r \in getRawFromURLs("history") :
          /\ cache' = [cache EXCEPT ![utxoURLs[job.url]]["history"] = r.get.entry]
          /\ job' = IF r.done
                    THEN [job EXCEPT !.second = r.answer,
                                     !.pc = IF r.answer.state = "failed" /\ job.first.state = "failed"
                                            THEN "error" ELSE "listed",
                                     !.list = fromExplorer(job.first, r.answer)]
                    ELSE [job EXCEPT !.url = @ + 1]
          /\ UNCHANGED chainState
    BY DEF ReadHistory, Fetch
  <1>4. CASE r.done
    <2>1. /\ job'.task = "list" /\ job'.sure = job.sure /\ job'.second = r.answer
          /\ job'.list = fromExplorer(job.first, r.answer)
          /\ job'.pc = IF r.answer.state = "failed" /\ job.first.state = "failed" THEN "error" ELSE "listed"
      BY <1>2, <1>3, <1>4 DEF Fields
    <2>2. \A d \in job.sure : d \in Transfers /\ rest[d] = CacheTTL
      BY <1>2 DEF ListOK
    <2>3. \/ r.answer = Failed
          \/ r.answer.state = "ok"
             /\ \A d \in Transfers : rest[d] = CacheTTL => Covering("history", r.answer.body.list, d)
      BY AnswersCover
    <2>4. ReadOK("mempool", job.first, job.sure)
      BY <1>2 DEF ListOK
    <2>5. ASSUME job'.pc = "listed", NEW d \in job.sure PROVE Excused(job', d)
      <3>1. Wanted(d) /\ (Holds(job.first.body.list, d) \/ Holds(r.answer.body.list, d)) => Excused(job', d)
        BY <2>1, FromExplorerHolds DEF Excused
      <3>2. CASE r.answer = Failed
        <4>1. r.answer.state = "failed" /\ job.first.state # "failed"
          BY <2>1, <2>5, <3>2 DEF Failed
        <4>2. Covering("mempool", job.first.body.list, d)
          BY <2>4, <4>1 DEF ReadOK, Failed
        <4>3. place[d] = Pool => Holds(job.first.body.list, d)
          BY <4>2 DEF Covering
        <4> QED
          BY <1>2, <2>1, <3>1, <4>1, <4>3 DEF Excused
      <3>3. CASE r.answer # Failed
        <4>1. Covering("history", r.answer.body.list, d) /\ d \in Transfers
          BY <2>2, <2>3, <3>3
        <4>2. Holds(r.answer.body.list, d) \/ Crowded(d)
          BY <4>1 DEF Covering
        <4>3. Crowded(d) => ~InReach(d)
          <5>1. PICK T : T = Beside(d)
            OBVIOUS
          <5>2. Cardinality(T) \in Nat
            BY <5>1, SentIsFinite, FS_CardinalityType DEF Beside
          <5>3. place[d] \in Int
            BY <1>2, <4>1 DEF Inv, ChainOK
          <5> QED
            BY <1>2, <5>1, <5>2, <5>3 DEF Crowded, Beside, InReach, Pool, TrackerAssumption
        <4> QED
          BY <3>1, <4>2, <4>3 DEF Excused
      <3> QED
        BY <3>2, <3>3
    <2>6. ListOK(job')
      BY <1>2, <2>1, <2>2, <2>5 DEF ListOK
    <2> QED
      BY <1>1, <1>2, <1>3, <2>6, FetchLists
  <1>5. CASE ~r.done
    <2>1. ListOK(job')
      BY <1>2, <1>3, <1>5, NextURLLists
    <2> QED
      BY <1>1, <1>2, <1>3, <2>1, FetchLists
  <1> QED
    BY <1>4, <1>5

LEMMA ReceiptReadsList == ListInv /\ (ReadTransaction \/ ReadTipHeight) => ListInv'
  <1> SUFFICES ASSUME ListInv, ReadTransaction \/ ReadTipHeight PROVE ListInv'
    OBVIOUS
  <1>1. Inv'
    BY ReadTransactionStep, ReadTipHeightStep DEF ListInv
  <1>2. DOMAIN job = Fields /\ job.task = "receipt" /\ job.of \in Transfers
    BY DEF ListInv, Inv, JobOK, ReceiptOK, ReadTransaction, ReadTipHeight, Is
  <1>3. CASE ReadTransaction
    <2>1. PICK r \in getRawFromURLs(job.of) :
            /\ cache' = [cache EXCEPT ![utxoURLs[job.url]][job.of] = r.get.entry]
            /\ r.done =>
                 LET next == [job EXCEPT !.first = r.answer, !.url = 1] IN
                 job' = IF r.answer.state = "failed" THEN [next EXCEPT !.pc = "error"]
                        ELSE IF r.answer.body.block > 0 THEN [next EXCEPT !.pc = "second"]
                        ELSE Received(next, 0)
            /\ ~r.done => job' = [job EXCEPT !.url = @ + 1]
            /\ UNCHANGED chainState
      BY <1>3 DEF ReadTransaction, Fetch
    <2>2. job'.task = "receipt"
      BY <1>2, <2>1 DEF Received, Fields
    <2>3. ListOK(job') /\ job.of \in Paths
      BY <1>2, <2>2, OtherTask DEF Paths
    <2> QED
      BY <1>1, <2>1, <2>3, FetchLists
  <1>4. CASE ReadTipHeight
    <2>1. PICK r \in getRawFromURLs("tip") :
            /\ cache' = [cache EXCEPT ![utxoURLs[job.url]]["tip"] = r.get.entry]
            /\ r.done =>
                 job' = IF r.answer.state = "failed" THEN [job EXCEPT !.pc = "error"]
                        ELSE Received([job EXCEPT !.second = r.answer],
                                      utxoConfirmations(job.first.body.block, r.answer.body.block))
            /\ ~r.done => job' = [job EXCEPT !.url = @ + 1]
            /\ UNCHANGED chainState
      BY <1>4 DEF ReadTipHeight, Fetch
    <2>2. job'.task = "receipt"
      BY <1>2, <2>1 DEF Received, Fields
    <2>3. ListOK(job') /\ "tip" \in Paths
      BY <2>2, OtherTask DEF Paths
    <2> QED
      BY <1>1, <2>1, <2>3, FetchLists
  <1> QED
    BY <1>3, <1>4

-----------------------------------------------------------------------------
(* The chain and the clock *)

LEMMA SendLists ==
    ASSUME ListInv, NEW d \in Transfers, Send(d) PROVE ListInv'
  <1>1. Inv'
    BY SendStep DEF ListInv
  <1>2. /\ Inv /\ RestOK /\ EntriesOK /\ ListOK(job) /\ place[d] = Unsent
        /\ place' = [place EXCEPT ![d] = Pool] /\ UNCHANGED <<family, asset, tip, rest, cache, job>>
    BY DEF ListInv, Send, provider
  <1>3. \A e \in Transfers : place'[e] = IF e = d THEN Pool ELSE place[e]
    BY <1>2 DEF Inv, ChainOK
  <1>4. Advance
    BY <1>1, <1>2, <1>3 DEF Advance, Grow, Inv, ChainOK, Unsent
  <1>5. \A e \in Transfers : rest[e] \in 0..CacheTTL /\ (rest[e] = 0 \/ place'[e] = place[e])
    BY <1>2, <1>3 DEF RestOK, Unsent, Pool
  <1>6. RestOK'
    BY <1>2, <1>3 DEF RestOK, Unsent, Pool
  <1>7. EntriesOK'
    BY <1>2, <1>4, <1>5, EntriesStay
  <1>8. ListOK(job)'
    <2>1. PICK j : j = job
      OBVIOUS
    <2>2. j.task = "list" => \A e \in j.sure : place'[e] = place[e] /\ rest'[e] = CacheTTL
      BY <1>2, <1>5, <2>1 DEF ListOK, TrackerAssumption
    <2>3. ListOK(j)'
      <3>1. CASE j.task = "list"
        BY <1>2, <1>4, <2>1, <2>2, <3>1, ListStays
      <3>2. CASE j.task # "list"
        BY <3>2 DEF ListOK
      <3> QED
        BY <3>1, <3>2
    <2> QED
      BY <1>2, <2>1, <2>3 DEF ListOK, ReadOK, Covering, Crowded, Beside, Sent, Excused, InReach, Wanted
  <1> QED
    BY <1>1, <1>6, <1>7, <1>8 DEF ListInv

LEMMA MineBlockLists ==
    ASSUME ListInv, NEW ids \in SUBSET {d \in Transfers : place[d] = Pool}, MineBlock(ids) PROVE ListInv'
  <1>1. Inv'
    BY MineBlockStep DEF ListInv
  <1>2. /\ Inv /\ RestOK /\ EntriesOK /\ ListOK(job) /\ DOMAIN job = Fields
        /\ tip' = tip + 1 /\ tip \in Nat /\ UNCHANGED <<family, asset, cache>>
        /\ place' = [d \in Transfers |-> IF d \in ids THEN tip + 1 ELSE place[d]]
        /\ rest' = [d \in Transfers |-> IF d \in ids THEN 0 ELSE rest[d]]
        /\ job' = [job EXCEPT !.sure = @ \ ids]
    BY DEF ListInv, MineBlock, provider, Inv, ChainOK, JobOK
  <1>3. \A e \in Transfers : /\ place'[e] = IF e \in ids THEN tip + 1 ELSE place[e]
                             /\ rest'[e] = IF e \in ids THEN 0 ELSE rest[e]
                             /\ e \in ids => place[e] = Pool
    BY <1>2
  <1>4. Advance
    <2>1. Grow
      BY <1>1, <1>2, <1>3 DEF Grow, Inv, ChainOK, Pool
    <2> QED
      BY <1>2, <1>3, <2>1 DEF Advance
  <1>5. RestOK'
    <2>1. rest' \in [Transfers -> 0..CacheTTL]
      BY <1>2 DEF RestOK, TrackerAssumption
    <2>2. ASSUME NEW e \in Transfers
          PROVE  /\ place'[e] >= Unsent
                 /\ rest'[e] > 0 => place'[e] = Pool \/ place'[e] \in 1..(tip' - MaxLag)
      BY <1>2, <1>3 DEF RestOK, Unsent, Pool, TrackerAssumption
    <2> QED
      BY <2>1, <2>2 DEF RestOK
  <1>6. EntriesOK'
    BY <1>2, <1>3, <1>4, EntriesStay
  <1>7. ListOK(job)'
    <2>1. PICK j : j = job'
      OBVIOUS
    <2>2. /\ j.task = job.task /\ j.pc = job.pc /\ j.sure = job.sure \ ids /\ j.first = job.first
          /\ j.second = job.second /\ j.list = job.list
      BY <1>2, <2>1 DEF Fields
    <2>3. ListOK(j)
      BY <1>2, <2>2 DEF ListOK, ReadOK, Excused
    <2>4. CASE j.task = "list"
      <3>1. \A e \in j.sure : e \in Transfers /\ e \notin ids /\ rest[e] = CacheTTL
        BY <2>2, <2>3, <2>4 DEF ListOK
      <3>2. \A e \in j.sure : place'[e] = place[e] /\ rest'[e] = CacheTTL
        BY <1>3, <3>1
      <3>3. ListOK(j)'
        BY <1>2, <1>4, <2>3, <3>2, ListStays
      <3> QED
        BY <2>1, <3>3 DEF ListOK, ReadOK, Covering, Crowded, Beside, Sent, Excused, InReach, Wanted
    <2>5. CASE j.task # "list"
      BY <2>1, <2>5 DEF ListOK
    <2> QED
      BY <2>4, <2>5
  <1> QED
    BY <1>1, <1>5, <1>6, <1>7 DEF ListInv

\* What a transfer gains in rest, an entry loses.
LEMMA TickLists == ListInv /\ Tick => ListInv'
  <1> SUFFICES ASSUME ListInv, Tick PROVE ListInv'
    OBVIOUS
  <1>1. Inv'
    BY TickStep DEF ListInv
  <1>2. Inv /\ RestOK /\ EntriesOK /\ ListOK(job) /\ UNCHANGED <<family, asset, tip, place, job>>
    BY DEF ListInv, Tick
  <1>3. ASSUME NEW d \in Transfers
        PROVE  /\ rest[d] \in 0..CacheTTL /\ rest'[d] \in 0..CacheTTL
               /\ rest'[d] = rest[d] \/ (rest'[d] = rest[d] + 1 /\ rest[d] < CacheTTL)
               /\ rest'[d] > 0 => place[d] = Pool \/ place[d] \in 1..(tip - MaxLag)
    <2>1. /\ rest[d] \in 0..CacheTTL /\ CacheTTL \in Nat
          /\ rest[d] > 0 => place[d] = Pool \/ place[d] \in 1..(tip - MaxLag)
      BY <1>2 DEF RestOK, TrackerAssumption
    <2>2. rest'[d] = IF rest[d] < CacheTTL /\ place[d] \in {Pool} \cup 1..(tip - MaxLag)
                     THEN rest[d] + 1 ELSE rest[d]
      BY DEF Tick
    <2> QED
      BY <2>1, <2>2
  <1>4. RestOK'
    <2>1. rest' = [d \in Transfers |-> rest'[d]]
      BY DEF Tick
    <2>2. rest' \in [Transfers -> 0..CacheTTL]
      BY <1>3, <2>1
    <2> QED
      BY <1>2, <1>3, <2>2 DEF RestOK
  <1>5. EntriesOK'
    <2> SUFFICES ASSUME NEW u \in Explorers, NEW p \in {"mempool", "history"}
                 PROVE  EntryOK(p, cache[u][p])'
      BY DEF EntriesOK
    <2>1. PICK old : old = cache[u][p]
      OBVIOUS
    <2>2. PICK new : new = cache'[u][p]
      OBVIOUS
    <2>3. new = IF old.left > 1 THEN [old EXCEPT !.left = @ - 1] ELSE NoEntry
      BY <2>1, <2>2 DEF Tick, Paths
    <2>4. EntryOK(p, old)
      BY <1>2, <2>1 DEF EntriesOK
    <2>5. old.left \in 0..CacheTTL /\ CacheTTL \in Nat
      BY <2>4 DEF EntryOK, TrackerAssumption
    <2>6. CASE ~(old.left > 1)
      <3>1. new.left = 0 /\ DOMAIN new = {"left", "body"}
        BY <2>3, <2>6 DEF NoEntry
      <3> QED
        BY <2>2, <2>5, <3>1 DEF EntryOK
    <2>7. CASE old.left > 1
      <3>1. new = [old EXCEPT !.left = @ - 1]
        BY <2>3, <2>7
      <3>2. new.body = old.body /\ DOMAIN new = {"left", "body"}
        BY <2>4, <3>1 DEF EntryOK
      <3>3. new.left \in 0..CacheTTL /\ new.left = old.left - 1
        <4>1. "left" \in DOMAIN old
          BY <2>4 DEF EntryOK
        <4> QED
          BY <2>5, <2>7, <3>1, <4>1
      <3>4. ASSUME NEW d \in Transfers, rest'[d] + new.left > CacheTTL
            PROVE  Covering(p, new.body.list, d)'
        <4>1. rest[d] + old.left > CacheTTL
          BY <1>3, <2>5, <3>3, <3>4
        <4>2. Covering(p, old.body.list, d)
          BY <2>4, <2>7, <4>1 DEF EntryOK
        <4> QED
          BY <1>2, <3>2, <4>2 DEF Covering, Crowded, Beside, Sent
      <3>5. EntryOK(p, new)'
        BY <3>2, <3>3, <3>4 DEF EntryOK
      <3> QED
        BY <2>2, <3>5 DEF EntryOK, Covering, Crowded, Beside, Sent
    <2> QED
      BY <2>6, <2>7
  <1>6. ListOK(job)'
    <2>1. job.task = "list" => \A d \in job.sure : d \in Transfers /\ rest'[d] = CacheTTL
      BY <1>2, <1>3 DEF ListOK, TrackerAssumption
    <2> QED
      BY <1>2, <2>1 DEF ListOK, ReadOK, Covering, Crowded, Beside, Sent, Excused, InReach, Wanted
  <1> QED
    BY <1>1, <1>4, <1>5, <1>6 DEF ListInv

LEMMA InitLists == TrackerInit => ListInv
  <1> SUFFICES ASSUME TrackerInit PROVE ListInv
    OBVIOUS
  <1>1. Inv
    BY InitInv
  <1>2. RestOK
    BY DEF TrackerInit, RestOK, TrackerAssumption, Unsent
  <1>3. EntriesOK
    <2>1. \A u \in Explorers, p \in {"mempool", "history"} : cache[u][p] = NoEntry
      BY DEF TrackerInit, Paths
    <2> QED
      BY <2>1 DEF EntriesOK, EntryOK, NoEntry, TrackerAssumption
  <1>4. job.pc = "idle" /\ job.sure = {}
    BY DEF TrackerInit, NoJob
  <1> QED
    BY <1>1, <1>2, <1>3, <1>4 DEF ListInv, ListOK

LEMMA NextLists == ListInv /\ [TrackerNext]_trackerVars => ListInv'
  <1> SUFFICES ASSUME ListInv, [TrackerNext]_trackerVars PROVE ListInv'
    OBVIOUS
  <1>1. CASE UNCHANGED trackerVars
    <2>1. UNCHANGED <<chainState, provider>> /\ job' = job /\ Inv'
      BY <1>1, NextInv DEF trackerVars, ListInv
    <2> QED
      BY <2>1, ListingStep DEF ListInv
  <1>2. CASE TrackerNext
    BY <1>2, StartListingLists, ReceiptLists, FinishLists, ReadMempoolLists, ReadHistoryLists,
       ListTatumLists, EvmLatestLists, EvmScanLists, ListTronLists, ReceiptReadsList,
       RequestFailsLists, SendLists, MineBlockLists, TickLists
       DEF TrackerNext
  <1> QED
    BY <1>1, <1>2

\* Every cached list holds, or is too short for, the transfers that had rested when it was
\* given, and every list a listing has read holds those it began with.
THEOREM ListsInvariant == TrackerSpec => []ListInv
  BY InitLists, NextLists, PTL DEF TrackerSpec

\* Whatever is cached, however far the servers lag and whatever is sent and mined while
\* a listing is read, it holds every transfer to the recipient that had been in its place
\* for longer than answers are cached when it began and that is within its reach.
THEOREM ListingsHoldTheSettled == TrackerSpec => []SettledAreListed
  <1>1. ListInv => SettledAreListed
    <2> SUFFICES ASSUME ListInv, Is("listed"), NEW d \in job.sure, Wanted(d), InReach(d)
                 PROVE  \/ \E i \in job.list : i.id = d
                        \/ (family = "utxo" /\ job.second.state = "failed" /\ place[d] # Pool)
                        \/ (family \in {"evm", "tron"} /\ place[d] = Pool)
      BY DEF SettledAreListed
    <2>1. job.task = "list"
      BY DEF ListInv, Inv, JobOK, ReceiptOK, Is
    <2>2. Excused(job, d)
      BY <2>1 DEF ListInv, ListOK, Is
    <2> QED
      BY <2>2 DEF Excused, Holds
  <1> QED
    BY <1>1, ListsInvariant, PTL
=============================================================================
