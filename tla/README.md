# TLA+ specifications of OxygenPay

OxygenPay is a payment processor for crypto currencies.  A merchant creates a
payment; the customer picks a currency and gets a deposit address; the system
notices the deposit, waits for the chain to confirm it and credits the
merchant, sweeps the deposits together and pays the merchant's withdrawals.
The hard part is that nothing coordinates the work: HTTP handlers, provider
webhooks, the event bus and the scheduler's jobs all change the same rows, a job
starts whether or not its last run has ended (`makeCron` in
`internal/app/app.go` has no guard), and a handler is a sequence of separate
database statements and calls to blockchain providers that may fail between any
two of them.  These modules model those sequences and check and prove what they
guarantee.

## Components

| part | state | operations | interacts through |
|---|---|---|---|
| incoming payments (`service/processing/service_incoming.go`, `service_observation.go`, `service.go`) | payment status, transactions | set method, lock, receive, confirm, cancel, discover, check, expire | rows of `payments`, `transactions`, `wallet_locks`, `balances`; the chain |
| webhook intake (`service_webhook.go`) | none | expected, unexpected, TRON activation | calls the above at any moment, repeatedly |
| checkout (`service/payment`, `server/http/paymentapi`) | `payments`, `payment_links`, `customers` | create by order or from a link, give an e-mail, choose a method, lock, page | requests that overlap, each with the payment it read |
| bus and merchant notifications (`bus`, `event/paymentevents`, `webhook`) | events in memory | publish, deliver | asynchronous consumers that read the payment again |
| wallet locks, `lock.Locker` | `wallet_locks`, advisory locks | acquire a fresh address, release | inside set method, receive, cancel |
| withdrawals (`service_withdrawal.go`, `payment/service_withdrawal.go`) | payment status, transactions | request, create, roll back, check, confirm, cancel, consolidate | event bus and scheduler start the same batch; balances; nonces; the chain |
| nonces (`wallet/service_nonce.go`) | pending and confirmed counters of a wallet | take, give back, confirm | row lock of the wallet |
| balances (`wallet/service_balance.go`) | `balances` | increment, checked decrement, totals | every confirmation, withdrawal, sweep, cancellation, top-up |
| internal transfers (`service_internal.go`, `scheduler`) | transactions | sweep, roll back, check | nonces, balances, the chain |
| UTXO reservations and coin selection (`wallet/service_transaction.go`, `blockchain/service_bitcoin.go`) | reservations with a time limit | plan, reserve, attach, release, mark | unique index, the chain |
| system wallets and KMS (`service/wallet`, `kms`) | `wallets`, the KMS's keys | create, ensure, list, sign, delete | two databases without a common transaction |
| tracker and receipts (`blockchain/service_tracker.go`, `service_broadcaster.go`, `provider/chain`, `provider/trongrid`) | caches, cool-downs | list deposits, confirmations | servers that lag, fail over and forget |
| prices and fees (`blockchain/service_convertor.go`, `service_fees.go`, `money`) | cached rates | convert, estimate, bound a withdrawal | a market that moves |
| subscriptions (`provider/tatum`, `registry`) | `registry`, ids of subscriptions | set the secret, subscribe, verify | Tatum; settings that change between starts |
| users and merchants (`service/user`, `service/merchant`, `auth`, `server/http`) | users, sessions, tokens, merchants, addresses | log in, create, change, delete | middlewares that find user and merchant, then handlers |

What makes them correct: one deposit is credited once, to one row; a success or
a verdict on record is one the chain gave; payment, transactions, balances,
locks and counters agree whenever no job is at work; what was settled stays so;
a withdrawal is paid out at most once and no output is spent twice; the books
add up to what the chain holds; a listing misses nothing and a receipt counts no
block there is not; a price is a price of its market; a merchant's data is its
own; what a merchant was told is so; and every payment and withdrawal is settled
in the end.

## Modules

* `IncomingPayment`: one payment from the choice of a currency to its
  settlement.  A worker is a goroutine, its `pc` names the next statement of the
  handler it runs; each action is one database statement or transaction (two
  where a transaction reads before it takes a row lock) or one question to the
  chain.  `pay`, `txs`, `locks`, the balances are the tables, `holder` is the
  advisory lock of `locker.Do`, `chain` what the blockchain knows of each
  deposit.  Jobs: `webhook` (`StartWebhook` to `MarkInProgress`), `discover`,
  `check` (`Receipt` to `FailPayment`), `expire` (`Latest`, `Observe`), `method`
  (`AcquireLock` to `CreateTx`) and `lock` (`StartLock` to `LockWrite`).
* `PaymentPromise`: the abstract specification of the same: deposits, books and
  a status, and five steps.  No workers, rows, wallets or locks.
* `Withdrawal`: withdrawals of one merchant from one outbound wallet of an EVM
  chain or TRON.  The worker is a goroutine of `BatchCreateWithdrawals` or
  `BatchCheckWithdrawals`; `confirmed` and `pending` are the wallet's counters;
  a row of `txs` stands for the signed transaction too, whose fate is in
  `chain`: unsent, in the pool, dropped in favour of another with its nonce,
  executed or reverted.  The chain executes an EVM account's transactions in
  the order of their nonces, without gaps.
* `Tables`: what is made of the rows of a table, for the modules that page
  through them or add them up: order, first rows, sum.
* `CoinSelection`: the pure part of `service_bitcoin.go`: how outputs are
  chosen, what fee and change a plan has, what a sweep pays, and the binary
  search for the maximal amount (a recursive function), with reference
  definitions beside them.
* `UtxoTransfer`, over `CoinSelection`: withdrawals and sweeps on Bitcoin and
  Litecoin.  `resolveUTXOWithdrawalSource` picks a wallet or starts a
  consolidation; a plan is reserved under the partial unique index, signed,
  booked, broadcast and marked, each in a step of its own; reservations expire.
* `KeyManagement`, `SystemWallets`: the KMS's keys and what it signs; wallets as
  rows that name a key, made by overlapping requests and jobs, and their paging.
* `InternalTransfer`, over `SystemWallets`: sweeps of account-based chains.  The
  tables `balances` and `transactions` are values that operators named for the
  queries map to new values; the job ensures the outbound wallet, lists the
  inbound ones, picks what is worth a transfer and hands it to goroutines.
  `StartTopUp` to `Pay` are the operator's top-up of a merchant.  A transaction
  is `Stranded` when its transfer was rejected and its rollback stopped before
  the balances, at a nonce counter another failure had brought to zero.
* `Tracker`: one listing or one receipt, read in as many steps as the code makes
  requests, from `Explorers` with their fallbacks, caches and cool-downs, from
  EVM nodes or from Trongrid, while transfers are sent and blocks mined.  A list
  is a set of transfers with their places; `ListLimit` is the length of a page,
  and a full one has the newest.
* `Money`, `Pricing`: amounts, and conversions, fees and limits at cached rates.
  A float is a fraction, and as most are not exact, a product that should be a
  whole number may be cut to the number before.
* `Subscriptions`: starts of the service with the settings of the moment, the
  secret at Tatum and in the registry, and the subscriptions of a wallet.
* `Accounts`: users, sessions, merchants, tokens, addresses and settings.  Every
  e-mail, account and browser belongs to a person, so that one can say whose
  something is; a request is first given its merchant and then handled.
* `Checkout`: payments by order and from links, customers, the payment page, the
  event bus and its webhooks, and a dashboard that pages through the rows.
* `MCIncomingPayment`, `MCWithdrawal`, `MCUtxoTransfer`, `MCAccounts`,
  `MCCheckout`, `MCPlatform`: instances for TLC.  `MCPlatform` composes `InternalTransfer` (with `SystemWallets` and
  `KeyManagement`), `Tracker`, `Pricing` and `Subscriptions`.
* `IncomingPaymentProofs`, `WithdrawalProofs`, `UtxoTransferProofs`,
  `CheckoutProofs`, `AccountsProofs`, `TrackerProofs`, `PlatformProofs`: theorems
  and their proofs, over `TableTheorems`, the facts about `Tables`.

A definition marked "Mutant" is not part of a specification.  It is the
definition after it with a plausible bug (a dropped guard, a forgotten reset),
and stands there to show that a property notices that bug.

## Runs

| run | question | bounds |
|---|---|---|
| `incoming_concurrent` | do addresses stay single-use, is there one pending transaction, is the ledger solvent, is a success always a confirmed deposit, when two jobs overlap and die anywhere? | 2 workers, 2 currencies, 2 rows, 1 deposit |
| `incoming_serial` | do payment, rows and locks agree between jobs, and do the jobs implement `PaymentPromise`? | 1 worker, 2 currencies, 4 rows, 2 deposits of five sizes |
| `incoming_liveness` | is every payment settled? | 1 worker, 1 native coin, 2 deposits |
| `withdrawal_any` | are balances never negative, and successes and verdicts those of the chain, when two goroutines overlap, fail and crash? | 2 workers, 1 withdrawal, 2 rows, every outcome |
| `withdrawal_serial` | is a withdrawal paid at most once in spite of lost answers and retries, do balances follow the rows? | 1 worker, 2 withdrawals, funds for one, 4 rows |
| `withdrawal_batch` | do two withdrawals sent in parallel get consecutive nonces and settle? | 2 workers, 2 withdrawals of 2 currencies |
| `utxo_faults` | is no output spent by two transactions that were sent, whatever fails, crashes, expires or is listed late? | 2 workers, 1 withdrawal, 2 wallets, 2 transactions |
| `utxo_consolidation` | do the books match the outputs, is every plan sound and every limit maximal, and is every covered withdrawal settled, if need be after a consolidation? | 1 worker, 2 withdrawals, 3 wallets, 6 transactions, 2 fee rates |
| `platform` | does every wallet sign and every listing of wallets hold all; do sweeps and top-ups keep books and merchants' shares right; do listings and receipts say what the chain says; are prices and fees fair; do webhooks verify? | see below |
| `accounts` | is a browser only ever its person's user, is there one user per Google account, does every request see and change its sender's merchants only? | 2 people, 3 Google accounts, 2 requests, 6 rows and settings |
| `checkout` | is there one payment per order, is a locked payment complete, is the final status told, do pages hold all rows? | 2 requests, 2 consumers, 2 payments, 1 link |
| `withdrawal_overlap` | (violated) is a transaction made for a pending withdrawal only? | 2 workers, 1 withdrawal |

The bounds let every interesting case happen: two jobs are enough for a race on
one row, two rows for a change of method, a retry or an unexpected deposit, two
deposits for a second payment to one address, and the amounts lie below, at and
above the price with its tolerance and at the one TRX of an account activation.
Amounts are small because the code only compares and adds them; where it divides
(coin selection, prices) they lie around the thresholds.  `MaxTx`, `MaxWallets`,
`MaxNonce` and the like bound the rows, wallets and nonces; when the rows are
used up, creating one fails like a database error.  Every run says
`CHECK_DEADLOCK FALSE`, as the system may stop: a settled payment leaves nothing
to do.

The parts of `platform` share no state but for the wallets, which sweeps find
made, so a behaviour is one of one part (`part`) while the others stay as they
began; the union of their behaviours is all there is to see.  Wallets: two
processes, three wallets at first, pages of one.  Sweep: a coin and a token of
one wallet, two goroutines, two rows, a listing of the newest two, one job at a
time, a payment that arrives and a top-up; a stranded transaction needs a third
row, which takes the run past its time (the sweeps alone were checked with three,
1 618 183 states, and the theorem has any number).  Tracker: two transfers, three
blocks, two explorers of which each may lag by one block, a cache that lasts one
tick.  Pricing: six currencies, eight pairs of which four are cached at a time
(a request reads two).  Subscriptions: two starts among six settings, two jobs.

In `accounts` the constant `MaxFacts` bounds rows, settings and deletions
together.  `checkout` has a `CONSTRAINT`: either payments are created while a
dashboard pages through them, or one payment is paid with at most two events
waiting; rows of different payments do not touch each other.

Workers, requests and consumers are interchangeable, so runs that check no
liveness use symmetry.

## What the runs show of the code

`withdrawal_overlap` is a run that fails: nothing claims a pending withdrawal, so
that the event and the scheduled job both make a transaction for it
(`service_withdrawal.go:26`), though a test says that one in progress is skipped.

Other properties hold only where the runs check them, and the models show why:

* A webhook that is still at work when the check job settles the payment puts it
  back in progress (`service_incoming.go:105`), and a deposit received while the
  expiry job asks the chain is canceled although it appeared (`:609`).  So
  `KeepsPromise` and `PaymentFollowsTxs` are checked with one job at a time.
* A token transfer of zero, or one whose provider keeps failing, keeps an unpaid
  payment from expiring (`service_tracker.go:268`): `EventuallySettled` of
  payments is checked for a native coin.
* A withdrawal executed without a network fee is never confirmed, as
  `confirmWithdrawal` does not allow a fee of zero (`service_withdrawal.go:785`).
* Of two withdrawals in one batch the failed one gives back the highest nonce,
  not its own (`service_nonce.go:78`), and the chain may wait for the gap for
  ever: `withdrawal_batch` has no failures.
* `AtMostOneTransfer` rests on the nonce that a rollback gives back, so it holds
  neither with crashes, which lose a nonce, nor on TRON, which has none.
* A lost answer to a Bitcoin broadcast releases the reservations
  (`service_withdrawal.go:614`): `NoConflictingBroadcasts` fails then, and is
  checked with every other fault.  The constant `Exclusive` of `Withdrawal` and
  `UtxoTransfer` says that no two goroutines work on one withdrawal; the code
  does not enforce it, it holds when no two batches overlap.
* A UTXO withdrawal that another left without cover waits for ever instead of
  failing, since its source is resolved before the merchant's balance is checked.
* If one of an explorer's two lists fails, the listing is silently partial, and
  a transfer mined between the two reads may be in neither
  (`service_tracker.go:143`); `SettledAreListed` says what is left.
* A cached rate lives on as long as it is read (`service_convertor.go:295`);
  `ConversionIsFair` allows any rate the pair has had.
* The placeholder secret is not set at Tatum but used to verify, a changed secret
  is not set without the force flag, and an id of a disabled subscription keeps a
  later key from subscribing (`provider/tatum/provider.go`): the antecedents of
  `WebhooksVerify`.
* A confirmation that keeps failing after it counted the nonce counts it at each
  attempt (`service_internal.go`, `service_nonce.go`); when the counter of pending
  ones reaches zero, the rollback of a later rejected transfer fails at it, and
  the amount is not given back.  `LedgerMatchesChain` says that the books are
  otherwise right: they lack the amounts of some stranded transactions and
  nothing else.
* A payment that is confirmed after a top-up read what merchants own and before
  it reads what wallets hold is counted as the system's own money
  (`service_balance.go`): the hypothesis of `TopUpsAreCovered`.
* Two jobs that ensure the outbound wallet leave a key without a wallet; the
  index refuses the second wallet.
* The webhook of a payment whose link was deleted, or whose merchant was, is never
  sent, a failed one is not repeated, and consumers may tell an older status after
  a newer one: `FinalStatusIsReported` says the final status was among those told,
  of payments of which no event was lost.
* Overlapping changes of a merchant's settings lose one of them
  (`merchant/service.go:180`), and `users` has no unique e-mail, so that
  `create-user` and a Google callback may make two users of one e-mail.

## Refinement

`KeepsPromise` is `PaymentPromise!Spec` under the mapping at the end of
`IncomingPayment` (`Promise`): the payment is paid when a transaction of its own is
completed, the deposits in the books are those of confirmed rows, what is held
and owed are the balances.  It says at once that every deposit is booked at most
once and only when confirmed, that at most one pays the merchant, in the same
step and for what it is worth, and that the status follows.  The theorem
`PromiseIsKept` proves it (see below).

## Fairness

A started goroutine runs on (weak fairness of its next step): liveness is
checked without crashes.  The scheduler starts each job every 30 seconds or two
minutes for ever and each run has goroutines of its own, so a job is started for
a row that needs it although other jobs run at most moments; as the instances
have one or two workers, this is strong fairness of the start.  The chain
settles what it has seen and executes what it holds and may execute.  Nothing is
assumed of webhooks, which may be lost, nor of customers and merchants.

## Proofs

The theorems hold for every value of the constants: any number of workers,
rows, wallets, deposits, withdrawals, people, requests, explorers and amounts.
Each module has an invariant `Inv` whose conjuncts are named, one lemma per
action, `NextInv`, and a theorem that the invariant holds; a property then
follows from it.  No property is inductive by itself, because a handler acts on what
it read some steps ago: `Inv` says, for each step of a handler, what of that is
still true.

`TableTheorems` has what the provers do not know of finite tables: that a sum
splits into parts, changes by what one row changes, and is the same by rows and by
columns (`TotalOfPart`, `TotalPlus`, `RowsAndColumns`), and that the ordered first
n rows are a sorted page that lacks nothing before its last (`PageFacts`).  These
need induction, which the library states for operators that the provers cannot
instantiate; so it is stated of sets instead (the set of numbers, or of subsets,
for which a fact holds), once, from the theorem about well-founded relations.

### Whatever overlaps, fails and crashes

| module | theorem | property |
|---|---|---|
| `IncomingPaymentProofs` | `TypeCorrectness` | `TypeOK` |
| | `AddressesAreSingleUse` | `SingleUseAddress` |
| | `OnePendingTransaction` | `AtMostOnePending` |
| | `LedgerSolvent` | `Solvency` |
| | `SuccessNeedsDeposit` | `PaidOnlyIfConfirmed` |
| `WithdrawalProofs` | `TypeCorrectness` | `TypeOK`, so that no balance goes below zero |
| | `SuccessNeedsTransfer` | `SuccessIsTransferred` |
| | `RecordsAreExecutions` | `RecordedAsExecuted` |
| `UtxoTransferProofs` | `EveryPlanIsSound` | `PlansAreSound` |
| | `LimitsAreMaximal` | `LimitIsMaximal` |
| | `NoDoubleSpend` (no answer lost) | `NoConflictingBroadcasts` |
| | `BooksAreRight` (no answer lost, no crash) | `BooksMatchOutputs` |
| `CheckoutProofs` | `OrdersArePaidOnce` | `OnePaymentPerOrder` |
| | `LockedPaymentsAreComplete` | `LockedIsComplete` |
| | `FinalStatusesAreTold` | `FinalStatusIsReported` |
| | `ListingsAreComplete` | `PagesAreComplete` |
| `AccountsProofs` | `SessionsSafe` | `SessionsAreOwn` |
| | `OneUser` | `OneUserPerGoogleAccount` |
| | `ListsAreOwn` | `SeesOwnOnly` |
| | `Isolation` | `TenantsAreIsolated`, an action property |
| `TrackerProofs` | `ConfirmedReceiptsAreDeep` | `ConfirmedIsDeep` |
| | `ListingsHoldTheSettled` | `SettledAreListed` |
| `PlatformProofs` | `WalletsSign` | `EveryWalletSigns` |
| | `WalletsAreListed` | `ListingIsComplete` |
| | `WebhooksAreVerified` | `WebhooksVerify` |
| | `RecordedIdsAreLive` | `RecordedIsSubscribed` |
| | `LedgersMatch` | `LedgerMatchesChain` |
| | `TopUpsAreCovered` (no payment between the reads) | `Solvent` |
| | `ConversionsAreFair` | `ConversionIsFair` |
| | `WithdrawalsPayTheirFees` (`CentsBuyUnits`) | `WithdrawalPaysItsFee` |

* Incoming payments.  `Grow` says that a row never changes its owner, wallet or
  currency and a confirmed deposit stays so; hence `LocalOK`, what a worker
  knows of its row and deposit, outlives the steps of others (`LocalStable`).
  `CriticalOK` says what the holder of the payment's lock knows: from the
  cancellation of the old transaction to the creation of the new one none is
  pending, and the wallet it took belongs to no transaction of the payment.
  `PendingIsLatest` turns the cancellation of the latest row into the
  cancellation of the pending one.
* Withdrawals.  `LocalOK` says which row a worker holds and which verdict of the
  chain it has read, and a verdict is never taken back.  The chain may drop a
  transaction in favour of another, so a transaction about to be sent is unsent
  and has one sender (`OneSender`).
* UTXO transfers.  A transaction that was sent is `Backed`: the reservations of
  its inputs bear its id, from before it is sent and for ever after, because an
  expired row stays in the partial unique index.  Two goroutines are `Apart`:
  they hold different transactions and reserve different outputs.  The
  hypothesis is that no answer to a broadcast is lost: a lost one releases the
  reservations of a transaction the network has (`service_withdrawal.go:614`).
* Plans and limits.  The outputs of a listing are sorted, so the cost of the
  cheapest plan grows with the amount and with the inputs taken; the search by
  halves keeps the greatest amount with a plan between its bounds, and ends on it.
* UTXO books.  `BookInv` says that a wallet's balance is the value of its outputs
  on the chain plus, for each transaction, what the tables are late or early by,
  given its status and where its goroutine is; between jobs, with everything sent
  completed, each of these is zero.  A goroutine that dies after it took the
  amount, and a lost answer, leave a difference that the code never makes up for:
  hence the hypothesis.
* Checkout.  Overlapping requests write stale rows back, but an option that was
  set is never unset (`Grows`), which is what `UpdateLocked` needs.  `Told` says
  where the news of a final status is: in an event, with a consumer, at the
  merchant, or known to be lost.  The pages read so far are all rows before the
  cursor (`PagesOK`), as the cursor is the first row of the next page, new rows
  have larger ids and none is removed.
* Accounts.  Every row and every request under way has its person, since a
  user's e-mail and a merchant's creator never change (`Grows`).
* Tracker.  A server may be late but never wrong (`TellsPlace`): the block it
  gives for a transfer is the transfer's or none, the tip is at most the
  chain's; that stays so however long an answer is cached or held by a job.  For
  listings `ListInv` follows time: a transfer gains in rest what a cached answer
  loses of its life, so an answer still cached was given when a settled transfer
  had rested already, and holds it unless it is full of newer ones.
* System wallets.  The key a process got from the KMS is in no row and with no
  other process until the process stores it (`ProcOK`), and the operator deletes
  only keys that nobody holds.  The theorem is about `WalletsSpec(rows)` for any
  first rows that have a key each (`FirstRows`).  A listing has, so far, every
  inbound row below its cursor (`ListingInv`).
* Subscriptions.  A flag in the registry is evidence of a secret that Tatum has,
  an id, in the table or held by a job, of a subscription.
* Sweeps.  `SweepInv` says of each wallet and currency that the balance plus the
  lag of every transaction (`Lag`: what it took and was not executed yet, or was
  executed and is not booked) is what the chain holds.  Which rejected
  transactions lost their amount cannot be told from the tables, so the invariant
  says that there is such a set.  `MerchantOK` adds, for the top-up, the sum over
  all wallets: by rows it is what they own, by columns what each transaction
  lags, and moving money between wallets leaves it alone.
* Prices.  What is cached for a pair is a rate of that pair (`CacheOK`), and a
  quote comes with the rate it was made at (`Backed`), which stays one of its
  pair's when the market moves.  The rest is arithmetic: each product loses one
  unit at most, and the bound of `Fair` is what that comes to after a division by
  the rate.  That a fee is not zero depends on the data: `CentsBuyUnits` says that
  a cent is worth more than the smallest unit of a currency and of its rounding.
  It fails for a coin that is dear and has few decimals; a fee in such a coin
  would be zero.

### One job after the other

Where overlapping jobs break a property (see above) the theorem says so in its
hypothesis `OneAtATime`: one worker, no failure or crash between its steps.
Everything else is free: the order of the jobs, what the chain, the provider and
the customer do between any two steps, amounts, fees and balances.  So they
describe the system while each job ends before the next one starts; the scheduler
does not see to that.  The strengthening `SInv` says for each step of each job how
the payment and its rows may differ for the moment.

| module | theorem | property |
|---|---|---|
| `IncomingPaymentProofs` | `PaymentsFollow` | `PaymentFollowsTxs` |
| | `LocksDoNotLeak` (`Roomy`) | `NoLeakedLock` |
| | `PromiseIsKept` | `KeepsPromise`, the refinement of `PaymentPromise` |
| `WithdrawalProofs` | `PaidOutOnce` (`Nonced`) | `AtMostOneTransfer` |
| | `WithdrawalsFollow` | `PaymentFollowsTxs` |
| | `NoncesFollow` (`Lossless`) | `NoncesFollowChain` |
| | `CreatedForPending` | `OnlyPendingAreCreated`, an action property |
| | `LedgerFollowsTxs` | `LedgerMatchesTxs` |

* Incoming payments.  `Agree` relates the payment to its rows when no job is
  half-way, `OpenIsLatest` and `HashesApart` say that one row at most can be paid
  and that a deposit belongs to one row.  `WaitingIsUnrecorded` keeps the webhook,
  discovery and the check job from recording one deposit twice.  `Roomy` asks for
  a row per wallet and deposit: `MaxTx` is a bound of the model, and a creation
  that fails for lack of rows leaves a wallet locked as an error of the database
  would.  `PromiseIsKept` maps each step to a step of `PaymentPromise` or to none.
* Withdrawals.  `NonceOK` says that the nonce a worker holds is the last one
  given out, so that the rollback gives back that one.  `LivesOK` gives
  `AtMostOneTransfer`: what the chain may have taken of a withdrawal that will be
  tried again has the nonce of the next attempt, and it takes one transaction of
  each nonce.  `GaplessOK` adds, where no answer is lost, that every nonce below
  the free one is used.  `Nonced` excludes TRON.  The overlap that
  `withdrawal_overlap` exhibits is the only reason for a transaction of a
  withdrawal that is not pending: `CreatedForPending` proves the same property
  without it.  With several goroutines of one batch (`withdrawal_batch`) the
  counters are no longer those of one worker; that case is left to TLC.
  `LedgerFollowsTxs`: what each row has taken from the balances is known from its
  status and, for the row a worker holds, from its step (`LInv`); the balances
  lack the sum.

### Assumptions

`ConstantsAssumption`, `AmountsAssumption`, `UtxoAssumption`,
`CoinSelectionAssumption`, `TrackerAssumption`, `KeyManagementAssumption`,
`SystemWalletsAssumption`, `InternalTransferAssumption`,
`SubscriptionsAssumption`, `AccountsAssumption` and `CheckoutAssumption` say that
bounds and amounts are numbers, that sets which are added up are finite and sets
which are told apart are disjoint, that `None` is none of the things it is the
absence of, and that a verified Google account and its e-mail are one person's.
`PricingAssumption` says that rates are fractions and fixed ones positive, that no
coin has a fiat currency's ticker, that every chain of a currency in use has a
native coin, and that a power of ten is a positive number, which the provers do
not know.  `FirstAssumption` says that the tables with which `Accounts` starts are
such as the program leaves them.  TLC evaluates all of them on the instances of
the runs.

### Only model-checked

* Liveness (`EventuallySettled` of payments, withdrawals and UTXO withdrawals),
  which the prover does not handle.  Every other property of the runs is proved.
* The hypotheses of the theorems are needed for the reasons above; what TLC
  checks without them is `withdrawal_batch`, where several goroutines of one
  batch share the nonces.

## Not modelled

Test and main network are one.  Signing itself, HTTP decoding and rendering, the
audit log of balances, the job log, e-mail and Slack messages, the service
locator and the two user interfaces have no state that other parts rely on.  The
API models and clients are generated.  Substitutes for the currencies of old
rows whose currency is no longer configured are left out.  Of the repository the
queries that a property depends on are modelled, not their columns.
`PROJECT.json` lists every part with the reason, and the hazards that no property
covers.

## Open

* `AtMostOneTransfer` and `NoncesFollowChain` for the goroutines of one batch
  (`Exclusive`) without failures: the argument would have to order the nonces of
  several workers.
* The hazards without a property: a receipt without a fee, a cancellation that
  fails half-way, more than 200 pending withdrawals, and the reservations of a
  transaction whose answer is lost.
