# A TLA+ model of betting-processing-go

betting-processing-go books the wagers of game providers on players' wallets:
requests arrive over HTTP or from an SQS queue, are settled in PostgreSQL, and
leave as events on an outbound FIFO queue. This directory models the parts of
it that decide about money, checks them with TLC on small instances and proves
with TLAPS, for instances of any size, the safety of the booking service, that it
implements an abstract ledger, and the safety of the reference workers, the wallet
service, the outbox, the SQS workers, the key cache, the connection pool and the
arithmetic.

## The system

| component | state | operations | talks to |
|---|---|---|---|
| Wager service (`internal/wagertransaction`) | `wager_transactions` | `ProcessTransaction` for BET, WIN, LOSS, REFUND, ROLLBACK | wallet service in the same SQL transaction; outbox; inbox |
| Wallet aggregate and service (`internal/wallet`) | `wallets` (balance, version), `wallet_ledger_entries` | `Debit`, `Credit`, `CreateWallet`, `GetLedger`, `Reconcile` | called by the wager service and by HTTP handlers |
| Reference worker | `PENDING_REFERENCE` rows, `ref_attempts` | `ResolvePendingReference` | the same tables as the handlers |
| Outbox publisher | `outbox_events` | poll, send, mark, retry | outbound FIFO queue |
| SQS worker, inbox | inbound queue, `inbox_messages` | receive a batch, process, delete or leave | wager service |
| HTTP handlers, OIDC middleware | JWKS cache | decode, verify the token, authorise | issuer's JWKS endpoint; wager and wallet services |
| Connection pool, API and worker process | connections, lifecycle | Begin, Commit, reads; start, graceful stop | every repository; the other process through row locks |
| Money | none | parse, format, add, subtract | everything that carries an amount |
| Configuration, health, metrics, correlation ids, swagger, scripts | none that matters across calls | | |

In memory, requests share the key cache and the connection pool. What makes the
system hard is that handlers, workers and publishers of several processes meet in the
database: reads outside a transaction are stale when they are used, unique
indexes and row locks decide races, error paths write in a second transaction
after the first was rolled back, and deliveries are repeated by clients, by the
queue's visibility timeout and by the outbox. `PROJECT.json` lists each of these
hazards at its line, with the properties that would notice it going wrong.

What makes each component correct:

* wager service: one transaction per idempotency key, money moves once per
  PROCESSED transaction, a transaction is reversed once, balance = ledger,
  events tell the ledger, every request is answered;
* reference worker: a waiting reversal moves money once or not at all, a final
  status is final, no reversal waits for ever;
* outbox: nothing is marked that was not sent, nothing is sent twice, nothing is
  forgotten while abandoned events leave a place in the polls;
* SQS worker: no LOSS or reversal is deleted undecided (a BET or a WIN can be, see
  Disagreements), nothing is redelivered for ever;
* wallet service: one wallet per owner, reconcilable at any moment;
* key cache: a withdrawn key is honoured, and a new one refused, for a bounded
  time only, and nobody waits for ever;
* pool and processes: no circular wait, a stop ends;
* money: exact or refused.

## Modules

| module | models | extends |
|---|---|---|
| `WagerService` | `ProcessTransaction` and the wallet operations it calls, by any number of handlers | |
| `WagerLedger` | what the wager service promises about money, as an abstract specification | |
| `WagerServiceProofs` | the two invariants of `WagerService` (locks and ledger; decisions), the table properties, the refinement | `WagerService` |
| `ReferenceResolver` | `ReferenceWorker`, `ResolvePendingReference` | `WagerService` |
| `SqsWorker` | `WagerSQSWorker` and its queue; handlers are SQS workers or HTTP | `WagerService` |
| `OutboxPublisher` | `OutboxPublisher`, `OutboxRepository`, the FIFO queue | |
| `WalletService` | `CreateWallet`, `GetLedger`, `Reconcile` and their handlers | |
| `OidcAuth` | the OIDC middleware, `KeyValidator`, the issuer and time | |
| `ConnectionPool` | pooled connections, wallet locks and the life of both processes | |
| `Money` | `ParseMoney`, `String`, `MarshalJSON`, arithmetic | |
| `ReferenceResolverProofs` | theorems of `ReferenceResolver`, on the lemmas about `WagerService` | `ReferenceResolver`, `WagerServiceProofs` |
| `SqsWorkerProofs` | theorems of `SqsWorker`, on those of `WagerService` | `SqsWorker`, `WagerServiceProofs` |
| `OutboxPublisherProofs`, `WalletServiceProofs`, `OidcAuthProofs`, `ConnectionPoolProofs`, `MoneyProofs` | theorems of the module they are named after | that module |
| `MC...` | instances of the module they are named after | |

`ReferenceResolver` and `SqsWorker` compose with `WagerService`: they run beside
its actions on its tables. `OutboxPublisher` and `WalletService` see only what
the writing transactions commit, so these appear as a Begin and a Commit (or
Settle) action.

### WagerService

A step is one database round trip of the code, or one SQL transaction from its
first write to its commit. `pc` names the place in the code:

| pc | code |
|---|---|
| checkKey, checkExternal | `FindByIdempotencyKey`, `ExternalTransactionExists`, then the validation without I/O |
| findReference, checkReversal | the reference of a WIN or a reversal, `HasSuccessfulReversal` |
| lockWallet, updateBalance | `applyBalanceChange`: `FindByIDForUpdate`, then `Debit`/`Credit` and `UpdateBalanceTx` |
| commit | `commitWithLedger`: inbox, row, ledger entry, events, commit |
| findDuplicate | the lookup after `ErrIdempotentDuplicate` |
| failureBalance, createAndReject | the second transaction after a wallet error |
| reject, pendingReference | `reject`, the PENDING_REFERENCE insert |
| lossBalance, commitLoss | `processLoss` |
| reportBalance | the read of the balance for the answer |

The tables are `balance`, `version`, `rows`, `ledger`, `outbox` and `inbox`;
`lock` is the `FOR UPDATE` lock of a wallet row. A transaction's writes appear at
its commit (READ COMMITTED). An insert whose unique key is written by an open
transaction waits for it, so only the order of commits matters and each
inserting transaction is one step; an insert also waits for a `FOR UPDATE` of the
wallet its foreign key names. Faults are a failed read, a failed wallet call
(each with the code's reaction to it), a transaction rolled back, a commit whose
answer is lost, and a crash.

Abstractions: the payload hash is a value that agrees only when the hashed
fields do; amounts are minor units, with `MaxAmount` for `math.MaxInt64`; an
amount below zero stands for text `ParseMoney` refuses; every request uses the
currency of its wallet, so `CURRENCY_MISMATCH` does not occur; wording, logging
and metrics are left out.

### WagerLedger, and how WagerService implements it

`WagerLedger` knows orders, balances and three sets: settled, refused, undone. It
has no handlers, locks, retries or crashes. An order is decided once; a BET debits,
a WIN credits, and a reversal moves exactly the amount of the settled, not yet
undone order it names: a REFUND credits it, whatever it names
(`ARCHITECTURE.md:231` allows a WIN), a ROLLBACK moves the money of a BET, a WIN or
a REFUND back; a refused order moves nothing. The
mapping (`Ledger` in `WagerService`) reads it off the tables: the balance is the
`wallets` row, an order is settled when a PROCESSED row stores it and refused when
a REJECTED row does, and undone when a PROCESSED reversal names its row. So
`ImplementsLedger` says that every step of every handler, whatever fails and in
whatever order they run, is one decision of the abstract ledger or none: the
balance, the row and the reference change together, in the commit. A
PENDING_REFERENCE row is not a decision.

### ReferenceResolver

`job` is the call each worker is in. A worker that holds the pending row
`FOR UPDATE` is in one of `ClaimSteps`. No code path stores a PENDING
transaction: the integration tests set a processed one back by SQL, and the
external actions `Hold` and `Settle` are that writer. Only with it does a handler
reach the insert of a PENDING_REFERENCE row (`InsertPendingReference` of
`WagerService`), so that step is in the next-state relation of this module
(`StorePendingReference`). The backoff of
`ref_next_attempt_at` only delays; the model may take a pending row at any time.

### OutboxPublisher

Only the order of `next_attempt_at` matters: `due` and `later` hold events in that
order. It is fixed when the writing transaction begins, because PostgreSQL's
`now()` is. A transaction that settles a waiting reversal begins after the one
that stored it has committed (`Precedes`). `FindPending` runs outside a
transaction: its `FOR UPDATE SKIP LOCKED` locks live from its start to its end
(step "select"), during which an overlapping poll passes over the locked rows, and
an update of one waits. When the rows break off, the code takes what it has got as
the whole batch, because it never asks for `rows.Err` (`FetchBreaks`). `failed` and
`skipped` are history variables: events whose send failed once, and events a poll
passed over. The FIFO queue (external) drops a message whose deduplication id it
remembers; `Expire` is the end of the five-minute interval. An event that another
one builds on has a deduplication id of its own (`SuccessionAssumption`): it is
made of the event's type and the id of its transaction, and `EventsInOrder` shows
that the writers announce the wait of a transaction once and first.

### SqsWorker

`mail` says where a message is and how often it was received; a receipt is the
receive count, so a delete with an old one has no effect. The visibility timeout
may pass at any time, also while a message waits in a worker's batch. After
`MaxReceive` receives a message is dead-lettered (`cmd/sqs-init`). Failures of the
worker's own loop, a failed delete or a stop between two messages, are counted in
`outages`, apart from the `faults` inside `ProcessTransaction`: a worker's step is
then a step of `WagerService`, or none.

### WalletService

`created` is the begin order of the writing transaction, as `created_at` is. The
cursor of a page is modelled by its pieces between colons, because the code
splits it there. Settlements commit balance and entry together, which is what
`WagerService` and `ReferenceResolver` do (`MoneyMovesByEntry`).

### OidcAuth

A goroutine is before, between or inside the critical sections of `GetKey` and
`refreshKeys`; `mutex` is held during the fetch, as in the code. Time is kept as
distances from now (`left` of the cache, `since` the last refresh, `age` of the
clock reading a goroutine acts on), clipped where no comparison tells them apart.
The issuer (external) may change a key at any moment, also under its old `kid`.
`WithdrawnKeyBounded` and `PublishedKeyAccepted` are exact: with any bound
smaller by one tick TLC finds a violation. A token is a record of what the
checks look at; signatures are equality of key material.

### ConnectionPool

A job is the sequence of points where a call can be made to wait: "query" (a
connection for one statement), "begin", "lock" (the wallet `FOR UPDATE`), "insert"
(the key share lock of a foreign key) and "end". One definition per path through
the service; what the calls compute is in the other modules. All jobs are about
one wallet. A worker's calls are cancelled by a stop, a request's are not; a stop
runs the fx hooks in their order (server or loops, then the pool), and `Kill` is
also the end of fx's stop timeout, 15 seconds by default, which comes before the
worker's own 25. Locks on pending rows are left to `ReferenceResolver`.

### Money

Operators over a machine word of any width, with the wrap-around of Go where the
code computes; texts are sequences of characters of the classes the parser tells
apart. The reference definitions (`WellFormed`, `Denoted`, the exact sums) know
neither the word nor the pieces a text is cut into.

## Runs

| run | instance | question |
|---|---|---|
| reversals | 2 handlers, 5 requests, 4 deliveries, 1 fault, fair | the safety of money and answers under races, that every request is answered, refinement, the invariant of the proofs |
| refusals | 1 handler, 20 requests on 2 wallets, 4 deliveries | every kind and refusal, sequences of up to four of them, refinement |
| resolver | 1 handler, 2 workers, 4 requests, 1 hold, 1 fault, fair | waiting reversals, the claim |
| outbox | 2 publishers, 2 events, 2 attempts, 2 faults, 1 expiry, fair | publication and its order |
| sqs | 1 worker, 1 HTTP handler, 2 messages (one malformed), 2 faults, 1 outage, fair | deletion and redelivery |
| wallets | 3 callers, 2 owners, 3 transactions, 1 fault | creation and reconciliation |
| oidc | 2 goroutines, 3 requests, 2 kids, 1 rotation, 1 failed fetch, fair | the key cache |
| pool | 2 requests, 1 worker loop, 4 connections, fair | circular waits, stopping |
| money | 8 bit word, texts up to 5 characters | exactness |

Four deliveries are enough for a bet, both its reversals and one repetition, in
any order and by either handler; two handlers are enough for every race the
database arbitrates, since locks and unique indexes are pairwise. One fault
separates the error paths, two let a fault meet the recovery of another. Requests
clash on purpose: they share a wallet whose money suffices for some of them.
`MaxFaults`, `MaxOutages`, `MaxDeliveries`, `MaxHolds`, `MaxExpiries`, `MaxCalls`,
`MaxTransactions`, `MaxRequests`, `MaxRotations`, `MaxAge` and `MaxLength` are
bounds of the model; `BatchSize`, `BatchLimit`, `MaxAttempts`, `MaxRefAttempts`,
`MaxReceive`, `PageSize`, `MaxConns`, `TTL`, `Cooldown`, `Timeout` and `MaxInt` are
parameters of the code, at small values. `TTL`, `Cooldown` and `Timeout` keep their
order (5 minutes, 30 and 10 seconds). `ConnectionPool` has no counters: its
goroutines run jobs for ever. An eight bit word has the same edges as a wider one:
its limit is no multiple of 100, texts of five characters reach beyond it.

The pool run gives every request two connections, which is tight: with three for
two requests a ROLLBACK of a type that cannot be reversed holds two and waits for
a wallet whose owner waits for a connection. Nothing in the code limits requests
to half of `API_DB_MAX_CONNS`; `pool_starved` shows the case that the tests of the
repository send.

Fairness. Handlers, workers and publishers are goroutines in endless loops that
call again after every answer, so each gets weak fairness on its own next step;
a wallet lock is only waited for, and PostgreSQL grants it when it is free.
Backoffs, the visibility timeout and the redrive policy end by the clock (weak
fairness on `Ripen`, `VisibilityTimeout`, `Redrive`). Nothing is assumed of
clients, of the writers of events, of the external writer of the resolver, of
faults or of crashes. In `OidcAuth` the mutex is only waited for and the issuer
answers or the client's timeout ends the fetch (weak fairness). In `ConnectionPool`
a goroutine's step has strong fairness, because pgxpool and PostgreSQL serve their
waiters in order and others may take a connection or a lock in between; a
cancelled call returns and the hooks of a stop run on (weak); nothing makes a
client go away or a process stop, die or start. Under an endless stream of
overlapping inserts PostgreSQL may keep a `FOR UPDATE` waiting, so that every job
ends is not claimed; `NoCircularWait` is. `EventuallyPublished` has a condition of
its own: abandoned events do not fill the polls for good. The run outbox checks
its other half: faults abandon one of two events, at either end of a batch, while
polls overlap and processes restart, and the other one is published. The condition
cannot be dropped: `HeldUpForEver` proves that without it an event stays where it is.

## Disagreements

Three runs show the code doing what its documentation or tests exclude;
`PROJECT.json` quotes the sentences.

| run | what happens |
|---|---|
| resolver_race | a worker that lost its claim overwrites PROCESSED with REJECTED; the money stays moved, and the reversal index no longer stops a second reversal (`SecondReversalNeedsOverwrite` names this as the only way) |
| outbox_lost | a second balance event of a wallet within five minutes is dropped and marked as published |
| pool_starved | once a BET is stored, concurrent duplicates of it hold all connections and wait for the wallet, whose owner waits for a connection |

Others met while modelling, visible in the models but without a run of their own:

* two payloads under one key race past the hash check, and the loser is answered
  with the result of the other payload (`service.go:172`), not with a conflict
  (`ARCHITECTURE.md:103`);
* two keys with one external id race past `ExternalTransactionExists`
  (`service.go:120`), which no index backs, and both are settled
  (`ARCHITECTURE.md:150`);
* an event that used up its attempts stays pending with its last `next_attempt_at`,
  and `FindPending` has no condition on attempts: as many of them as a poll returns
  (10, `outbox_publisher.go:98`) fill every poll of a publisher, and the events
  behind them are never sent, though none of their sends failed
  (`ARCHITECTURE.md:115` promises each at least once, `362` gives up only what
  failed five times itself, and the test at `outbox_publisher_test.go:142` expects
  the event behind an abandoned one to be sent). `HeldUpForEver` proves it for one
  publisher and batches of any size;
* any failed wallet call rejects a BET or a WIN for good after one attempt
  (`service.go:214`, `282`), although `WALLET_ERROR` should be retried
  (`ARCHITECTURE.md:161`, `310`); and when the rejection cannot be stored either, its
  error is dropped, the caller gets the same terminal error (`service.go:224`), the
  message is deleted, and no row knows of the transaction. This is why
  `DeletedWasDecided` speaks of LOSS and reversals only;
* the wallet's `FOR UPDATE` lock is held to the end of the transaction, and not
  only for the read and the update as `ARCHITECTURE.md:386` says;
* a concurrent duplicate of a BET that empties the wallet is answered with
  `ErrInsufficientBalance` (`service.go:224`), and one of a REFUND with
  `ErrDoubleReversal` (`service.go:999`), not with the original result
  (`ARCHITECTURE.md:93`);
* a reversal that arrives before its reference is rejected at once
  (`service.go:386`), not after ten attempts (`ARCHITECTURE.md:361`);
* an event that failed is overtaken by later ones of its aggregate
  (`inbox_outbox_repository.go:151`), and events follow the begin and not the
  commit of their transactions (`wager_transaction_repository.go:287`), against
  `ARCHITECTURE.md:291`;
* two publishers may hold the same batch (`inbox_outbox_repository.go:105`),
  against `ARCHITECTURE.md:119`, because the row locks end with the statement;
  `NoDuplicateMessage` shows that deduplication hides it. Where the locks do keep
  polls apart, an event can be overtaken by one that builds on it: `DeliveredInOrder`
  leaves out skipped events, and `AloneInOrder` proves that with one publisher there
  are none;
* the cursor of a second ledger page cannot be parsed (`ledger_repository.go:58`),
  which also ends `Reconcile` of a wallet with more than 1000 entries;
* `Reconcile` reports a divergence when a settlement commits between its two
  reads (`wallet/service.go:331`);
* a reversal that a worker settles stores no `result_balance`, so its replay
  reports the balance of the moment.

## Proofs

All theorems hold for every value of the constants that satisfies the named
assumptions of the modules; these are types (bounds are naturals, amounts lie in
range, null values are outside the sets they complete) and, where a sentence below
says so, a fact of the code. `PROJECT.json` lists the theorems, with the property
a run checks on a small instance where there is one.

**WagerService, locks and ledger** (`WagerServiceProofs`: `Invariance`, `TypeCorrect`,
`SnapshotCurrent`, `LedgerSound`, `OneRow`). `LedgerExplainsBalance` is not
inductive: a commit appends an entry computed long before, from a balance read
under the lock. `IndInv` adds what makes that entry fit: the handler in
`updateBalance` or `commit` owns the lock of its wallet and carries its current
balance and version (`OwnerOK`); a locked wallet is locked by such a handler
(`LocksOwned`), so no two own the same one; a request beyond validation has an
amount in range, and a direction once it reaches the wallet (`HandlerOK`); stored
rows name existing wallets. The proof has a lemma per action. The actions share a
few shapes, proved once: a step that changes locals only (`LocalStep`), one that
also gives up a lock (`ReleaseStep`), one that inserts a row without money
(`InsertRowStep`), and the settlement (`SettleStep`). `OneRow` needs no more than
types: every insert is guarded by `UniqueViolation`.

**WagerService, decisions** (the second half of `WagerServiceProofs`). Every step commits nothing,
a row, or a row with its money (`CommitForms`), and in each case the tables grow
(`CommitsGrow`). So what a handler has read cannot become false, and `DecisionInv`
says what that is: a reversal beyond its checks refers to a PROCESSED row of its
wallet, provider and amount, a WIN to a stored BET (`Informed`); a refusal for
want of money met a balance that did not suffice (`Refusing`); an answer is that of
a committed row (`Answering`); rows and entries belong together. The one check
that does become stale, `HasSuccessfulReversal`, is repeated by the unique index.
From it follow `AnswersTrue`, `RefusalsTrue`, `ReversalsOnce`, `SettledOnce`,
`EventsTrue` and `InboxTrue`, and `ServiceImplementsLedger`
(`Spec => Ledger!Spec`): a settlement maps to the decision of its kind, a
rejection to `Refuse`, and every other step leaves the mapped state alone. TLC
checks `DecisionInv` itself in the run reversals.

**ReferenceResolver** (`ReferenceResolverProofs`). `WagerService` leaves room for
lock owners that are no handlers (`Workers`), so `IndInv` and its lemmas hold beside
the workers, and a step of one side has to be shown harmless to the other
(`HandlerStepInv`, `OutsideStep`). None of the properties is inductive. `ResolverInv`
adds: a claimed row waits (`JobOK`) and is claimed by one worker (`ClaimsApart`), so
the entry a worker writes is the first of its reversal; a worker that holds a wallet
has its current balance (`WorkerOwns`); an entry belongs to one transaction
(`EnteredOnce`), a PROCESSED reversal has one and a waiting one has none
(`ReversalsEntered`); PROCESSED reversals name different transactions
(`ReversalIndex`); and the attempts stored, with those the workers may still count
from an old snapshot, fit the limit (`AttemptsLeft`). A rejection written without a
look at the status keeps all of this: that is why `DoubleNeedsOverwrite` has to name
the overwrite, and why `TerminalStatusFinal` is no theorem. `RejectionFinal` is an
action property that follows: a commit names a claimed row or a new one.
`TerminalButForRejectAgain` says how far `TerminalStatusFinal` does hold: the claim
keeps the row waiting in every transaction of a worker but the second.

**ReferenceResolver, tables**. Every step commits what a handler commits, moves
money with an entry and two events (`MovesMoney`), or moves nothing and keeps the
requests of the rows (`ResolverForms`). So the table properties of `WagerService`
survive the workers by the lemmas that prove them there (`CommitMirrors`,
`MirrorMove`, `InsertKeepsKeys`): `ResolverEventsTrue`, `ResolverOneRow`,
`ResolverSnapshotCurrent`. Two theorems state what other modules assume of the
writers: `MoneyMovesByEntry` the settlements of `WalletService`, and `EventsInOrder`
the succession of events `OutboxPublisher` starts from. The latter needs that a
waiting row has no event of a settlement yet (`EventsInv`); it excepts rejections,
because two workers that fail on the same wallet announce the same one twice.

**SqsWorker** (`SqsWorkerProofs`). `WorkersImplementService` is `SqsSpec => Spec`,
so whatever is proved of handlers holds of workers (`InboxTrueForWorkers`).
`DeletedDecided` needs two more facts: a worker inside `ProcessTransaction` holds
the request of the first message of its batch, and only that one (`AtWork`), and a
handler whose answer is not to be retried leaves the reason in the tables
(`Accounted`), which only grow. That messages carry one request each, and a
malformed one none, is assumed (`SqsAssumption`).

**OutboxPublisher** (`OutboxPublisherProofs`). Nothing ties the row a publisher
marks to the table at that moment: it acts on a batch read long before. `OutboxInv`
follows an event from the schedule (`ScheduleInv`: an event stands behind the one
it builds on unless that one failed) over the batches (`BatchInv`: its predecessor is
ahead of it in the batch, already in the queue, failed or skipped) into the queue
(`QueueInv`, `InOrder`, `AllSent`). `NoDuplicates`, `PublishedSent` and `InTheirOrder`
are its consequences; `AloneInOrder` is about one publisher. So is
`HeldUpForEver`, which needs that a lone publisher's batch shows the present attempts
of each event, once (`FreshInv`): then no abandoned event is ever sent, marked or
moved, a place of `due` stands behind at least the abandoned ones it stood behind
before, and a poll that returned it would return those as well, one too many.

**WalletService** (`WalletServiceProofs`). `SumByWalletID` adds up a ledger of any
length, as a recursive function of the length. That it exists and is unique is
proved without induction over data: two running sums that differ would differ at a
least index, whose predecessor agrees. `WalletInv` then says that the sum is the
stored balance and what the last entry says, and what each call of `Reconcile` read
is a balance the wallet had, the sum the later one.

**OidcAuth** (`OidcAuthProofs`). `OidcInv` bounds how long cache and issuer can have
disagreed: as long as the cache is old (`CacheLag`), as a fetch has taken
(`FetchLag`), or as the last refresh is ago while no fetch failed (`RefreshLag`).
`WithdrawnKeys` and `PublishedKeys` are action properties that follow. They rest on a
fetch shorter than the cooldown: 10 and 30 seconds, `auth.go:28` and `75`.

**ConnectionPool** (`ConnectionPoolProofs`). `PoolInv` says that the connections a
goroutine holds fit the rest of its job (`JobsNested`), and that whoever holds the
wallet needs at most one more connection before its transaction ends (`LocksEnd`).
So with two connections for every goroutine somebody can always go on:
`NoDeadlock`, under `TwoEach`. The bound is sharp (with one less TLC finds a circular
wait) and nothing in the code provides it. `ConnectionsComeBack`: closing the pool
never waits.

**Money** (`MoneyProofs`). `ArithmeticIsExact`, `LimitIsExact` and
`MagnitudeIsExact` hold for words of every width: a sum of two words leaves the
range by at most its size, so it wraps at most once, and the tests of `Add` and
`Subtract` exclude just these cases without computing them. `ParseIsExact` and
`FormatIsReadBack` hold for texts of every length. Reading digits is a recursive
function over the prefixes of a text (`Readings`); as with the sums of
`WalletService`, that it exists and which equations it satisfies follows from the
least place at which two candidates differ. A text that passes the checks of
`ParseMoney` has one of three shapes (`CheckedShapes`), as has a well-formed one
(`WellFormedShapes`), and for each the parts read apart make the number the whole
denotes (`ParseFigures`). What `String` prints has two digits behind the point, and
its digits are read as the number they spell (`DigitsRead`, `FormatShape`).

Every safety property a passing run checks is thus a theorem. Only model-checked is
liveness (`EveryRequestAnswered`, `PendingResolved`, `EventuallyPublished`,
`EveryMessageLeaves`, `EveryCallerAnswered`, `StopCompletes`): the prover reaches
neither fairness nor ENABLED.

Three properties of `WagerService` are not carried over to `ReferenceResolver`. There a
row changes its status after it was reported (a waiting reversal is settled, the
external writer holds a bet), so `AnswersAreCommitted`, `SettledExactlyOnce` and
`InboxTellsProcessed`, which compare with the status, describe the handlers alone;
`ReversalsSettledOnce` takes the place of the second.

## Not modelled

Plain reads (`Get`, `GetByProviderAndExternalID`, `GetWallet`, `GetBalance`), the
provider and player checks of the transaction handler, health checks, metrics,
logging, configuration, route patterns, and what libraries do: JWT parsing and
signatures, how pgxpool opens and retires idle connections. `PROJECT.json` gives
the reason for each. Deadlocks PostgreSQL breaks by aborting a transaction are
faults of that transaction.

## Plan

Done: the modules above; the proofs of the booking service, its refinement of the
abstract ledger, and the safety of the reference workers, the SQS workers, the
outbox, the wallet service, the key cache, the pool and the money type; and what the
wallet service and the outbox assume of their writers. Next:

1. the refusals of handlers beside reference workers (`RefusalsJustified`): a balance
   that did not suffice may have been moved by a worker, so `DecisionInv` has to
   follow the entries of both;
2. an abstract ledger with waiting reversals, which handlers and workers together
   implement as `WagerService` implements `WagerLedger`.
