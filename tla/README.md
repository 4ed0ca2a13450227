# A verification project for NusaLedger

NusaLedger is a double-entry ledger: an HTTP API over PostgreSQL that moves money
between wallets, and a worker that announces every posted transaction through
RabbitMQ. This directory holds TLA+ models of the parts that carry its logic, the
TLC runs that check them on small instances, and TLAPS proofs, for every instance,
of the safety properties of the store, its refinement, the service, the statement, auth,
the rate limiters, the outbox and the api process. Paths below are relative to `src/`.

## The system

| Component | State | Operations | What makes it correct |
|---|---|---|---|
| money (`internal/domain/money.go`) | none | `NewMoney`, `Add`, `Sub` | exact or refused, never wrapped |
| domain (`transaction.go`, `entry.go`, `account.go`) | none | `Validate`, `AccountIDs`, `BalanceDelta`, four builders | accepts exactly balanced transactions; a reversal undoes its original |
| ledger repository (`internal/repository/postgres/ledger_repo.go`, migrations 3 to 7) | `accounts`, `transactions`, `entries`, `idempotency_keys`, `outbox_events`; per session a transaction with row locks | `Post`, `GetTransaction`, `TrialBalance`, `BalanceDrift` | atomic, once per key, no overdraft, no lost update, no deadlock, history only grows |
| ledger service (`internal/service/ledger.go`) | the request being served | `Topup`, `Withdraw`, `Transfer`, `Reverse`, `postIdempotent`, `GetTransaction`, `MyWallet` | what a caller is told agrees with what is stored, across retries |
| http transport (`internal/transport/http`) | none of its own | middlewares, decoding, receipts, `mapError` | own balances only; the receipt says what was asked; 500 only for a failure of the database, a body that breaks off or a text that cannot be stored |
| statement (`service/cursor.go`, `account_repo.go`) | the client's cursor | `MyEntries`, `ListEntries` | pages neither skip nor repeat a row while posts commit |
| auth (`internal/service/auth.go`, `user_repo.go`, `token_repo.go`) | `users`, wallets, `refresh_tokens` | `Register`, `Login`, `Refresh`, `Logout` | registration is all or nothing and unique; a token is exchanged once; logout is final |
| rate limiters (`internal/platform/ratelimit`) | buckets in memory, counters in Redis | `Allow`, `gc` | excess is bounded, refusals are deserved, counts go away |
| api process (`cmd/api`, `internal/app`, `internal/config`, `internal/platform/dbmigrate`) | start-up, pool, requests in progress, drift job | start, serve, signal, shut down, crash | serves only when checked, finishes what it began, ends |
| outbox relay (`internal/platform/outbox`) | `published_at`; a batch in progress | `PollOnce` | no committed event is lost; copies only after a failure |
| audit consumer (`internal/consumer`) | `processed_events`; a delivery in progress | `handle` | each event recorded, its audit line written at most once |
| worker process (`cmd/worker`) | process, broker connection | start, signal, exit | work goes on after failures; shutdown |
| broker (`internal/platform/broker`, RabbitMQ) | queue, binding, DLQ | declare, publish, deliver, ack, nack | external but for the topology, modelled by its use |
| jwt, passwords, logging, metrics, seed, roles | none that changes | cryptography, output, static data | not modelled |

The API's handlers call the service, the service calls the repositories, and every
shared state but the limiters' is in PostgreSQL: components interact through its
tables and row locks. `LedgerRepo.Post` writes the outbox row in its own transaction;
relays of any number of worker processes compete for those rows with `FOR UPDATE SKIP
LOCKED`, and consumers compete for the deliveries of one queue.

What is hard to test here: two sessions interleaving between the statements of
`Post`; locks taken in an order that matters; a commit whose answer is lost; a
statement failing after others succeeded; values read under a lock, or outside the
transaction, and used later; a relay dying between publish and mark; a consumer dying
between its insert and its acknowledgement; two refreshes of one token; twin
registrations; a limiter's clock read before its lock; a page boundary next to a
commit; a signal at any moment of an api process. `PROJECT.json` lists each with its
line.

## The modules

* `Money` - `Money` as a two's complement integer of `2 * HalfRange` values, so that
  wrapping is real.
* `Domain` - the pure part of `internal/domain`. Errors are their Go names, `"nil"`
  for none. `Validate` is stated by its running totals and the first entry at which
  it returns, not by a loop. `Drafts` appends entries one by one to a header and compares
  what `Domain` makes of them with exact arithmetic.
* `LedgerStore` - `Post`, one action per statement that can wait or be interleaved:
  `Post` (Validate, Begin), `Claim`, `LockRow` (one row lock at a time), `CheckLocked`,
  `Mark`, `InsertHeader`, `PostEntry` (pre-check, UPDATE and INSERT of one entry),
  `SaveResult`, `Commit`. `PostEntry` can be one action because the session holds the
  row's lock. What a session wrote stays in its own variables until `Commit`
  (READ COMMITTED). `Abort` and `CommitLost` are the failures: a cancelled context or
  a broken connection at any statement, and a COMMIT that is carried out and not
  heard of. `SetStatus` is the operator who freezes an account by hand; no code in
  the repository does. Every constraint of the migrations that `Post` can meet
  (`chk_wallet_non_negative`, `uq_reversal`, `uq_entry_account_per_txn`, the range of
  BIGINT, the deferred balance trigger) is part of the action it would stop, and
  `HeaderError` has the text PostgreSQL refuses: a description with a NUL (`Unstorable`).
* `AtomicLedger` - what `Post` promises, without sessions, locks or statements: a
  claim is settled in one step that moves balanced money, undoes at most one earlier
  settlement and announces itself. A line of it is what happens to one account, since
  `Validate` refuses two entries on the same. `LedgerRefinement` maps the committed
  tables to it.
* `LedgerService` (extends `LedgerStore`) - `postIdempotent` above the store: `Replay`
  (both lookups), `Build`, `Returned`, and `Read` for the use cases that only read; the
  handler and its database session are one process. A request hash is taken to be
  injective. `GarbledKeys` are keys that are no UTF-8, which the first lookup fails on.
* `HttpApi` (extends `LedgerService`) - what a request passes before the service sees
  it (`Receive`, by `Refusal`: credential, role, key, the reading of the body, which may be
  too large or break off, limit, decoding, validation, in the router's order) and what its answer becomes: `ToTransactionResponse`, `MapError`. The
  verdict of the rate limiter is a free choice here; `RateLimit` has the limiter.
* `Statement` (extends `LedgerStore`) - a client that pages through its wallet, one
  SELECT per page, while sessions go on posting.
* `Sessions` - login, refresh and logout over `refresh_tokens`. Each statement is a
  transaction of its own, so two requests interleave between reading and revoking.
  `parent`, `session` and `ended` record descent for the properties.
* `Auth` (extends `Sessions`) - registration, statement by statement, by the same
  handlers. An address is a name and a spelling: `Normalize` is what Go does to it,
  `Lower` what the unique index does. An INSERT that meets an uncommitted twin waits for
  its end. A login needs a committed user.
* `RateLimit` - both limiters and the endpoints that call them. Time is relative to
  now. A caller may hold a clock reading up to `MaxLag` old when it gets the mutex. A
  script may run and its answer be missed, and be run again by the client library.
* `ApiServer` - one api process from `config.Load` to its exit: migrations file by file
  with the dirty mark, the pool, the limiters, the services, the listener; requests
  that wait for a connection, hold it and write; the drift job; SIGTERM, `Shutdown`
  with its time limit, the deferred closes; death at any moment, and the next start.
* `OutboxPipeline` - relay, consumer, process, topology and broker together, for any
  number of workers. A delivery in the prefetch buffer counts as queued.

* `LedgerStoreProofs`, `HttpApiProofs`, `StatementProofs`, `AuthProofs`, `RateLimitProofs`,
  `OutboxProofs`, `ApiServerProofs` - the proofs, each of the module it is named after
  (`LedgerStoreProofs`: money, drafts and the refinement too; `HttpApiProofs`: the service too).
  `CollectionProofs` has the facts about numbers, sums and finite orders they share.

A definition that is only there to be put in the place of another, to see whether a
property notices a mistake in the code, stands right above it and says so.

## The runs

| Run | Shows | Instance |
|---|---|---|
| `domain` | a balance plus an entry is exact or refused; `Validate` accepts exactly the well-formed; the accounting equation; reversals undo | up to 3 entries, 3 accounts, 3-bit amounts, unknown directions, bad links, long descriptions |
| `ledger_posts` | `RunningBalance`, `BooksBalance`, `WalletNonNegative`, `BackstopsNeverFire`, `LockDiscipline`, `ExactlyOnce`, `ReversedOnce`, `NoDeadlock`, `NewRowsSortLast`, `FrozenUntouched`, `OneWay`, types, and `PostIsAtomic`: the refinement of `AtomicLedger` | 2 sessions, 3 keys, one topup and two ways to spend it of which it covers one, the second with the rows of the topup in the other order, reversals by an administrator, a missing account, transactions that are invalid or do not balance, a freezable wallet |
| `http_api` | `SuccessIsTheStoredResult`, `NeverInFlight`, `OnlyOwnBalances`, `ReceiptMatchesRequest`, `OnlyFaultsAreInternal` | 2 handlers, 2 users, an administrator without a wallet, a stranger, 2 keys and one that is no UTF-8, 2 fee shards, 10 requests, among them a body that breaks off, a description that is too long and one with a NUL |
| `statement` | `PagesAreSeamless`, `ReaderFinishes`, `EveryPostReturns` | 2 sessions, 3 posts to the reader's wallet, page limits below, at and above the range, pages of 1 and 2 rows; fair |
| `auth` | `RotationIsLinear`, `SessionGoesOn`, `LogoutIsFinal`, `RegistrationIsAtomic` | 2 people, 2 handlers, 4 spellings, 3 tokens, 1 failure |
| `rate_limit` | `AtMostTwiceTheLimit`, `RefusalIsOwn`, `StaleBucketsAreCollected`, `CountersExpire` | login by email and by address, refresh by address, limits 2 and 1, windows of 2 ticks, clock readings up to 1 tick old, up to 2 runs of the script per call, Redis that fails and restarts |
| `api_server` | `ServesOnlyChecked`, `InFlightIsFinished`, `StopsAfterSignal` | 2 starts, 9 environments, 2 migrations, 3 requests (one probes readiness) over 1 connection |
| `outbox` | `SentIsNotLost`, `DuplicatesHaveACause`, `AuditedAtMostOnce`, `EveryEventRecorded` | 2 workers from the first start, 2 events (one poisoned), a foreign message, batches of 2, 1 failure, outages; fair |
| `find_*` | see Findings | the smallest instance that shows it |

**Bounds.** Two sessions are enough for every pairwise race and for two that wait for each
other, whatever for; larger circles are left to `DeadlockFree`, which holds for any number. `HalfRange = 8` keeps balances near the edge of the machine
integer, so that overflow of a balance happens. `MaxEntryId` bounds the identity
column: past it the INSERT fails, as an exhausted sequence does. It also bounds the
number of posts, because sequence values are not given back by a rollback.
`MaxFaults` bounds the failures of one behaviour, `MaxTokens` the table of tokens,
`MaxStarts` the starts of the api process: one that dies and one that meets what it
left. One connection in the pool is enough for requests to wait for it. Counts of the
limiters stop at one above the largest limit, ages at the point past which no window
reaches. Keys, sessions, users and handlers are symmetric where no liveness is checked.

`AtMostTwiceTheLimit` counts over the window less `MaxLag`: a caller that read the clock
before a collection and comes after it opens a bucket that is already old, so over the
whole window a third bucket can begin. `EveryEventRecorded` excludes behaviours in which
a running worker loses its connection, which `find_reconnect` is about.

**Fairness.** `LedgerStore`: strong fairness of each session's statements, since the
process and the database go on and PostgreSQL queues the waiters of a row and of a key
and wakes them in turn. `Statement`: weak fairness of the reader, who asks for the next
page. `OutboxPipeline`: weak fairness of the relay's and the consumer's steps (a ticker
and two goroutines), and of the end of a stopping process and its restart
(`docker-compose.yml`: `restart: unless-stopped`). `RateLimit`: time passes.
`ApiServer`: weak fairness of start-up, of the closes, of the timer of `Shutdown`, of the
job's end once its context is cancelled, and of each request, which the timeout of 30
seconds ends at the latest. No failure, signal or client is assumed to happen.

**Deadlock.** It is checked in the ledger, the API, the statement, auth and the rate
limiters. In the outbox runs, in `api_server` and in `domain` the system may stop:
everything is sent and recorded, the process is started no more, or the transaction has
all its entries.

## Proofs

Every theorem holds for any sets of accounts, sessions, keys, orders, users, handlers,
events, workers, requests and environments, and for any bounds, that meet the named
assumptions of the module. The state properties are seldom inductive: each proof
module begins with the invariant that is, and has one lemma for each action, or for
each kind of step. Every invariant was first checked with TLC on the instance of the
component's run.

| Module | Theorems | Inductive invariant |
|---|---|---|
| `LedgerStoreProofs` | `AddIsAlwaysExact`, `SubIsAlwaysExact`: exact or refused, for machine integers of every width | none needed |
| | `BalancesAreExact`, `ValidateIsExact`, `EquationIsKept`, `ReversalsUndo` | `DraftTyped` |
| | `TypeCorrect`, `WalletsNeverOverdrawn`, `LocksProtectReads`, `FreezeIsImmediate`, `StatementsOnlyGrow`, `DeadlockFree` | `IInv`; with `OrderOK` for the last |
| | `PostedExactlyOnce`, `ReversalsAreUnique`, `HistoryIsOneWay`, `StatementsAddUp`, `TheBooksBalance` | `IInv`, `TInv`, `RowIdsOK` |
| | `BackstopsAreIdle` | the same, with `AllValid` |
| | `PostImplementsAtomic`: `LedgerStore` implements `AtomicLedger` | the same |
| `HttpApiProofs` | `ResultsAreStored`, `InFlightIsNeverTold`, `UsersSeeTheirOwn` | `ServiceInv`, with those of the store |
| | `FaultsAloneAreInternal`, `ReceiptsMatchRequests` | the same, with `AskedInv` |
| `StatementProofs` | `PagesAreSeamlessHolds` | `ReaderOK`, with those of the store |
| `AuthProofs` | `RotationsAreLinear`, `LogoutsAreFinal`, `SessionsGoOn`, `RegistrationsAreAtomic` | `SessionsInv`, `JoiningInv` |
| `RateLimitProofs` | `AtMostTwiceTheLimitHolds`, `RefusalIsOwnHolds`, `StaleBucketsAreCollectedHolds` | `BucketsOK`, `CountersOK`; `StaleOK` for the last |
| `OutboxProofs` | `NothingSentIsLost`, `CopiesHaveACause`, `OneAuditLine` | `PipelineInv` |
| `ApiServerProofs` | `OnlyCheckedProcessesServe`, `ShutdownIsGraceful` | `ProcessInv` |

**The store.** `WalletNonNegative` needs that the balances a session is about to commit
were computed from rows nobody changed meanwhile, which is `LockDiscipline`; that in
turn needs that a session only writes rows it has locked. `IInv` adds what a session has
established at each statement (`SessionOK`: from `mark` on it holds exactly the accounts
of its transaction, all read as ACTIVE), what its uncommitted rows satisfy
(`WrittenOK`: they follow the entries of the call, no wallet is below zero, and their
ids are above every committed row of the account) and that the sequence is ahead of
every row (`IdsBounded`). `NewRows` says what the commit adds, and gives the step
properties.

**No deadlock.** `OrderOK` says that a session in its scan holds only rows below those it
still wants. In any set of sessions one waits for none of the others: one that does not
wait at all; else one that waits for a header, whose holder has passed every statement
that waits; else, among those that wait for a row, the one whose row is greatest
(`FurthestGoesOn`: its holder would wait for a greater one); else all wait for a key,
and then none has any.

**The tables.** `ExactlyOnce` and `ReversedOnce` are conjuncts of `TInv`. What makes them
inductive is `DraftsOK`: what a session that has claimed its key, marked its original
and taken an id knows of the tables stays true until it commits, because no other
session can have the same key, original or id (`Apart`). For reversals it also has that
the lines still mirror the rows of the original, which were read outside the
transaction (`ReversalFits`): rows never change once committed. `HeadersOK` says that
what has no header is empty. `RowIdsOK` keeps ids of rows distinct, committed or not.
A commit is treated once, in `CommitFacts`; all else commits nothing
(`WritesAreCommits`), which gives `OneWay`.

**Sums.** `RunningBalance` follows without induction: the latest row of an account is
either an old one or the one the commit adds. `BooksBalance` sums over all rows. The
library's theorems of induction have an operator as parameter, which the provers cannot
use, so `CollectionProofs` argues by a least counterexample: from `LeastOfNats`, that
folds over finite sets exist and do not depend on the order (`SumExists`, `SumsAgree`),
then sums of unions, of images and by thirds. `TheBooksBalance` has
the equal sides of a commit from the deferred trigger (`SideTotals`), which is what stands in the
code's way if `Validate` is wrong.

**What `Validate` lets through.** `RunningTotalIsExact`: as long as no addition of the loop is refused,
the machine sum of a side is the exact total of its lines, by induction over the entries
(`EveryNat`). A session past its BEGIN has a valid transaction (`AllValid`); the rows it writes
are the lines, each once (`WrittenTotals`). Hence the trigger never fires.
Conversely, a transaction that is well formed in exact arithmetic is accepted
(`ValidIsExact`): amounts are positive, so a part of a side is no more than the side
(`TotalGrows`), and no addition on the way overflows when the last one does not. Its debits
less its credits are zero; an asset counts them as they are and every other account the
other way, which gives the accounting equation (`EquationHolds`). Its mirror has the same
accounts and the same totals on traded sides (`MirrorIsWellFormed`).

**The refinement.** A step that commits nothing leaves every settlement as it is and may
change which accounts are active (`QuietIsAtomic`). A commit is one `Settle` of its claim
(`CommitIsSettle`): the claim was free, the other settlements stay (`OldSettlementsStay`),
the new one has the lines of the call, they balance, each account moves by its line,
and an original is one that was settled, not yet undone and not a reversal
(`CommitIsUndoable`). That each claim finds its own header (`ClaimOfIs`) is `ExactlyOnce`.

**The service.** The invariants of the store hold under `ApiNext` too: each step of a handler
is a step of the store or leaves it alone, except that `Build` calls `Post` with a
transaction of its own making. `BuiltFits` says that this one is as the store's invariants need it: a
reversal mirrors a committed transaction, and what a user sends has an entry on the
user's wallet. `ServiceInv` is what a handler knows: of the request it accepted
(`Accepted`), that the call of `Post` it waits for is that request's (`PostingOK`), and
what the return of `Post` means (`ReplyOK`: after `nil` the claim holds the row of this
session; after `ErrIdempotencyInFlight` the claim is settled, because the INSERT waited
for the twin to end, so that the second lookup finds it). A settled claim never changes
(`NextOneWay`), hence what was found stays true. `BodyOK` relates the stored result to
the rows: both list one transaction in the order of ids (`StoredIsRead`, from
`SortedIsById`), so that a replay and a read agree.

**Requests and receipts.** `AskedInv` says that what a handler posts, and what is stored under
a key, is what its request asked for (`Asked`): a `Slip`, which has one entry for the
amount and a fee on one side and an entry for each on the other, or the reversed lines of the
original the request names. What the builders make is a slip (`BuiltSlips`), its mirror
is one too (`MirroredSlips`), so that `Validate` can only refuse it for its amounts
(`SlipValidates`), and the receipt reads the same amount and fee off both (`SlipReceipt`). The
rows that are stored are the lines that were posted (`RowsAreLines`). The second half of
`AskedInv` follows the errors: each of those a check, a builder or a statement of `Post` can
give is among those `mapError` names, or is a failure of the database (`StepTold`, which
needs that the backstops are idle). The two that remain are followed to their cause
(`Blamed`): the request they are told to has the body that broke off, or the text that
PostgreSQL refused.

**The statement.** `ReaderOK` says that what the client holds is a falling run of rows of
the wallet without a gap down to its cursor. A page continues it: `ListEntries` gives
the first rows below the cursor and leaves none out between two of them
(`ListedRows`, from `Ranked`: the ranks of a finite ordered set are 0, 1, 2 and so on),
and the cursor is the last row given and not the extra one (`PageRows`, `JoinPages`). A
commit between two pages only adds rows above the first one shown (`NextGrows`). That the
balances follow from each other is then `RunningBalance`: the row before a shown one is
the next one shown (`ShownAddUp`).

**Auth.** A session that nobody ended has exactly one carrier: a live token, or a handler
that has revoked the old one and is about to store its successor (`OneCarrier`). A
revoked token never lives again, and of two refreshes of one token only one gets to
store (`WorkOK`). For registration, ids and addresses of uncommitted rows are nobody
else's (`JoinOK`).

**The rate limiters.** A limiter forgets when it admitted what, so the invariant relates
its count to the calls by their age. While a bucket or counter is there, the calls
admitted since it was opened are at most what it has counted (for a bucket also no fewer),
and those of a whole window at most the limit more; once it is over, what it admitted ages
with it (`BucketOK`, `CounterOK`). Two windows that meet in an interval then admit twice
the limit. In Redis several limiters may meet in one counter, and the script sets the time
to live by whoever comes first. `AtMostTwiceTheLimitHolds` therefore supposes that
limiters which meet have one window (`SharedWindows`), as the defaults of `config.go` do;
TLC refutes the property for a login window of 3 and a refresh window of 1.
`StaleBucketsAreCollectedHolds` supposes that nobody waits for the mutex longer than a
window (`ShortLag`), without which a caller of the past could open a bucket behind the
gc that has just run.

**The outbox.** Batches are disjoint and not yet sent (`RelayOK`, from SKIP LOCKED). An event
that is marked is in the queue, in a consumer's hands or recorded (`KeptOK`), already
before the mark is committed. Between the INSERT and the audit line an event is in the
hands of one consumer (`DeliveryOK`). Every send but the one that counts has cost a
failure (`SendsOK`).

**The api process.** A request in progress means that `run` had checked configuration and
schema, and that `Serve` has not returned, or was given up on when `Shutdown`'s time was
over or the listener broke (`ServingOK`, `GivenUpOK`).

**Assumptions.** `MoneyAssumption`: the range of a machine integer. `DraftAssumption`: the id of a
transaction is not nil. `StoreAssumption`: account
ids fit a BIGINT and exist or not, every account has a type, and what a caller orders
other than through `NewReversal` names no original, as the other three builders never
set `ReversesID`, and what cannot be stored is one of the requests. `ServiceAssumption`: the configuration `NewLedger` accepts, wallets of
users are accounts of type `USER_WALLET`, the cash and fee accounts have the types by which
`NewLedger` found them, amounts, limits and the fee are machine integers, the path of a
request that names a transaction is a uuid, and a key that is no UTF-8 is not among the
good ones nor the bad one. `TrafficAssumption`: what callers send is one of the requests. `StatementAssumption`: the
reader's wallet exists, the page limits are positive and in order, and what is posted is
one of the orders. `RateLimitAssumption`: windows are positive, and login is one of the
limiters, which are the five of `newLimiters`. `Sessions`: an api process has finitely many handlers. `ApiAssumption`:
the fields of an environment have the types `config.go` parses them to, the pool has a
connection, the seed is one of the migration files. TLC evaluates all of them.

**Only model-checked.** Liveness, since the prover knows neither fairness nor `ENABLED`:
`EveryPostReturns`, `ReaderFinishes`, `EveryEventRecorded`, `CountersExpire`,
`StopsAfterSignal`.

## Findings

Four statements of the repository are not what the code does. Each is a run that
TLC refutes.

1. `find_poison`: the consumer's comment says an undecodable payload goes to the DLQ
   and is not silently dropped (`internal/consumer/auditlog.go:105`). Two ways lead elsewhere: the
   insert into `processed_events` is carried out and answered with an error, upon which the
   message is requeued (the shortest behaviour); or the worker dies after the insert and
   before the nack. The redelivery then looks like a duplicate, which is acknowledged.
2. `find_in_flight`: the service's comment says that a key being processed gives
   `ErrIdempotencyInFlight` (`internal/service/ledger.go:257`) and that the winner of a race may
   still be in flight (`:277`). `docs/03-SPESIFIKASI-TEKNIS-FASE-1.md:274` and
   `docs/openapi.yaml:394` document a 409 with `Retry-After: 1` for it,
   `internal/transport/http/response.go:117` sends that header, and `internal/service/ledger_test.go:213`
   tests the case with a row of status 0. No caller is ever given that answer: the row of
   status 0 exists only inside the uncommitted transaction of the twin, where no lookup sees
   it, and the `INSERT ... ON CONFLICT` of the second request waits until that transaction has
   ended (`internal/repository/postgres/ledger_repo.go:52`). So a twin is told the stored result, a
   conflict of bodies, or posts itself, as `NeverInFlight` says, which is proved
   (`InFlightIsNeverTold`). What it costs is a connection per waiting twin, which
   `docs/JURNAL-BELAJAR.md:708` accepts.
3. `find_reconnect`: the consumer's comment says that the worker's main reconnects.
   Nothing does, and the process neither dials again nor ends.
4. `find_shared_quota`: the configuration says that the limits have the same form for
   both backends. In Redis all limiters count under one prefix, so that an endpoint uses
   up the limit of another; and if their windows differ, one with a short window lets
   another exceed twice its limit.

Met on the way, and part of the models where they matter:

* A body that ends before its length or meets the `ReadTimeout`, a description with a NUL, and
  an `Idempotency-Key` that is no UTF-8 are a 500 although the client is at fault:
  `internal/transport/http/middleware.go:182` passes any error of `io.ReadAll` on, PostgreSQL refuses the text in
  the header's INSERT or in the lookup of the key, and `mapError` names none of the three.
  `OnlyFaultsAreInternal` has them as causes of their own. The catalogue of errors has
  `INTERNAL_ERROR` for everything it does not list (`docs/03-SPESIFIKASI-TEKNIS-FASE-1.md:282`).
* The worker logs that it finishes the work in progress (`cmd/worker/main.go:113`); it
  closes its connection at once. `SentIsNotLost` holds all the same.
* The relay's comment says that several instances send nothing twice. That holds of
  instances that do not fail (`DuplicatesHaveACause`); a failure between the confirm and
  the commit of `published_at` makes a later poll send the event again, and the consumer
  absorbs the copy (`AuditedAtMostOnce`).
* Readiness turns false when the signal comes, but `Shutdown` closes the listener right
  away: only a connection already accepted can still see it.
* The loser of two concurrent refreshes is told 404; `openapi.yaml` documents 200 and
  401 for it.
* A registration whose commit is carried out and not heard of is a 500 or 503, and the
  client's retry is told that the address is taken.
* A migration that dies half way leaves the dirty mark: every later start that migrates
  refuses until someone repairs it by hand.
* A failed revoke or insert in `Refresh` ends the session: the old token is spent, and a
  retry with it counts as reuse. `SessionGoesOn` is about races of refreshes and exempts
  this case through `ended`: no property covers it.
* `config.validate` does not look at the limits and windows of the rate limiters. Counts
  in memory are forgotten by a restart, and the client library may run the script twice
  for one call.
* `pool.Close` waits for connections in use beyond `ShutdownWait`; the request timeout
  bounds it.

## Not modelled

JWT and password hashing are cryptography: a credential is the user it stands for, or
none. Logging, metrics, request ids, security headers, pprof and the recovery from a
panic are output or glue. The seed and the database roles are static. The content of
the migrations is in the constraints of `LedgerStore` and `Auth`; `golang-migrate`,
PostgreSQL, Redis and RabbitMQ are modelled as far as the code uses them.
`DeleteOlderThan`, `CreateWallet`, `EntryFor` and `GetByID` have no caller outside
tests. Deadlocks and serialization failures reported by PostgreSQL (`translate`): the
first cannot happen (`NoDeadlock`), the second not at READ COMMITTED. In registration, text
that PostgreSQL refuses (a NUL in a name) and the length an address must have there.
RabbitMQ losing a confirmed persistent message, and a binding that is removed while
workers run. `TrialBalance` and `BalanceDrift` are single statements, each on one
snapshot: what they compute is `BooksBalance` and `RunningBalance`.

## Plan

Done, in this order: money and domain, the store and its refinement, the service, the
outbox pipeline, the sessions; the HTTP transport, the statement, registration, the rate
limiters, the topology and the api process; the proofs of the store, its tables, its
refinement and what `Validate` lets through, of the service, the statement, auth, the rate
limiters, the outbox and the api process, and last of the receipts, of the errors that
callers are told, and of the drafts.
