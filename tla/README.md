# CEX backend: models and proofs

This directory models the matching engine of the CEX backend (`src/domains/cex`
in the repository's Rust crate) in TLA+: what the engine thread does to balances
and books, how requests reach it, and how what it reports reaches the database.
Around it, it models the write-ahead log, the events published to Kafka, the
endpoint that creates orders, and the sessions and wallets of users. TLC checks
each model on small instances; TLAPS proves the most important properties for
all values of the constants.

Paths below are relative to `src/domains/cex/` unless they start with another
directory of the crate (`tests/`, `shared/`, `auth/`, `wallet/`; the last two
are under `domains/`). `threads.rs`, `engine.rs`,
`matcher.rs` and so on are in `engine/` or `engine/runtime/`.

## The system

A Java service owns users, wallets and the order table's rows; it calls this
server over HTTP to create and cancel orders and to sync balances. `main.rs`
routes only those calls and a health check.

| Component | State | Operations | Models |
|---|---|---|---|
| Order types (`types.rs`) | - | what an order locks, owes, and when it is filled | `EngineTypes` |
| Balance cache (`balance_cache.rs`) | available and locked funds per user and mint | lock, unlock, transfer, add | `BalanceCache` |
| Order book (`orderbook.rs`) | price levels with FIFO queues, per side | add, remove, best price | `OrderBook` |
| Matcher and executor (`matcher.rs`, `executor.rs`) | locals of the loops | match an order, settle a trade in two transfers | `MatchingEngine` |
| Engine thread's handlers (`threads.rs`) | cache and books, which it alone writes | submit, cancel, update, lock, unlock, two queries | `MatchingEngine` |
| Engine runtime (`engine.rs`, `commands.rs`) | two bounded queues, running flag, threads | send and wait with a timeout, start, stop | `EngineRuntime` |
| DB writer thread (`threads.rs`) | channel, batch, timer, transaction | batch, flush, retry, drain | `DbWriter` |
| Order service (`services/order_service.rs`, `handlers/order_handler.rs`) | none; rows in PostgreSQL | validate, check balance, submit, cancel | `OrderRequests`, `OrderStatus`, `EngineRuntime` |
| Balance handler (`handlers/balance_handler.rs`) | - | sync_balance | `EngineRuntime` |
| WAL thread (`wal.rs`, `threads.rs`) | channel, write buffer, file | append, sync, drain at the end | `WriteAheadLog` |
| Kafka events (`threads.rs`, `shared/kafka`) | a thread per event | publish `trade_executed` (with balance snapshots) and `order_cancelled` | `TradeEvents` |
| Sessions (`auth/`, `shared/middleware/auth.rs`) | users and refresh tokens in PostgreSQL | sign up, sign in, refresh, two logouts, who am I | `Sessions` |
| Wallets (`wallet/`, `shared/clients/solana.rs`) | wallets in PostgreSQL, SOL on the chain | create with a grant of USDT, transfer SOL | `Wallets` |
| UDP book feed (`services/udp_orderbook_feed.rs`) | running flag, socket | each interval, read the book (depth 20) under the engine's mutex and multicast a snapshot stamped with the time | - |
| Fee service, Java client, repositories | - | SQL and HTTP calls | - |
| Swap, bot | - | not routed, or not compiled | - |

How they interact:

* Every request goes through one `tokio::sync::Mutex` around the engine. Its
  holder sends a command to the order queue or to the balance queue and, except
  for a submission, waits for the answer on a oneshot channel with a timeout,
  still holding the mutex.
* The engine thread takes balance commands first and orders second, one at a
  time. It is the only writer of cache and books.
* The engine thread sends `UpdateBalance`, `InsertTrade` and `UpdateOrderStatus`
  to the DB writer's channel and publishes to Kafka from spawned threads. It waits
  for neither, except that a full DB channel blocks it.
* Sessions and wallets are compiled but no longer routed: the Java service took
  them over. Their requests share nothing with the engine but `update_balance`,
  by which the creation of a wallet grants its first funds.
* `cancel_order` of the service reads the order's row, asks the engine, and then
  writes the row itself, past the DB writer.

What is hard here: the loops of the matcher pop and push the queue they iterate;
a lock taken once is spent by trades of many later commands; amounts are divided
with rounding; errors in the middle of a settlement are only logged; three
writers (engine thread, DB writer, service) act on one order without a common
lock; callers time out while their commands stay queued; orders are submitted
from spawned tasks after the client was answered; a flush that fails keeps its
batch, and indices of one sequence are applied to another. `PROJECT.json` lists
these hazards with their lines and the properties that cover them.

What makes each component correct: funds are conserved, never negative, and the
locks cover what is owed (cache, executor, handlers); the book is never crossed
between two users, trades are fair and nobody else's order disappears (matcher, book); calls
return, answers find their caller, a confirmed cancellation is final (runtime);
a reported status is recorded or, when the writer stops, known to be lost, and a
filled row stays filled (DB writer, service); what is locked is what was checked
(order requests); a crash takes less than the sync interval of the log (WAL);
snapshots agree and keep their order (Kafka); one session per user, ended for
good by a logout (sessions); funds granted once per wallet (wallets).

## Modules

`MatchingEngine` EXTENDS `BalanceCache` and `OrderBook`, which EXTEND
`EngineTypes`. `OrderStatus` EXTENDS `DbWriter` and is shown to implement
`StatusStore`. `OrderRequests` EXTENDS `BalanceCache`. `EngineRuntime`,
`WriteAheadLog`, `TradeEvents`, `Sessions` and `Wallets` stand alone. The `MC*` modules are the instances,
the `*_proofs` modules the theorems. `PROJECT.json` maps each definition to its
lines. Definitions whose comment starts with "Mutant:" are plausible bugs, kept
to show that the properties notice them; no specification uses them.

### EngineTypes, BalanceCache, OrderBook

One trading pair with the mints `base` and `quote`. Orders keep the field names
of `OrderEntry`. Decimals are integer units: products are exact, as they are in
`rust_decimal` far from its 28 digits, and the only division
(`remaining_quote / price` in the matcher) rounds to nearest, ties to even, as
that library does at its last digit. With one unit of base standing for the
smallest step, the instance meets the rounding that real amounts meet at the
28th digit. A level exists exactly when its queue is not empty, as in the
`BTreeMap`. `total_orders` is left out: only tests read it.

### MatchingEngine, MatchingEngineProperties

| Code | Action |
|---|---|
| `process_submit_order` up to the lock | `SubmitOrder`, `RejectOrder` |
| outer loops of `match_buy_order`, `match_sell_order` | `EnterLevel`, `FinishMatching` |
| inner loops | `GiveUpLevel`, `SkipOwnOrder`, `DropUnmatchable`, `MatchHead`, `LeaveLevel` |
| settlement loop with `execute_trade` | `ExecuteTrade` |
| refund | `FinishOrder` |
| `handle_cancel_order` | `CancelOrder` |
| `handle_update_balance` | `UpdateBalance` |
| `handle_lock_balance`, `handle_unlock_balance` | `LockCommand`, `UnlockCommand` |

The loops are steps, so that the invariants are checked between them too.
Orders number themselves; in the system the ids are Java's. The lock and unlock
commands exist in the engine's interface and have no caller in the repository;
the model lets a caller unlock only what it locked. `ledger`, `reserved` and
`overdrawn` are history variables. The final unlock that fails is only logged in
the code, and so it is here.

### EngineRuntime, EngineRuntimeProperties

The tasks are `create_order` (its balance query), the submission it spawns,
`cancel_order`, `sync_balance` and a caller of `stop()`. `mutex` is the queue of
tasks at the engine's mutex, which tokio serves first in, first out; its head is
the holder. A command is `live` while its caller still holds the receiving end.

| Code | Action |
|---|---|
| `engine.lock().await` | `Lock` |
| `send()` on either queue, blocking when full | `Send`; `Panic` is the `unwrap()` after `stop()` |
| the answer or the timer | `Return`, `TimeOut` |
| `stop_impl` | `ClearFlag`, `Join` |
| `engine_thread_loop` | `TakeBalance`, `BalancesEmpty`, `TakeOrder`, `WaitExpires`, `EndThread` |
| `start_impl` of a new process or engine | `Restart` |

Matching is abstracted: there is one account, each order costs one unit of it,
and a submission that can lock its unit rests or is filled, as the model
chooses. What a cancellation returns and what a restart unlocks is that unit;
`deposited` is a history variable, so that the funds can be added up. The two
queues have capacities of their own. A
withdrawal is clamped at zero as in `add_available`. A restart reads balances
from the database; the model takes them to be up to date, which is the Java
service's business. `cancel_order`'s look at the row is in `OrderStatus`, not
here. Only tests call `stop()`.

### DbWriter, OrderStatus, StatusStore

`DbWriter` is `db_writer_thread_loop` with `flush_batch`: `Receive`,
`TimerExpires`, `Recheck` and `Disconnected` are the branches of its receive,
`Begin`, `Execute`, `Commit` and the three kinds of failure those of a flush.
The flush executes a filtered, sorted copy of the batch and removes by the
copy's indices from the batch (`Leftover`). PostgreSQL is external: a
transaction holds its rows' locks until it ends, a failure is a deadlock or
something else, and a commit whose connection breaks may have taken effect.

`OrderStatus` adds the engine thread's reports and the service's cancellation.
The engine is reduced to where each order stands; orders filled later as makers
are reported to nobody, as in the code. The writer's statuses refine
`StatusStore`: a status waits, is recorded together with others, or is abandoned
when the thread stops after a failed last flush.

### OrderRequests

A call of `POST /api/cex/orders` from its JSON to the lock the engine takes.
Every field may be absent, zero or wrong; `IsValid` is `validate_order_request`.

| Code | Action |
|---|---|
| handler, validation, `calculate_required_balance` | `Receive`; a product that does not fit panics (`Overflows`) |
| `check_balance` with `get_balance` of the engine | `CheckBalance`, `CheckFails` |
| the rest of `create_order` up to the reply | `Accept` |
| the spawned task | `SubmitOrder` |
| `process_submit_order` up to the lock | `ProcessSubmitOrder` |
| `handle_update_balance`, `stop()` | `UpdateBalance`, `StopEngine` |

The orders that come out are the orders `MatchingEngine` takes in, and its
`LockMint` and `LockAmount` are shared, so that the two computations of the cost
are compared, not assumed equal. What matching does to locked orders is left
out. Everybody's decimals are small numbers and `MaxDecimal` the largest one.

### TradeEvents

| Code | Action |
|---|---|
| `process_submit_order`: lock, settle, unlock a market order's rest | `SubmitOrder`, `ExecuteTrade`, `FinishExecuting` |
| the loop that reads four balances and spawns a thread per match | `PublishTrade` |
| refund of a filled limit order, after that loop | `FinishOrder` |
| `handle_cancel_order` | `CancelOrder` |
| `publish` in the spawned thread | `Send`, `GiveUp` (the 100 ms) |
| librdkafka and the broker, from the options of `KafkaProducer::new` | `Deliver`, `DeliverUnacknowledged`, `Expire`, `LeaderFails` |

A balance is a counter of the changes made so far: a snapshot is as good as the
counter it was read at. A partition is named after the user id that is its key;
that several users share a partition adds order and takes none away.

### WriteAheadLog, WriteAheadLogProperties

An entry is three pieces: two for its JSON text, so that a write may tear it, and
the line end, which `writeln!` hands to the buffer by itself.

| Code | Action |
|---|---|
| `WalWriter::new` | `Open`, `OpenFails` |
| `recv()` of `wal_thread_loop` | `Receive`, `Disconnected` |
| `append` | `WriteText`, `WriteLineEnd` |
| `BufWriter` draining into the file | `Write`, `WriteFails` |
| `sync` | `Flushed`, `Fsync`, `FsyncFails` |
| crashes of the process and of the machine | `ProcessCrash`, `MachineCrash` |

`ReadAll` is what `WalReader::read_all` makes of a file: the entries, each at the
place of its text, if every line is whole (`Readable`), and an error otherwise;
it has no way to skip a torn last line (`Torn`). Nobody
sends to the channel in the repository (the sends in `threads.rs` are commented
out), so `Send` is external.

### Sessions

One action per SQL statement: `CheckEmail` and `InsertUser` (signup), `FetchUser`,
`RevokeAll`, `InsertToken` (signin), `Find`, `FetchById`, `RevokeToken`,
`InsertToken` (refresh), `RevokeToken` (logout), `RevokeAll` (all devices),
`FetchById` behind `verify_access_token` (me). What a function computes between
two statements belongs to the statement before. `Answer` is a step of its own: the
token is stored when `InsertToken` has run, and in the client's hands when the
task went on, and other requests' statements come between. `StatementFails` ends a call,
with or without having executed its statement. `delete_expired` may run at any
time, although nothing calls it. Passwords are right or wrong as the model
chooses; a random token never repeats.

### Wallets

`ListWallets`, `UserExists`, `Insert` are the statements of `create_wallet`,
`Grant` its handler's deposit in the engine; `GetWallet` is the ownership check
of the transfer's handler, `CheckBalance` and `Send` the calls of `transfer_sol`.
`CallFails` fails any of them, executed or not. Keys, encryption and the network
fee are left out; the table's user_id is not unique, as in
`migrations/003_create_solana_wallets.sql`.

## What is checked

| Run | Question | Distinct states |
|---|---|---|
| `core` | locks cover dues, settlement never half done, exact holds, book not crossed between users, trades fair, no stranger's order vanishes | 1,215,157 |
| `balance_commands` | funds conserved, locks covered and balances never negative with deposits, clamped withdrawals, lock and unlock among the orders; every submission ends | 296,208 |
| `order_status` | refinement of `StatusStore`, filled rows stay filled, statuses are recorded in the end, the writer stops | 278,034 |
| `engine_runtime` | funds add up and are never overdrawn, answers find their callers, cancellations final; calls and `stop()` return, also when a queue is full; orders are not starved by deposits | 81,490 |
| `order_requests` | whatever a client sends, the engine gets orders it can handle and locks what the service checked; an accepted order is dropped only if its funds went elsewhere meanwhile | 57,255 |
| `trade_events` | snapshots of a submission agree and later ones are newer; an acknowledged event is read before the buyer's later ones; nobody waits for Kafka | 452,096 |
| `write_ahead_log` | files hold entries in order and can be read unless the last line is torn; a crash takes fewer than `sync_interval`; what is synced stays; the thread ends | 126,107 |
| `sessions` | one session per user whose requests do not overlap; a logout from all devices is final; a token is still usable when it is returned | 1,738,143 |
| `wallets` | grants follow wallets one to one at most, and wallets of one user come of simultaneous creations only; only owners pay | 786,499 |

And what the repository says but the code does not do, one run each; every
finding in `PROJECT.json` quotes the line:

| Run | Finding |
|---|---|
| `self_trade` | a user's crossing order removes that user's own resting order, whose lock stays |
| `cancelled_stays` | a late flush turns a cancelled row back to partial |
| `torn_log` | after a crash that tore the last line, `read_all` fails on the whole file (`wal.rs:245`), where `tests/recovery.rs:114` expects the torn entry to be ignored |

More was met while modelling and is a step of the models without a run of its
own. In the engine: a market buy whose quote is spent but for a rounding rest
drops another user's sell order (`matcher.rs:182`, `DropUnmatchable`); skipping
one's own orders changes the time priority of a level (`matcher.rs:168`,
`SkipOwnOrder`); a buy filled partly below its limit, and completely by a later
taker, keeps the price difference locked (`threads.rs:1012`, `FinishOrder`). At
its edges: two orders pass the balance check with the funds of one, and the
second is dropped though it was accepted (`engine.rs:711`, although `mod.rs:95`
promises an error); a cancellation may overtake the submission of the order it
cancels (`order_service.rs:192`); an order without `order_id` is refused,
although `models/order.rs:132` says the engine generates one; the events of one
user are published by threads that race, although `producer.rs:74` counts on
their order, and the balances of a limit order are read before its refund; the
table has no constraint that `wallet_service.rs:35` counts on for one wallet per
user; a wallet whose grant fails never gets it, because the retry is refused.
And of the writer: a commit removes other commands from the batch than it executed
(`threads.rs:2031`; `ImplementsStatusStore` shows that no status is lost by it);
a deadlock met by a command is hidden by `context()` and not retried
(`threads.rs:1835`); a cancellation that timed out still takes effect
(`engine.rs:747`); resting orders do not survive a restart (`engine.rs:479`),
although `tests/recovery.rs` says they do.

`AcknowledgedComeFirst`, `RejectedOnlyIfOvertaken`, `SingleSession` and
`GrantsFollowWallets` say exactly how much of the intended behaviour is left: an
event may be overtaken only by one whose thread overlapped with its own, an
accepted order vanishes only if it was overtaken, a user has two sessions only
after requests that overlapped, and two wallets only after simultaneous
creations. The other passing properties are worded around these: `NoCrossedBook` leaves out
two orders of one user, which `tests/self_trade.rs:64` wants to stay and thereby to
cross the book (the matcher loses the older one instead: `self_trade`);
`FilesHoldRuns` says when a file can be read, not that it always can
(`torn_log`); `ReturnedTokenWorks` excepts requests of one user that overlap,
since a sign-in or a logout may revoke a token between its insertion and its
answer (TLC finds that without the exception); `LockCoverage` and
`TradesNeverFail` except users whose market buy was matched for more than its
quote (the rounding division at `matcher.rs:175`), `ExactHold` excepts
`improved` orders (those that traded below their limit), and `OnlyOwnOrdersVanish` says whom the
matcher's lost orders can belong to.

### Bounds

* `core`: two users, prices 1 and 2, amounts 1 and 2, a market buy of 3, four
  accepted orders. Four orders suffice for two makers at two prices, a taker
  over both levels, and a later taker of its rest; a quote of 3 at price 2
  divides with a rest, so `DropUnmatchable` and overdrafts occur.
* `balance_commands`: deltas of both signs against funds of one unit, so that
  withdrawals are clamped while orders and commands hold locks. Two orders of one
  user at one price are a level that holds only the taker's own order, which is
  what the loop's bound `processed_count` is for.
* `self_trade`, `cancelled_stays`, `torn_log`: the smallest instances that show the behaviour.
* `engine_runtime`: an order queue of one, so that a cancellation may find it full of
  the submission it overtook in the mutex's queue, and the holder of the mutex
  blocks; it is the thread's next look that makes room. The balance queue holds
  two, and two depositors keep it filled: with one it runs empty after each.
  One unit of funds is what the order and the withdrawals compete for; one
  timeout, one restart and one stop meet every other step. There is one order:
  with two, liveness takes more than the time of a run. The safety
  properties were checked with two orders as well (672,230 states, capacities
  1, one depositor) and are proved for any number.
* `order_status`: two orders, a batch of three, one retry and two failures: a
  batch can hold commands of both orders with filtered ones between them, and a
  flush can fail, be retried and fail again, or two flushes fail in a row.

* `order_requests`: the numbers 0, 1, 2 and funds of 2 make orders free, cheap,
  dear, unaffordable together and, with `MaxDecimal` 3, too large to multiply. Two
  calls of one user and one transfer are what a stale check needs.
* `trade_events`: two commands with three events in all: a submission with two
  trades and an event of another command before or after it; one fault is one
  duplicate, one loss or one failing leader.
* `write_ahead_log`: a sync interval of 3 and a buffer of 5 pieces, so that the
  buffer runs full in the middle of an entry and between a text and its end; two
  crashes, so that a third process may open a file two others wrote.
* `sessions`: two requests of two users and two tokens, so that requests of one
  user overlap, or those of two users with each user's running alone; a token's
  life of one unit and a clock of three instants let one expire while another
  lives. Users and requests are symmetric.
* `wallets`: three requests of two users, so that one user's creations overlap
  while the other one's wallet is used.

`CHECK_DEADLOCK FALSE` is set throughout, since clients may stop calling, every
counter has its bound, and a stopped engine does nothing more.

### Fairness

* `balance_commands`: weak fairness of the steps of a submission. They are one
  thread's loop, which waits for nothing.
* `order_status`: weak fairness of the writer thread's steps. The engine and
  the service need not act. `MaxFaults` makes the database's failures finite;
  the thread itself gives up nothing while it runs.
* `write_ahead_log`: weak fairness of the thread: it is scheduled, and system calls
  return. Crashes are bounded and not fair.
* `trade_events`: weak fairness of the engine thread inside a submission and of each
  publishing thread, whose timer expires. Nothing is asked of library and broker.
* `engine_runtime`: weak fairness of the engine thread, of `stop()` once it holds
  the mutex, of each task that has begun, and of the start of a spawned
  submission. Nobody has to call, to time out or to crash. In addition the
  thread's look at an empty balance queue is strongly fair: it looks again right
  after it answered, while the next deposit must wait until the answered caller
  woke up and dropped the mutex, so that deposit does not win each time. Under
  weak fairness alone TLC finds two depositors who starve all orders by winning
  every time. `MaxTimeouts` matters too: each deposit that times out leaves a
  command behind without holding up the next, and without end they could keep
  the queue filled.

## What is proved

All proofs are checked by TLAPS with SMT, Zenon and PTL, and take nothing on
trust beyond the constants' assumptions, which TLC evaluates in the runs
(`PriceAssumption`, `ConstantsAssumption`, `RuntimeAssumption`,
`WriterAssumption`, `RequestsAssumption`, `EventsAssumption`,
`LogAssumption`, `SessionsAssumption`, `WalletsAssumption`). They hold for every value of the
constants that meets these: any number of users, orders, prices, queue lengths,
timeouts, faults and restarts. Each inductive invariant below was an invariant of a TLC
run before it was proved: on 1,215,157 states of `core` and 296,208 of
`balance_commands` for the funds, 672,230 of `engine_runtime` with two orders,
1,738,143 of `sessions`, 786,499 of `wallets`, 57,255 of
`order_requests`, 278,034 of `order_status`, 452,096 of `trade_events`, 126,107 of
`write_ahead_log`.

### Matching

`MatchingEngine_proofs`:

* `TypeCorrect`: `TypeOK` is inductive as it stands, because it says what the
  steps need: orders rest on their side at their price with something left, the
  taker's remainder is not negative, matches have positive amounts. There is a
  lemma per group of actions.
* `BalancesNonNegative`: from `TypeOK`, since each debit is guarded, each credit
  is non-negative (which needs the matches' amounts), and `add_available` clamps.
* `BookNeverCrossed`: the whole book is uncrossed, so two users' orders are. Levels
  only shrink while matching, and the rest of an order joins its side only when
  `FinishMatching` finds no level it crosses; that one user's orders do not cross
  either follows from the matcher's loss of them, and the property does not claim
  it.
* `AssetsConserved`: locking moves funds within an account; a transfer moves
  them between two; a failed second transfer moves only the quote.

The same module on funds:

* Sums. What an account owes is a sum over the book and over the unsettled
  matches. `MapThenSumSet` is recursive, and no induction over data is at hand,
  so a sum is shown to count units, one for each unit of each summand
  (`Total`), about which the library's theorems on cardinality say enough. That
  the recursion adds up to that number is shown by a smallest counterexample,
  with the well-founded order of finite sets (`AddingUpIsTotal`).
* `Shape`: ids in the book are unique and the taker is not among them; the level
  being matched is the best one and within the taker's limit; every match is the
  taker's, against another order; an order rests exactly as its record says. The
  steps pop the head of a queue, rotate it to the back or put back its rest,
  so that the lemmas say which orders rest after each of these.
* `LocksCoverDues` and `TradesAlwaysSucceed` (no settlement fails between its two
  transfers) from `Funds`: `Budget` says that what the taker used, owes for its
  unsettled matches and still wants fits into what it locked; `Covered` says that the
  locked part of every account covers its resting orders, the locks taken by
  command and its unsettled matches. `LockCoverage` alone is not inductive: while the taker
  may still be refunded, its whole unused lock must be there for the refund, not only
  what its matches need, and the step that settles a match must know that the
  taker's lock has not been used up by the ones before (`Budget`).
* `HoldsExact` from `Holding`, which follows each order's lock while the taker's
  matches are settled one at a time: the taker's hold is what it locked less what was
  used, any other order's what its rest and its unsettled matches cost.
* `TradesFair` from `LevelFits` and the types; `VanishingsExplained` from `OwnLeft`: in the
  part of a level's queue that the loop has been through, only the taker's own orders
  are left, so whatever `GiveUpLevel` removes with the level is the taker's
  unless a market buy's rounding put a rest back.

### Calls and orders on their way

`EngineRuntime_proofs`: `RuntimeTypeCorrect`, `AnswersFindCallers`,
`FundsAlwaysAccounted`, `CancellationsFinal`, from one `IInv`. Its parts are which
tasks send into which queue, that only the holder of the mutex can have a live
command (`OneLive`), that an order's submission is sent once, after its creation,
and that the engine has not seen the order before (`SubmittedOnce`), and that
finitely many orders hold funds, so that each step changes their number by as much
as the funds, also the restart, which gives back as many units as it forgets orders.
`SubmittedOnce` is why no late submission brings a cancelled order back.

`OrderRequests_proofs`: `RequestTypesCorrect`, `LocksAreChecked`,
`RejectionsOvertaken`. `Checked` says what a call has established at each of its steps,
`StillHas` that a call nobody overtook still has the funds it was told of,
`Queued` that each submitted call waits in the queue once with its own order, and
`LockedUnits` that the locked part of an account is the sum of the costs of the
calls that locked from it (again counted in units).

### What leaves the engine

`OrderStatus_proofs`:

* `StatusTypeCorrect`: including that the open transaction's row locks are those
  of the statuses at the executed positions.
* `FillsAreFinal` and `WriterImplementsStore` rest on the inductive invariant
  `IInv`: besides `TypeOK`, an order is reported at most once and a filled one
  has left the engine (`ReportedOnce`), every status queued, batched, written or
  in a row is the one reported (`OnlyReported`), and a batch is lost only by a
  stopped thread (`LostAtTheEnd`). `ReportedOnce` is why a cancellation that was
  asked for in time cannot be granted after a fill; `OnlyReported` is why a
  commit that removes the wrong commands still loses no status: the sort puts
  the statuses first, and as many commands are removed as were executed, so the
  removed positions hold filtered commands or executed statuses only.

`TradeEvents_proofs`:

* `TypesCorrect`, `SnapshotsAlwaysAgree` and `AcknowledgedAlwaysFirst`, from the
  inductive invariant `IInv`. Beside the types (the events still to come fit, a
  submission publishes after its last execution), `OlderSnapshots` compares each
  trade's snapshot with the engine thread's present: equal while its own
  submission publishes, older from the next change on. `Settled` says that an
  acknowledged event is no longer with the producer library, hence cannot land
  once more behind an event that comes after it; `Ordered` is the order inside
  each partition, which landing at the end and losing the end both keep.

`WriteAheadLog_proofs`:

* `Stream` is the file as it will be once the buffer is in it. Writing the
  buffer out, wholly or in part, does not change it, receiving and syncing do
  not either, and each append adds three pieces to its end: so most steps only
  have to say that they keep it (`Kept`), and what a crash leaves of a file is
  the beginning of the old file or of the stream (`Begins`).
* `LogTypesCorrect` and `SyncedPiecesStay` from `Whole`, the part of `IInv` about
  types, counts and openings: the queue holds the entries after the last one
  received, none missing (`Counts`), what is synced is in the file, and only a
  process that opened its file writes to it (`Opens`).
* `FilesAreRuns` from `Ordered` and `Runs`. `Ordered` holds whatever fails: no
  text in the stream is newer than the last one written, so that the next goes
  behind all others. `Runs` needs that no system call failed: a file one process
  wrote is a run, in which the place of a piece tells which one it is
  (`RunIs`). The stream's length belongs to the invariant, because it says
  where the next piece goes. A beginning of a run is a run, so that a crash
  keeps it; that its lines are whole but for the last, so that it can be read just
  when that one is, is arithmetic on places.
* `LossIsBounded` from `OnDisk`: what was written is in the stream, and what is
  older than the entries counted in `entries_since_sync` is on disk. The fsync
  step needs that the buffer is empty then (`Opens`), and that no earlier fsync
  damaged the file, which no later one makes good.

### Sessions and wallets

`Sessions_proofs`: `SessionTypesCorrect`, `OneSessionPerUser`, `LogoutsAreFinal`,
`ReturnedTokensWork`. `Fresh` says that a token about to be inserted is known
nowhere else, `Owners` that a token is presented by the user it was issued to;
without it a refresh could revoke another user's token and `OneAtATime` would
not be kept. `OneAtATime` follows a user whose requests never overlapped through the
statements of a refresh: one token is not revoked, it is the one the refresh found,
and there is none when the next is inserted. `EndedSessions` says that nothing
left over from before a logout can start a session. `Stored` follows a token from
its insertion to its answer: it belongs to the call's user, and if the call runs
alone (`Alone`), its row stays until it expires, because every revocation is of a
token that its requester owns or of the requester's rows, and nobody else's
request is the user's.

`Wallets_proofs`: `GrantsAlwaysFollowWallets`, `OnlyOwnersPay`. `Accounted` counts the
creations still under way as if they had finished: wallets and creations that
found none are no more than the creations that ever ran at once, grants made and
due no more than wallets. `StepsInOrder` says that a transfer that goes on owns its
wallet.

### Only model-checked

* Liveness, which is out of the prover's reach together with ENABLED:
  `SubmissionEnds`, `CallsReturn`, `AcceptedOrdersTaken`, `StatusRecorded`,
  `WriterStops`, `NobodyWaitsForKafka`, `ThreadEnds`.
* `self_trade`, `cancelled_stays` and `torn_log`, which are counterexamples.

## What is not modelled

* UDP feed: nothing starts it; it only reads `get_orderbook` on an interval and multicasts a snapshot
  whose sequence number is the time in milliseconds; it changes no state of the engine.
* Fee service: the engine never calls it. Java client and repositories: external
  calls without state. Mock and bench engine: test doubles. Swap: handed
  to Java (`DELETE_REVIEW.md`), not routed; it passes quotes through. Bot: not compiled.
* Requests that only read (orders, trades, wallets, positions), logging, core
  pinning, and the engine's two queries, which change nothing.
* The Java service, which consumes the events and keeps the rows; what it promises
  is written at the definitions marked external.

## Plan

Done, in this order: `MatchingEngine` with its parts (everything rests on the
funds and the book), `DbWriter` with `OrderStatus` and `StatusStore` (what
clients see of an order), `EngineRuntime` (how calls reach the engine),
`OrderRequests` (what reaches it), `TradeEvents` (what leaves it),
`WriteAheadLog`, `Sessions` and `Wallets`.

Next:

1. An abstract exchange (accounts, open orders, trades) that `MatchingEngine`
   implements, and a runtime that drives it.
