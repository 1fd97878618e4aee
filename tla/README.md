# Finalex: a verification development

TLA+ models of the parts of Finalex that move money and match orders: the
two-phase commit and the distributed locks of `internal/accounts/transaction`, the
bookkeeper of `internal/accounts/bookkeeper`, the order book of
`internal/trading/orderbook` and the engine migration of
`internal/trading/migration`. TLC checks them on small instances; TLAPS proves the
main results for every number of transactions, accounts, calls, orders and
processes. Line numbers below refer to the files under `src/`.

## 1. The system

| part | state it keeps | operations | who calls it |
|---|---|---|---|
| **XA transaction manager** `transaction/xa_manager.go` | `tm.transactions`, per transaction `State`, `Resources`, prepared and committed sets, `txn.mu`; counters | `Start`, `Enlist`, `Commit`, `Abort`, `cleanup`, `performRecovery`, `Stop` | workflows, middleware, `ExecuteDistributedTransaction`, the abort endpoint, its own ticker |
| **drivers** `workflows.go`, `integration.go`, `middleware.go`, `api.go` | a program counter | start, enlist, do the work, commit or abort | HTTP requests |
| **XA resources** `bookkeeper_xa.go`, `trading_xa.go`, `settlement_xa.go`, `fiat_xa.go`, `wallet_xa.go` | a branch per xid, or flags | `Prepare`, `Commit`, `Rollback` | the manager, under `txn.mu` |
| **bookkeeper** `bookkeeper/service.go` | tables `accounts`, `transactions`; `muMap` of account mutexes | lock, unlock, batches, transfer, complete and fail a transaction; XA versions under `xaMutex` | trading service, API, XA resources |
| **distributed locks** `transaction/distributed_locks.go` | the table `distributed_locks` with its expiry, the map `locks` of each process | `AcquireLock`, `ReleaseLock`, cleanup, `Stop` | middleware, workflows, recovery |
| **recovery** `recovery_manager.go`, `recovery_strategies.go` | active recoveries, circuit breaker | recovery loop under a lease | its own ticker |
| **order book** `trading/orderbook` | two B-trees of price levels, chunks of orders in each level, `ordersByID`, pools of levels and orders, a lock per tree, level and index | `AddOrder` (match, rest), `CancelOrder`, snapshots | matching engine, from many goroutines |
| **engine, queue, journal** `trading/engine`, `orderqueue`, `eventjournal` | order pipeline, persisted queue, event log | submit, acknowledge, replay | trading service |
| **engine migration** `trading/migration` | the coordinator's map of migrations, the lock manager, the participants' preparations, what was saved | `StartMigration`, `RetryMigration`, `AbortMigration`, prepare, commit and abort of the participants, recovery | operations |
| **coordination, consensus** `trading/*` | settlement coordination, in-process Raft | | operations |
| compliance, authentication, market making, wallets, fiat, infrastructure | | | outside the path of funds, or input and output |

How they interact: a driver starts a transaction, enlists resources, acts on them
and commits. The manager calls the resources while it holds `txn.mu`. Recovery,
`Stop` and the abort endpoint walk or look up the same map from other goroutines
and call `Abort` on what they find. The bookkeeper serves all of them at once, each
call in a database transaction of its own at PostgreSQL's default level.

What is hard:

* **Interleaving.** The state of a transaction is read, unlocked, and acted on
  (`performRecovery`, `Stop`). Rows are read without a lock and saved whole
  (`LockFunds`). Locks are taken in several orders (mutexes, rows, price levels).
* **Partial failure.** One resource of several fails in each of the three loops; an
  acknowledgement is lost after the effect; an operation of a batch is refused.
* **Time.** A timeout races the commit; a lease expires under a living owner.
* **Liveness.** Who ends a transaction whose driver returned early?

`PROJECT.json` lists the hazards at their lines, with the properties that cover
them. There is no test of the manager or of the bookkeeper's concurrency in the
repository.

Per part, what makes it correct:

* *manager*: no commit without all votes; outcomes mean what they say and are
  final; split outcomes are visible; every transaction is resolved and removed.
* *bookkeeper*: rows add up; what callers were told is locked is locked; calls are
  atomic; no standoff.
* *distributed locks*: at most one session has a resource within a lease; nobody
  takes an unexpired row away; rows do not stay for ever.
* *order book*: not crossed; price-time priority (`README.md:59`); quantity is
  conserved; every resting order can be found and cancelled; no standoff.
* *migration*: all participants switch or none; one execution per pair; no database
  transaction stays open; every migration ends.
* *queue and journal*: acknowledged once, nothing lost over a restart.

## 2. The modules

| module | what it is |
|---|---|
| `XAManager` | the manager with everything that calls it |
| `AtomicCommit` | what two-phase commit promises; `XAManager` implements it |
| `XAManager_proofs` | theorems about `XAManager` |
| `AtomicCommit_proofs` | that `XAManager` implements `AtomicCommit` |
| `MCXAManager` | instances for TLC: `XA_*.cfg` |
| `Bookkeeper` | the bookkeeper's calls, statement by statement, over the database |
| `Ledger` | atomic accounts; the calls of `Bookkeeper` that read `FOR UPDATE` implement it |
| `Bookkeeper_proofs` | type correctness, `RowsAddUp` and `StandoffsAreSeen` |
| `BookkeeperLocks_proofs` | `LocksAreBacked` for calls that read `FOR UPDATE` |
| `BookkeeperLedger_proofs` | that such calls implement `Ledger`, and that they keep the money |
| `MCBookkeeper` | instances for TLC: `Book_*.cfg` |
| `OrderBook` | the book of a pair: `AddOrder` and `CancelOrder`, critical section by critical section |
| `Exchange` | what a pair promises its clients; `OrderBook` implements it |
| `OrderBook_proofs` | type correctness, that `OrderBook` implements `Exchange`, what the book keeps while calls do not overlap, and who can hold everyone up |
| `MCOrderBook` | instances for TLC: `OB_*.cfg` |
| `Migration` | the two-phase migration with its coordinator, locks, participants and crashes |
| `Migration_proofs` | type correctness, `OnePerPair`, `NothingStranded`, and that a migration nothing overlaps is all or nothing |
| `MCMigration` | instances for TLC: `MIG_*.cfg` |
| `DistributedLocks` | the lock table, the sessions that use it, processes and the clock |
| `DistributedLocks_proofs` | theorems about `DistributedLocks` |
| `MCDistributedLocks` | the instance for TLC: `DL_locks.cfg` |

Operators named `X_Something` with the comment *mutant* just before the definition
of `X` are faulty variants of it. Each property is known to fail when its mutant
takes the place of the definition (`PROJECT.json`, `mutants`).

### XAManager

One step is one call to a resource, or one critical section of the manager.
`txn.mu` is held from the entry of `Commit` or `Abort` to its return, so one record
`op[t]` (which phase, on whose behalf, which resource is next, whether one has
failed) stands for the call in progress, and `Unlocked(t)` is its absence.

| TLA+ | code |
|---|---|
| `Start`, `Enlist`, `EnlistRefused` | `Start` 242, `Enlist` 286 and what drivers do about its error |
| `CommitRefused`, `CommitTimedOut`, `CommitReadonly`, `BeginCommit` | the branches of `Commit` 313 before a resource is called |
| `OnePhase`; `PrepareResource`, `AllPrepared` | `prepare` 343 |
| `CommitResource`, `FinishCommit` | `commit` 403 |
| `ClientAbort`, `SweepAbort`, `ApiAbort`, `RollbackResource`, `FinishAbort` | `Abort` 469 and `abort` 477, from each caller |
| `Snapshot`, `Inspect`, `CheckClock`, `SweepDone` | `performRecovery` 584 and `Stop` 622: both walk a snapshot; the state is read under `RLock` and used after it is released |
| `RecoveryExits` | the goroutine of `startRecovery` 567 after `Stop` closed `stopChan` |
| `Cleanup` | `cleanup` 529 |
| `ApiLookup` | `GetTransaction` in `AbortTransaction` (`api.go:233`) |
| `branch` | the durable state of each branch, on the side of the resource |

Resources may do anything their interface allows: succeed, fail before or after the
effect, vote no having prepared or not (`trading_xa.go:185` prepares and answers
false), answer well to a rollback of a branch they no longer know
(`settlement_xa.go:259`), or undo what they have committed: `FiatXAResource.Rollback`
(`fiat_xa.go:441`) does not look at its `committed` flag, compensates the completed
operations and answers nil. A branch that was permanent and has been compensated is
"undone"; `Permanent` holds of both, because others may have seen it. Asked of resources is
only that a branch that was committed is not reported as never having been: it stays or it
is undone. An abort that follows a commit can leave one branch undone and another one, whose
rollback answers nil, as it was; `MixedOutcomesAreCounted` does not count that as a split,
and neither does the manager.

### Bookkeeper

A call is the list of the statements that its function issues (`Program`), and a
step executes one: a plain `SELECT` (`Read`), `SELECT ... FOR UPDATE`, `Save` of every
column of the struct that was read, a mutex, `COMMIT`. The checks of the code are
`Refused`; what it saves is `Saved`. The database is modelled from how the service
uses it and is marked external in the map: committed rows, uncommitted writes of
each call, row locks held to the end, a deadlock detector, failure of any statement.
`granted` is no part of the program: it adds up what successful calls told their
callers, and `LocksAreBacked` compares it with the rows.

Abstractions: one currency; amounts are small natural numbers (none of these calls checks
the sign, their callers are relied on: only `EnhancedLockFunds`, 667, does, and nothing calls it); transaction records that
`TransferFunds` writes for history are left out; a batch holds each account once and
at most 50 operations (`service.go:1225` cuts longer ones into several batches);
`BatchOperationResult` is left out.

### OrderBook

The engine calls the book without a lock of its own, so calls overlap. One step is one
critical section, or what is done with one maker while the locks of the scan are held.
`op[p]` is the call of goroutine `p`; the lock of a level or a tree that is held from one
step to the next is read off it (`LevelFree`, `TreeFree`).

| TLA+ | code (`orderbook.go`) |
|---|---|
| `book`, `chunks`, `spare`, `made` | `bids` and `asks` with their levels as objects, the ring buffers of each level, the pool of levels (`pools.go:90`), levels allocated so far |
| `filled`, `ordersByID`, `pooled`, `entered` | `FilledQuantity`, the index, orders wiped by `ResetOrder`, the order of arrival |
| `AddOrder`, `OpenLevel`, `StopScan`, `CloseLevel`, `EndScan` | the scan of the opposite tree under its read lock, 677 to 853 |
| `Admit`; `PassOver`, `Match`, `MatchWiped` | the look at a maker, 737 to 748; what is then done with it, 749 to 842. A cancel may wipe the order in between: `PutOrderToPool` (962) runs without the level's mutex |
| `Sweep` | the deletion of levels found empty, 854, after the lock was released and taken again |
| `FindLevel`, `CreateLevel`, `Attach`, `Register` | the remainder is placed, 866 to 886, in four critical sections |
| `CancelOrder`, `LocateLevel`, `RemoveFromLevel`, `DropLevel`, `Forget` | `CancelOrder` 928 |
| `Visible`, `Seen`, `WithOrder`, `WithoutOrder` | a full buffer has `tail = head` and is taken for an empty one (279, 299, 332) |

Abstractions: quantities are small numbers; an object of the order pool serves no second
order; the trace of trades is what `filled` tells of it. A wipe that falls into the trade
itself is a choice of `MatchWiped` (each of the two quantities is read before it or after it); left
out of that step are a negative quantity, when only one of them is gone, and other wiped orders of
the level, which the removal of a nil id takes along. `UpdateTopLevelsCache` (889, 964) and the first
`RLock` (731) are waited for by a call that holds nothing, so they close no circle; such a call
counts as idle.

`calm` (here and in the next two modules) is a history variable. No guard reads it.
It tells whether something the code has no defence against has happened so far: two
calls that overlapped or a buffer that was full (`OrderBook`), two executions that
overlapped (`Migration`), two acquisitions of one resource at the same time
(`DistributedLocks`). Properties that need it say so, the others hold without. That it
is needed can be seen by leaving it out of a property: TLC then finds, for example, two
levels of the same price of which one is lost (878), or two sessions with one lock (86).

### Migration

A thread is a goroutine of `executeMigration` or `abortMigrationInternal`; a call to a
participant is a goroutine of its own, which goes on when the thread stops waiting for it
(`calls`). A migration is one of several ids; pairs, votes, consensus and phase are as in
the code, the data of a preparation is a flag.

| TLA+ | code (`coordinator.go`, `coordinator_impl.go`) |
|---|---|
| `Check`, `Refuse`, `Begin` | `StartMigration` 103: checks under the coordinator's lock, then `AcquireLock`, then the entry in the map |
| `CheckRetry`, `RetryMigration`; `AbortMigration` | `coordinator_impl.go:90`, `:66`: neither takes the lock of the pair. A retry looks at phase and count (100 to 112) and resets the state under a later lock (114 to 143) without a second look |
| `StartPrepare`, `Prepare`, `CollectVotes`, `PrepareTimeout` | `executePreparePhase`, with `updateVotesSummary` |
| `StartCommit`, `LoseConsensus`, `CommitSwitch`, `CommitTx`, `Complete`, `CommitFailed`, `CommitTimeout` | `executeMigration`, `executeCommitPhase`; the `Commit` of the participants that switch and of the one that migrates the database |
| `StartAbort`, `AbortPart`, `EndAbort`, `Release` | `abortMigrationInternal`, the participants' `Abort`, the deferred release |
| `Panic`, `Crash`, `Restart` | the process goes down, also by `Commit` on a nil transaction; `recoverMigrations` loads the first saved state |

Two retries may both pass the look, so that the count exceeds `MaxRetries` by up to the number of
other goroutines and a migration runs twice at once; no property claims otherwise. `EventuallyEnds`
says that a migration is again and again at rest (or the process down, or the migration one that
a restart took from its goroutine), because a retry may start an ended one. `Begin` merges the entry in the
map (145) with the first save (150): an `AbortMigration` in between, whose state would be saved as the first
one, is left out.

### DistributedLocks

`rows` is the table, shared by all processes; `held` is what a session will give back,
`local` the map of its process. `AcquireLock` is `Ask` (the clock is read), `Pass` or
`Refuse` (the `SELECT`), `Insert` (delete, insert, commit) and `Register`. `Finish`,
`ReleaseLock` and `End` are the end of a session, in the order of the deferred calls;
`Cleanup`, `Stop`, `Crash` are steps of a process and `Tick` is the clock. A session
asks for its resources one after the other and gives all back when it is refused one,
as `middleware.go` and `workflows.go` do. A recovery is a session for each transaction it
finds: it skips a transaction whose lock it is refused and keeps the locks of the others.

There is one clock. The code compares `expires_at` with the `time.Now()` of the process that
looks (69, 264), so that a difference between the clocks of two machines shortens the lease
that one grants in the eyes of the other. That is not modelled: `MutualExclusion` and
`LeaseIsKept` hold of processes whose clocks agree.

## 3. The runs

| run | bounds | checks | shows |
|---|---|---|---|
| `XA_safety` | 1 transaction, 3 resources, recovery, Stop, 1 abort request | `TypeOK`, `UnanimousVote`, `CommittedIsDurable`, `MixedOutcomesAreCounted`, `MapIsKept`, `AbortIsFinal`, `ImplementsAtomicCommit` | the manager's safety over about 810,000 states |
| `XA_liveness` | 1 transaction, 2 resources, 1 abort request, no Stop, `FairSpec` | `ActiveIsResolved`, `EndedIsRemoved` | recovery ends what drivers leave behind, cleanup removes it |
| `XA_stop` | 1 transaction, 2 resources, Stop | `CommitIsFinal` | **violated**: a committed transaction is aborted by a sweep that read ACTIVE |
| `XA_answer` | 1 transaction, 2 resources | `CommitAnswerIsTrue` | **violated**: `Commit` answers nil after a rollback |
| `Book_rows` | 3 clients, 4 calls of 9 kinds, 2 accounts, a deposit and a withdrawal | `TypeOK`, `RowsAddUp` | rows stay consistent whatever the interleaving |
| `Book_locking` | 3 clients, 3 calls, 3 users, `FairSpec` | `LocksAreBacked`, `StandoffsAreSeen`, `ImplementsLedger`, `MoneyIsKept`, `EveryCallReturns` | calls that read `FOR UPDATE` are atomic, keep the money, and stand off only where the database sees it |
| `Book_lost` | 2 clients, 2 calls | `LocksAreBacked` | **violated**: `LockFunds` loses an update |
| `OB_book` | 2 goroutines, 3 of 6 orders added, 3 levels, 2 prices, buffers of 3 orders | `TypeOK`, `SerialBook`, `OnlyCancelsStandOff`, `ImplementsExchange`, `SerialTrades`, `TimePriority`, `FirstKeyFirst` | over about 890,000 states: none but those that wait at 952 can lock each other out; executions are paired and bounded however calls interleave, and closed orders stay closed but for one that a cancel wipes after the look at it; calls that do not overlap keep index, trees and levels in step, serve a price in order of arrival and the prices in the order of their keys |
| `OB_priority` | 1 goroutine, sales at 9 and 10 | `BestPriceFirst` | **violated**: the better price waits, because "10" < "9" |
| `MIG_commit` | 2 migrations of one pair, 2 participants (one is the database), 2 threads, a retry allowed to one of them (two, where they overlap), 1 interruption, `FairSpec` | `TypeOK`, `NothingLeftBehind`, `OnePerPair`, `NothingStranded`, `CompletesOnlyWhole`, `EventuallyEnds` | over about 950,000 states: a migration that nothing overlaps is all or nothing; the lock keeps executions of a pair apart; no active migration and no locked pair is without its goroutine; every migration ends |
| `MIG_vote` | 1 migration, 2 participants | `VotesAreHeeded` | **violated**: participants that declined count as a yes |
| `DL_locks` | 2 sessions on 2 processes, 2 resources in opposite orders, leases of 2, clock up to 4, `FairSpec` | `TypeOK`, `MutualExclusion`, `LeaseIsKept`, `RowsGo` | a lock is exclusive within its lease unless two acquisitions overlap; rows go in the end |

Why the bounds are enough. Transactions of the manager share the map, the counters
and the order in which a sweep visits them, nothing else, so one transaction with all of
its callers shows every interleaving that concerns it; the proofs cover any number. Three
resources give a first, a middle and a last one in each loop: one that voted before the
refusal, the one that refuses, one that is never asked. Two simultaneous sweeps and a
request are three aborts on top of the driver's own call. In the bookkeeper a lost update
needs two calls and a standoff of mixed kinds (mutex and row) up to three; four calls
allow a call to run after the damage is done. Accounts start with something available
and something locked, so that each check can pass and fail, and the third user has no
account. In the order book two calls are what a race needs (an add beside an add, a
cancel beside either) and the third order is there to meet what the race left behind;
a buffer holds 3 orders instead of 256 so that three sales at one price fill it, 2 of
them beside a taker do not; a sale at 9, whose key comes after that of the sales at 10, and
a buyer of it make the scan pass from one level to the next. Three levels are more than can be in use. Two migrations of
one pair meet at the check, the lock and the participants; one interruption is a timeout,
an abort by hand or a crash in any place, and the retry adds a third execution. A lease
of 2 ticks within 4 can run out before, during and after another's acquisition.

Artificial bounds, all of them guards: `MaxApiAborts`, `MaxCalls`, `MaxAdds`,
`MaxInterruptions`, `Threads` (goroutines under way), `MaxTime`. `CHECK_DEADLOCK FALSE`
is set where the system may stop: when all bounded calls are made, all migrations have
ended, or the manager is shut down. In the order book there is one more reason: `DropLevel` waits
for the tree with the level's mutex held (952), and a scan holds the tree and waits for
the mutex (733). The two stand still for ever, although the comment at `orderbook.go:359` says "All locks acquired
in B-tree -> PriceLevel order". `OnlyCancelsStandOff` stands in for the check for deadlock: if all
calls in progress wait, a `CancelOrder` at 952 and a scan that wants its level are among them. Its
`Waits` counts the locks that other calls hold and, because Go's `RWMutex` lets a waiting
writer go first, the readers (871, 945) behind a writer that waits.

Symmetry is used in `XA_safety` (transactions, resources), `Book_rows` (clients) and
`OB_book` (goroutines, levels), never with liveness.

**Fairness.** `XAManager!FairSpec`: calls to resources return, the clock passes the
timeout, the ticker ticks and its goroutine goes through the snapshot
(`startRecovery` loops until `Stop`), a sleeping cleanup wakes up. Each is a
goroutine of its own under Go's scheduler. Nothing is assumed of drivers: they may
stop after any step. `Stop` gets no fairness and is off in the liveness run; after it
the recovery goroutine is gone and nothing is promised. That calls return is the
contract of `XAResource` (they take a context); `settlement_xa.go:206` would break it in
the one-phase commit of a branch that had been started, which nothing does. `Bookkeeper!FairSpec`: a statement that can be
executed is executed, and a cycle of waiting rows is broken by the database. There
is no fairness on failures, and mutexes are invisible to the detector, which is why
their order matters (`MutexOrder`). `Migration!FairSpec`: goroutines run and the calls
of participants return (`Prepare` and `Commit` have deadlines, `Abort` works on memory);
nothing is assumed of timeouts, retries, or of a restart. One statement has no deadline:
`Prepare` of the database participant begins its transaction without the context
(`persistence_participant.go:264`). `DistributedLocks!FairSpec`: the clock goes
on and a process that is up runs its cleanup ticker; sessions may stop anywhere.

**Refinements.** `ImplementsAtomicCommit` is `AC!Spec` under a mapping in which the
decision is read off the votes and the branches: the manager records none. Its
`givenUp` are the transactions whose commit loop ended without all acknowledgements;
`AtomicCommit` lets those be rolled back by branch, which is what a late abort does to
a `HEUR_COMMIT`. It lets a committed branch be undone (`Undo`) where all branches were
committed or the transaction was given up, which is what an abort over a finished commit
does with the fiat resource. `ImplementsLedger` maps the accounts to the committed rows; every
commit is one atomic operation and every other step a stutter. It holds for batches and
for transfers between different users. `ImplementsExchange` maps `closed` to the wiped
orders: `Match` is a `Trade`, `Forget` a `Withdraw`, everything else a stutter, except that
`MatchWiped` trades with an order that has been withdrawn. It happens: a level that a sweep
returned to the pool while an order was about to be attached to it is used again and
scanned, the order is looked at, its cancel wipes it, and the trade goes on. Without the
exception TLC finds this. `ImplementsExchange` names that step and demands that nobody sets out to trade
with an order that is closed already.

**Findings.** Five places where the code does not do what its text says:
`XA_stop` (`xa_manager.go:625`), `XA_answer` (`integration.go:242`,
`middleware.go:134`), `Book_lost` (`service.go:426`), `OB_priority` (`README.md:59`) and
`MIG_vote` (`coordinator.go:203`). The quotes are in `PROJECT.json`.

## 4. The proofs

The theorems hold for every value of the constants that meets the assumptions stated in
the modules; each `M_proofs` is checked with `tlapm M_proofs.tla` (Z3, Zenon, LS4).

### The manager

`XAManager_proofs` assumes what `XAManager` assumes: `None` is no transaction, the bound on abort
requests is a natural number, `StopAllowed` is a Boolean. `Txns` and `Resources` are
arbitrary sets.

* `TypeCorrect`: `Spec => []TypeOK`. Lemmas by kind of step: entering a call,
  answering, returning, moving on to the next resource, ending.
* `Invariance`: `Spec => []Inv`. `UnanimousVote` and `CommittedIsDurable` are not
  inductive: nothing in them says why, at the end of the loop, everybody has voted or
  acknowledged. `Inv` adds, per transaction, `Fresh` (nothing has happened before
  `Start`, and nobody knows the transaction) and `PhaseInv`: an ACTIVE transaction
  at rest has no vote and no permanent branch; during `prepare` the voters are exactly
  the resources before `next`, and no branch is permanent; during `commit` everyone has
  voted, and unless a failure was noted the branches before `next` are permanent.
  Since at most one call holds `txn.mu`, a step on one transaction leaves the others'
  part of `Inv` alone (lemma `Frame`).
* `VotesAreUnanimous`, `CommitIsDurable`: from `Inv`.
* `AbortsAreFinal`: the action property, from `Inv`: the only steps that make a branch
  permanent are in phases that begin ACTIVE.
* `MixedAreCounted`: `Spec => []MixedOutcomesAreCounted`, a cardinality against a counter.
  The invariant `Counted` speaks of all split transactions but those in the commit loop
  (`ToCount`): only that loop can split one, and when it ends with a failure
  `FinishCommit` raises the counter before it lets go of `txn.mu`, so a step adds at most one
  transaction, and then with its count; a late abort finds it split and leaves it split.
  `Txns` need not be finite: `ToCount` is shown to be.
* `NoneIsForgotten`: `Spec => []MapIsKept`. `cleanup` looks at nothing: it removes whatever
  transaction it was started for, so none may sleep for one that is unfinished, nor for one
  that has not begun (`Kept`, for each transaction). `Inv` says that a call in progress belongs to a
  transaction that has begun; each step then does one of six things to a transaction
  (`StepOf`). That a cleanup which sleeps wakes up is liveness (`EndedIsRemoved`).

`AtomicCommit_proofs` adds the refinement, `ManagerImplementsAtomicCommit`:
`Spec => ImplementsAtomicCommit`. The manager records no decision, and what can be read off
votes and branches behaves like one only because of what the loops have reached
(`LoopInv`): in `prepare` the branches behind the resource whose turn it is are prepared
and the others untouched, in `commit` those ahead are prepared and all are prepared or
committed, and no resource is enlisted twice. Each step then does to its own transaction
one of the things `AtomicCommit` knows (`Maps`), and nothing to the others (`Only`); the
lemma `Lifts` turns that into a step of `AtomicCommit`. The delicate case is a late abort:
a branch that is rolled back though the decision was to commit belongs to a transaction
that was given up, because the resource has not acknowledged, and a branch that is undone
to one that was given up or was committed in all branches. That a commit is not final is
the finding of `XA_stop`; the refinement says what is left of atomicity after it.

### The bookkeeper

`Bookkeeper_proofs` assumes that accounts are numbers (the code orders users), that no
account is a transaction, that "no row" is no row, that the amounts of calls are natural numbers and those of transactions integers, that requests name what exists in
the model, and that initial rows add up. `TypeCorrect` and `RowsAlwaysAddUp` follow from
one invariant: the committed tables, the uncommitted writes of each call and every row a
call has seen and will compute from add up, and how many rows it has seen fits the
statement it has reached (`Progress`, one part for each kind of call). It holds whatever
calls interleave: a lost update loses a whole row that adds up.

`DetectorSeesAll` is `Spec => []StandoffsAreSeen`, without any hypothesis on the calls. Only
the database looks for deadlocks, and it knows nothing of the mutexes; a circle that ran through
them would stand for ever. The invariant `HInv` says that a call holds a mutex only if it has come past it in its order,
and a row only if it has all its mutexes. So whoever waits for a row waits for a client that waits
for a row too: if there is one in the set, those of the set who wait for rows wait for each other.
If there is none, all wait for mutexes, and the one who waits for the greatest account waits for a client
that waits for a greater one. "Greatest" needs a finite set; the calls of a running process are one. With unsorted mutexes TLC finds the standoff at once.

`BookkeeperLocks_proofs` proves `LocksStayBacked`: `Spec => []LocksAreBacked` under the
hypothesis `ReadForUpdate`, that all requests are batches that name each account once, or
transfers. (For `LockFunds` and `UnlockFunds` it is false, see `Book_lost`.) The invariant
adds `Granted`, the property as an equation for each account, and `CallBacked`: a call
that will write a row it read holds the lock of that row, so what it saw is still what is
committed; a row that does not exist cannot be locked, and whoever creates it holds the
mutex of the account.

`BookkeeperLedger_proofs` proves `CallsAreAtomic`: `Spec => ImplementsLedger` under
`LedgerCalls`, which adds that batches name accounts that exist and that transfers have two
users. A call takes place when it commits; until then the committed rows do not change, and
what is committed must be what the ledger would make of the rows at that instant, for
accounts that refused their operation too. The invariant therefore adds `Exact`: a batch
holds the rows of all accounts it has come to, refused or not, and has written exactly
those that allow the operation as they are committed; a transfer has written its two
accounts and nothing else. Without the first hypothesis it is false: a batch cannot lock a
row that does not exist, and a transfer may create it before the batch commits.

`NoMoneyIsMade` (`MoneyIsKept`, same hypothesis) is a consequence: each step of `Ledger` moves
an amount from one account to another or moves nothing, and `Bookkeeper` does what `Ledger` does.
It is false of calls that read without a lock, where a lost update takes a transfer with it.

### The distributed locks

`DistributedLocks_proofs` assumes that each session has a process and a list of resources
and that leases are positive. `TypeCorrect`, `Exclusive` (`MutualExclusion`) and
`LeasesLast` (`LeaseIsKept`). Exclusion is not inductive. It follows from two facts about
the table: what is held and has not expired has its row (`HeldHasRow`), and a resource
has one row (`OneRow`). The second needs that whoever is about to insert saw no row that
was unexpired when he read the clock (`Passed`), which stays true while nobody else
acquires the same resource (`Apart`, where `calm` comes in).

### The order book

`OrderBook_proofs` assumes that `None` is no order or level, that orders have a side,
a price key and a positive quantity, that a price has one key, and that a chunk holds two orders at least. `TypeCorrect`
and `BookImplementsExchange`. The latter has no `calm`: it holds through the races that
lose levels. A trade must not take from a closed order; the loop looks at the maker
(`SetsOut`: only `Admit` brings a call to trade, with an order that is open), what a cancel does
after the look is the excepted step, and nobody looks at the taker. The invariant says why nobody has to: before `Attach` nothing
in the book knows the order (`Newcomers`) and only one call adds it (`OneAdder`). For that,
levels, copies of levels and the index must not come to hold an order that none of them held
before; the lemma of each step shows it (`Steady`).

`BookIsWhole` (`SerialBook`), `TradesAreFair` (`SerialTrades`) and `FirstComesFirst`
(`TimePriority`) are about calls that do not overlap, and about books of any size: any number
of orders, prices, levels and rests of earlier calls. None of the three properties is
inductive, because in the middle of a call the book is not whole. `Quiet` says what it is
then: at most one call is in progress, and its record `c` tells the rest (`Story(c)`).

* `Shelf`, whatever is in progress: a level in a tree serves one price, has been allocated
  and is not in the pool; a level in no tree is empty, which is why the one that
  `CreateLevel` takes from the pool can be used for another price; a level has one buffer at
  most, with room left (`Slim`), and its orders in the order of arrival.
* `Listing(c)`: the orders that should rest are listed at their own price and side and
  nothing else is, except the order of a call that has not reached its level or has left it
  (`Absent`); a level of a tree is empty only if this call emptied it and has still to sweep
  or drop it, or has just created it (`Emptied`).
* `Index(c)`: the index has every resting order but the one that is not yet registered.
* `AtMakers(c)`: who is in the level but no longer in the scan's copy of it belongs to the
  taker's user, unless the taker is filled. This is what gives time priority.

Each step has a lemma `Story...`, that the story of the call as it was gives that of the call
as it goes on, and a lemma `...Tells` that applies it to the action. Below them are lemmas on
chains of buffers (`SlimSeen`, `SlimBehind`, `SlimWith`, `SlimWithout`): `Orders()`, adding
and removing keep a buffer slim, in order, and lose and double nothing. For prices within
both limits the maker's price must be the key that the scan is at, which `Listing` says; that
a level that is swept twice is not pooled twice is a cardinality (`StorySweep`).

`PricesInKeyOrder` (`FirstKeyFirst`) needs one more invariant, `NobodyMissed`: behind the key that
the scan is at, and at that key once its level is closed, no order with a remainder is left but
those of the taker's own user. It is preserved because the scan takes the next key that has a
level, because an order that should rest has one (`Listing`), and because a level is closed with
something left of the taker only when nobody in its copy is unvisited (`AtMakers`). It is here
that the assumption is used that no price is twice in `KeyOrder`. `BuyersGetTheBestPrice` draws
what can be had of price priority: under the hypothesis that keys are in the order of the
numbers, a sale is executed only when no cheaper one waits. Of purchases the same theorem gives
the opposite, since the scan of the bids ascends too: the lowest bid is served first. That, and
keys such as "10" and "9", is what `OB_priority` and the hazards at 379 and 732 are about.

`StandOffNeedsACancel` (`OnlyCancelsStandOff`) is about locks alone and uses no other invariant:
a call that visits makers waits for nothing, so if all wait, a tree is held by a scan that wants a
level, and a level is held by a `CancelOrder` that wants a tree.

TLC checked `Quiet` before it was proved. The hypothesis `calm` cannot be dropped: a second
call between `FindLevel` and `CreateLevel` makes a second level for the price.

### The migration

`Migration_proofs` assumes that the participants with a database are participants and
that the bounds are numbers. `TypeCorrect` (of retries it says only that they are a number) and `PairsAreExclusive` (`OnePerPair`). Several goroutines pass the checks
of `StartMigration` at once, and `ReleaseLock` does not look at who holds the lock; that this
does no harm rests on `WorkOK`: a goroutine that is still waiting at the lock, or one that
retries or aborts, is not marked as having locked and releases nothing.

`EndsClean` (`NothingLeftBehind`) and `CompletesWhole` (`CompletesOnlyWhole`) are about
executions and aborts that do not overlap, whatever fails, times out, panics or goes down.
The invariant `Alone` gives, for the one goroutine that is past the checks and for the phase
it is in, what the participants can look like: nothing is open and nothing switched that did
not complete at "start" and "release"; in the phases between, whatever is open or
half switched is the work of this migration (`AllInvolved`); in "commit" each participant has
gone over, or its call is still under way, or the failure is noted (`Committing`); in "abort"
each is clean, or its call is under way (`Aborting`). It also needs that the calls
under way are those of the phase (`OwnCalls`), that all participants are asked or none
(`Polled`), and `Reserved`: a migration that waits at the lock is unknown to everybody else,
or else `Begin` could take the phase "completed" from one whose switches are in effect.
`CompletesWhole` then reads off "commit", with no call under way and no failure noted, that
all have gone over.

`NoneIsStranded` (`NothingStranded`) holds through all overlaps. It follows the goroutines: each
step that makes a migration active leaves a goroutine on it, a goroutine that goes has left its
migration in a final phase or had not begun with it, and after a crash no goroutine and no lock is left, and
what recovery loads is new. It uses of the other invariants what `OnePerPair` rests on: that
a lock is released by its holder (`WorkOK`).

### Only model-checked

The liveness properties (`ActiveIsResolved`, `EndedIsRemoved`, `EveryCallReturns`,
`EventuallyEnds`, `RowsGo`) are out of the prover's reach. So is what recursive definitions compute for inputs of every size; no module
that is proved about declares a RECURSIVE operator. All other properties of the passing runs
are proved. For each of the liveness properties but one, the safety that it rests on is: that what has
to be done is still known to somebody who will do it (`NoneIsForgotten`, `NoneIsStranded`), and
that no circle of waiting calls is invisible to the database (`DetectorSeesAll`).

## 5. What is not modelled

* `StartWithTimeouts`, `CommitWithRetry`, `prepareWithTimeout`, `commitWithTimeout`:
  no callers. `CommitWithRetry` would block on itself (`xa_manager.go:1021`).
* `EnhancedLockFunds`, `EnhancedTransferFunds`, `BatchUpdateBalances`: no callers and
  not in `BookkeeperService`. `CreateTransaction` inserts a row that
  nobody could tell from an initial one. `CreateAccount` does too, unless it inserts a
  second row for an account (no index is unique), which the model cannot hold.
* The tables and flags of the XA resources. `Enlist` does not start a branch and nothing
  else does, so the bookkeeper, trading, settlement and wallet resources refuse the manager's
  calls. The fiat resource needs no start (`workflows.go:235-274`): its business operations act
  at once and `Rollback` compensates them. `XAManager` lets resources do all of this at any time.
* A crash of the process of the manager: it keeps nothing on disk, so a restart begins
  with an empty map.
* In `distributed_locks.go`: `ExtendLock` (no callers), heartbeats (a column nobody
  reads), the saga (nothing builds one).
* In the order book: `RestoreFromSnapshot` (it holds the lock that its `AddOrder` takes),
  `cleanupOrders` (selects by a status that the book never sets), snapshots and caches
  (they only read), the administrative switches, the other books of the directory.
* In the migration: `ResumeMigration` (works on a copy of the state), the expiry of the
  one-hour lock, the engine participant, the safety manager, events and health checks.
* The components with status `not_modelled` in `PROJECT.json`, with the reason. Most of
  the repository is compliance, market making, authentication, market data, HTTP and
  generated code, of which little has a state that others depend on; the project covers
  the path of funds and orders, a small share of all lines.

## 6. What comes next

In this order:

1. *Proofs*: the types of `Exchange`, `Ledger` and `AtomicCommit` and what follows from them
   alone, so that it holds of the detailed modules by refinement (as `NoMoneyIsMade` does).
2. *Bookkeeper*: `CreateAccount` and `CreateTransaction`, with several rows for one account
   (191), and `BatchOperationResult`, so that a refused or uncommitted operation can be
   compared with what the caller is told (1322).
3. *Composition*: the trading service over `Bookkeeper` and `OrderBook` (funds locked
   before an order, released by a cancellation), then the persistent queue and the event
   journal with acknowledgement and replay after a crash.
4. *Settlement*, wallets and deposits: receipts counted once, withdrawals paid once.
